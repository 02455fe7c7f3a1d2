---------------------------- MODULE StagingProofs ---------------------------
(***************************************************************************)
(* Proofs about Staging, for any names, paths, limits, archives, servers   *)
(* and engines: types, what the budget accounts for, when a package is     *)
(* refused, what links become, what progress says, that what becomes       *)
(* active is what was reviewed, and when a launcher starts.                *)
(***************************************************************************)
EXTENDS Staging, ExtractionProofs

-----------------------------------------------------------------------------
(* Bytes                                                                    *)

\* Bytes adds one artifact after the other.
LEMMA BytesAre ==
  ASSUME NEW artifacts \in Candidates
  PROVE  /\ Len(artifacts) \in Nat /\ Bytes(artifacts, 0) = 0
         /\ \A n \in 0..Len(artifacts) : Bytes(artifacts, n) \in Nat
         /\ \A n \in 1..Len(artifacts) :
              /\ artifacts[n].bytes \in Nat /\ artifacts[n].kind \in Kinds
              /\ Bytes(artifacts, n) = Bytes(artifacts, n - 1) + artifacts[n].bytes
<1> DEFINE N == Len(artifacts)
           Solves(f) == f = [k \in 0..N |->
                               IF k = 0 THEN 0 ELSE f[k - 1] + artifacts[k].bytes]
           adding == [k \in 1..N |-> [v \in Nat |-> v + artifacts[k].bytes]]
<1>1. /\ N \in Nat
      /\ \A n \in 1..N : artifacts[n].bytes \in Nat /\ artifacts[n].kind \in Kinds
  <2> DEFINE R == [kind: Kinds, bytes: Nat]
  <2>1. artifacts \in Seq(R)
    BY StagingAssumption
  <2>2. \A r \in R : r.bytes \in Nat /\ r.kind \in Kinds
    OBVIOUS
  <2> HIDE DEF R
  <2>3. N \in Nat /\ \A n \in 1..N : artifacts[n] \in R
    BY <2>1
  <2>4. QED
    BY <2>2, <2>3
<1> HIDE DEF N
<1>2. PICK g : Iterates(g, N, 0, adding)
  BY <1>1, IteratesExist
<1>3. \A v \in Nat : \A k \in 1..N :
        adding[k][v] = v + artifacts[k].bytes /\ adding[k][v] \in Nat
  BY <1>1
<1> HIDE DEF adding
<1>4. \A k \in 0..N : g[k] \in Nat
  <2>1. 0 \in Nat /\ \A v \in Nat : \A k \in 1..N : adding[k][v] \in Nat
    BY <1>3
  <2>2. QED
    BY <1>1, <1>2, <2>1, IteratesType
<1>5. Solves(g)
  <2>1. ASSUME NEW k \in 0..N
        PROVE  g[k] = IF k = 0 THEN 0 ELSE g[k - 1] + artifacts[k].bytes
    <3>1. g[k] = IF k = 0 THEN 0 ELSE adding[k][g[k - 1]]
      BY <1>2 DEF Iterates
    <3>2. k # 0 => k \in 1..N /\ k - 1 \in 0..N
      BY <1>1
    <3>3. QED
      BY <1>3, <1>4, <3>1, <3>2
  <2>2. g = [k \in 0..N |-> g[k]]
    BY <1>2 DEF Iterates
  <2>3. QED
    BY <2>1, <2>2
<1>6. \A n : Bytes(artifacts, n) = (CHOOSE f : Solves(f))[n]
  BY DEF Bytes, N
<1> HIDE DEF Solves
<1>7. PICK f : Solves(f) /\ \A n : Bytes(artifacts, n) = f[n]
  <2>1. Solves(CHOOSE f : Solves(f))
    BY <1>5
  <2>2. QED
    BY <1>6, <2>1
<1>8. \A k \in 0..N : f[k] = IF k = 0 THEN 0 ELSE f[k - 1] + artifacts[k].bytes
  BY <1>7 DEF Solves
<1>9. f[0] = 0 /\ \A k \in 1..N : f[k] = f[k - 1] + artifacts[k].bytes
  BY <1>1, <1>8
<1>10. \A k \in 0..N : f[k] \in Nat
  <2> DEFINE Bad == {k \in Nat : k \in 0..N /\ f[k] \notin Nat}
  <2>1. SUFFICES ASSUME Bad # {}
                 PROVE  FALSE
    BY <1>1
  <2>2. PICK k \in Bad : \A m \in Bad : k <= m
    <3>1. Bad \in SUBSET Nat
      OBVIOUS
    <3> HIDE DEF Bad
    <3>2. QED
      BY <2>1, <3>1, LeastNumber
  <2>3. k # 0
    BY <1>9, <2>2
  <2>4. k - 1 \in Nat /\ k - 1 \in 0..N /\ k \in 1..N
    BY <1>1, <2>2, <2>3
  <2>5. f[k - 1] \in Nat
    BY <2>2, <2>4
  <2>6. QED
    BY <1>1, <1>9, <2>2, <2>4, <2>5
<1>11. QED
  BY <1>1, <1>7, <1>9, <1>10 DEF N

\* No part of the artifacts has more than all of them.
LEMMA BytesGrow ==
  ASSUME NEW artifacts \in Candidates, NEW n \in 0..Len(artifacts)
  PROVE  Bytes(artifacts, n) <= Bytes(artifacts, Len(artifacts))
<1> DEFINE N == Len(artifacts)
           T == Bytes(artifacts, N)
           Bad == {k \in Nat : k \in 0..N /\ ~(Bytes(artifacts, N - k) <= T)}
<1>1. /\ N \in Nat
      /\ \A k \in 0..N : Bytes(artifacts, k) \in Nat
      /\ \A k \in 1..N :
           /\ artifacts[k].bytes \in Nat
           /\ Bytes(artifacts, k) = Bytes(artifacts, k - 1) + artifacts[k].bytes
  BY BytesAre
<1> HIDE DEF N
<1>2. SUFFICES ASSUME ~(Bytes(artifacts, n) <= T)
               PROVE  FALSE
  BY DEF N
<1>3. Bad # {}
  <2>1. n \in 0..N /\ N - n \in Nat /\ N - n \in 0..N /\ N - (N - n) = n
    BY <1>1 DEF N
  <2>2. N - n \in Bad
    BY <1>2, <2>1
  <2>3. QED
    BY <2>2
<1>4. PICK k \in Bad : \A m \in Bad : k <= m
  <2>1. Bad \in SUBSET Nat
    OBVIOUS
  <2> HIDE DEF Bad
  <2>2. QED
    BY <1>3, <2>1, LeastNumber
<1>5. k # 0
  BY <1>1, <1>4
<1>6. k - 1 \in Nat /\ k - 1 \in 0..N /\ N - (k - 1) \in 1..N
      /\ (N - (k - 1)) - 1 = N - k /\ N - k \in 0..N
  BY <1>1, <1>4, <1>5
<1>7. Bytes(artifacts, N - (k - 1)) <= T
  BY <1>4, <1>6
<1>8. Bytes(artifacts, N - (k - 1))
        = Bytes(artifacts, N - k) + artifacts[N - (k - 1)].bytes
  BY <1>1, <1>6
<1>9. QED
  <2>1. /\ Bytes(artifacts, N - k) \in Nat /\ artifacts[N - (k - 1)].bytes \in Nat
        /\ T \in Nat
    BY <1>1, <1>6
  <2>2. Bytes(artifacts, N - k) <= T
    BY <1>7, <1>8, <2>1
  <2>3. QED
    BY <1>4, <2>2

-----------------------------------------------------------------------------
(* The staging directory                                                    *)

\* On the same file system, what is fine stays so.
LEMMA Fine ==
  ASSUME UNCHANGED budget, DiskOK(disk')
  PROVE  DiskOK(disk)'
BY DirectoriesStay

\* What create_new writes is one more file, and directories.
LEMMA Writing ==
  ASSUME DiskOK(disk), NEW p \in AllPaths, Exists(p) = "none", NEW of \in Seq(Names)
  PROVE  DiskOK(WithFile(p, 0, of))
<1>1. 0 \in Nat /\ FALSE \in BOOLEAN
  OBVIOUS
<1>2. PICK M : Laid(M, p, FALSE, 0, of) /\ WithFile(p, 0, of) = disk \cup M
  BY <1>1, LayingFile
<1>3. DiskOK(disk \cup M)
  BY <1>1, <1>2, LaidIsNew
<1>4. QED
  BY <1>2, <1>3

\* A refused package leaves nothing that is not fine.
LEMMA Left ==
  ASSUME BudgetOK, DiskOK(disk), NEW error, Fail(error)
  PROVE  DiskOK(disk)'
<1>1. disk' \in SUBSET disk /\ budget' = EmptyBudget(budget.folds)
  BY DEF Fail
<1>2. DiskOK(disk')
  BY <1>1, Fewer
<1>3. budget'.folds = budget.folds
  BY <1>1, FoldsStay
<1>4. QED
  BY <1>2, <1>3, DirectoriesStay

\* If an engine or a user changes something.
LEMMA Touching ==
  ASSUME DiskOK(disk), NEW D \in Touched
  PROVE  DiskOK(D)
<1> DEFINE Without(p) == {n \in disk : \A q \in Nodes[n.path] : Slot(q) # Slot(p)}
           New(p, dir) == [path |-> p, dir |-> dir, size |-> 0, of |-> <<>>]
<1>1. PICK p \in Scribbles : D \in {Without(p), Without(p) \cup {New(p, TRUE)},
                                   Without(p) \cup {New(p, FALSE)}}
  BY DEF Touched
<1>2. p \in AllPaths
  BY StagingAssumption
<1> DEFINE W == Without(p)
<1>3. W \in SUBSET disk /\ \A n \in W : Slot(n.path) # Slot(p)
  <2>1. \A n \in disk : n.path \in AllPaths
    BY DEF DiskOK, Stored
  <2>2. \A n \in disk : n.path \in Nodes[n.path]
    BY <2>1, NodesAre
  <2>3. QED
    BY <2>2
<1> HIDE DEF W
<1>4. DiskOK(W)
  BY <1>3, Fewer
<1>5. ASSUME NEW dir \in BOOLEAN
      PROVE  DiskOK(W \cup {New(p, dir)})
  <2>1. <<>> \in Seq(Names)
    OBVIOUS
  <2>2. /\ New(p, dir) \in Stored /\ New(p, dir).path = p
        /\ New(p, dir).size = 0 /\ New(p, dir).of = <<>>
    BY <1>2, <2>1 DEF Stored
  <2> HIDE DEF New
  <2>3. IsFiniteSet(W \cup {New(p, dir)})
    BY <1>4, FS_AddElement DEF DiskOK
  <2>4. QED
    BY <1>3, <1>4, <2>2, <2>3 DEF DiskOK
<1>6. D \in {W, W \cup {New(p, TRUE)}, W \cup {New(p, FALSE)}}
  BY <1>1 DEF W
<1> HIDE DEF New
<1>7. QED
  BY <1>4, <1>5, <1>6

-----------------------------------------------------------------------------
(* Where stage is                                                           *)

\* The steps after the artifacts.
Late ==
  {"paths", "personalize", "snapshot", "validate", "compare", "record", "recheck",
   "check", "commit", "active"}

\* The steps at one artifact.
AtArtifact == {"request", "body", "verify", "materialize", "clean"}

\* Where stage is, and which phase of materialize goes with it.
StepInv ==
  /\ step \in Steps
  /\ phase \in {"package", "entries", "links", "done", "failed"}
  /\ package \in Candidates /\ Len(package) <= Artifacts
  /\ index \in 1..(Len(package) + 1)
  /\ step \in AtArtifact => index <= Len(package)
  /\ step \in Late => phase \in {"done", "failed"} /\ index = Len(package) + 1
  /\ phase = "done" => step \in Late
  /\ phase \in {"entries", "links"} => step = "clean"
  /\ step = "active" => phase = "done"

\* The artifact at hand is one of the package.
LEMMA PackageIs ==
  ASSUME StepInv
  PROVE  /\ Len(package) \in Nat /\ index \in Nat /\ index - 1 \in 0..Len(package)
         /\ step \in AtArtifact => index \in 1..Len(package)
<1>1. package \in Candidates /\ index \in 1..(Len(package) + 1)
      /\ (step \in AtArtifact => index <= Len(package))
  BY DEF StepInv
<1>2. Len(package) \in Nat
  BY <1>1, BytesAre
<1>3. QED
  BY <1>1, <1>2

\* A download is in .downloads itself.
LEMMA PartIs ==
  ASSUME StepInv, step \in AtArtifact
  PROVE  /\ PartPath \in AllPaths /\ Start(PartPath) = <<Downloads>>
         /\ Parents(PartPath) = {<<Downloads>>} /\ PartPath # <<Downloads>>
         /\ Slot(PartPath) # Slot(<<Downloads>>)
         /\ Len(PartPath) = 2 /\ PartPath[1] = Downloads
<1>1. index \in 1..Len(PartName)
  <2>1. /\ index \in 1..Len(package) /\ Len(package) \in Nat
        /\ Len(package) <= Artifacts
    BY PackageIs DEF StepInv
  <2>2. Artifacts <= Len(PartName) /\ Len(PartName) \in Nat /\ Artifacts \in Nat
    BY StagingAssumption, ExtractionAssumption
  <2>3. QED
    BY <2>1, <2>2
<1>2. PICK q \in Paths : q = PartName[index] /\ Len(q) = 1
  BY <1>1, StagingAssumption
<1> DEFINE p == <<Downloads>> \o q
<1>3. p \in AllPaths /\ q \in Seq(Names)
  BY OutputsArePaths, ExtractionAssumption
<1>4. <<Downloads>> \in AllPaths /\ Downloads \in Names
  BY DownloadsArePaths, ExtractionAssumption
<1>5. Len(p) = 2 /\ p[1] = Downloads
  <2>1. <<Downloads>> \in Seq(Names) /\ Len(<<Downloads>>) = 1
    BY <1>4
  <2>2. Len(p) = 1 + Len(q) /\ p[1] = Downloads
    BY <1>3, <2>1
  <2>3. QED
    BY <1>2, <2>2
<1> HIDE DEF p
<1>6. Start(p) = <<Downloads>>
  BY <1>3, <1>5, Starts
<1>7. /\ Nodes[p] = {SubSeq(p, 1, n) : n \in 1..2} /\ p \in Seq(Names)
      /\ SubSeq(p, 1, 1) = <<Downloads>>
  BY <1>3, <1>5, <1>6, PrefixesArePaths DEF Start
<1>8. SubSeq(p, 1, 2) = p
  BY <1>5, <1>7
<1>9. 1..2 = {1, 2}
  OBVIOUS
<1>10. Nodes[p] = {<<Downloads>>, p}
  BY <1>7, <1>8, <1>9
<1>11. Len(<<Downloads>>) = 1
  OBVIOUS
<1>12. p # <<Downloads>>
  BY <1>5, <1>11
<1>13. Slot(p) # Slot(<<Downloads>>)
  BY <1>3, <1>4, <1>5, <1>11, SameSlots
<1>14. PartPath = p
  BY <1>2 DEF PartPath, p
<1>15. QED
  BY <1>3, <1>5, <1>6, <1>10, <1>12, <1>13, <1>14 DEF Parents

-----------------------------------------------------------------------------
(* The steps of the extraction                                              *)

\* The steps of an artifact only add what was extracted.
Adds == disk \subseteq disk' /\ \A n \in disk' : n \in disk \/ n.dir \/ n.of # <<>>

\* Directories and files of artifacts only add to what is there.
LEMMA WritingAdds ==
  ASSUME NEW S, NEW p, NEW size, NEW of, of # <<>>
  PROVE  /\ disk' = WithDirectories(S) => Adds
         /\ disk' = WithFile(p, size, of) => Adds
BY DEF WithDirectories, WithFile, Adds

\* What is written for an artifact.
LEMMA Materializing ==
  ASSUME StepInv, ExtractionInv, Materialize
  PROVE  /\ ExtractionInv' /\ DiskOK(disk)' /\ step = "materialize"
         /\ phase = "package" /\ phase' \in {"package", "entries", "failed"}
         /\ phase' # "failed" => Adds
<1>1. PICK p \in Destinations :
        Raw(p, Artifact.bytes) \/ \E format \in {"zip", "tar"} : Open(p, format)
  BY DEF Materialize
<1>2. step = "materialize" /\ phase = "package"
  BY <1>1 DEF Materialize, At, Raw, Open, NextArtifact
<1>3. Artifact.bytes \in Nat
  <2>1. package \in Candidates /\ index \in 1..Len(package)
    BY <1>2, PackageIs DEF StepInv, AtArtifact
  <2>2. QED
    BY <2>1, BytesAre DEF Artifact
<1>4. ExtractionInv' /\ phase' \in {"package", "entries", "failed"}
  BY <1>1, <1>3, RawStep, OpenStep
<1>5. ASSUME phase' # "failed"
      PROVE  Adds
  <2>1. p # <<>>
    BY ExtractionAssumption
  <2>2. CASE Raw(p, Artifact.bytes)
    <3>1. disk' = WithFile(p, Artifact.bytes, p)
      BY <1>5, <2>2 DEF Raw, Fail
    <3>2. QED
      BY <2>1, <3>1, WritingAdds
  <2>3. CASE \E format \in {"zip", "tar"} : Open(p, format)
    <3>1. disk' = WithDirectories(Nodes[p])
      BY <1>5, <2>3 DEF Open, Fail
    <3>2. QED
      BY <2>1, <3>1, WritingAdds
  <2>4. QED
    BY <1>1, <2>2, <2>3
<1>6. DiskOK(disk)'
  <2>1. CASE phase' = "failed"
    <3>1. \E error : Fail(error)
      BY <1>1, <1>2, <2>1 DEF Raw, Open
    <3>2. BudgetOK /\ DiskOK(disk)
      BY <1>2 DEF ExtractionInv, Packing, Balanced
    <3>3. QED
      BY <3>1, <3>2, Left
  <2>2. CASE phase' # "failed"
    BY <1>4, <2>2 DEF ExtractionInv, Packing, Balanced
  <2>3. QED
    BY <2>1, <2>2
<1>7. QED
  BY <1>2, <1>4, <1>5, <1>6

\* An entry of an archive, or a link at its end.
LEMMA Extracting ==
  ASSUME ExtractionInv, Entry
  PROVE  /\ ExtractionInv' /\ DiskOK(disk)' /\ phase \in {"entries", "links"}
         /\ phase' \in {"package", "entries", "links", "failed"}
         /\ phase' # "failed" => Adds
<1>1. /\ ExtractionInv' /\ phase \in {"entries", "links"}
      /\ phase' \in {"package", "entries", "links", "failed"}
  BY EntryStep
<1>2. DOMAIN archive.files = DOMAIN archive.files /\ archive \in Archives
  BY DEF ExtractionInv, ArchiveOK
<1>3. ASSUME phase' # "failed"
      PROVE  Adds
  <2>1. \A error : ~Refuse(error)
    BY <1>3 DEF Refuse, Fail
  <2>2. \A q \in Paths : Output(q) # <<>>
    BY <1>1, Reading
  <2>3. <<1>> # <<>>
    OBVIOUS
  <2>4. CASE disk' = disk
    BY <2>4 DEF Adds
  <2>5. ASSUME NEW q \in Paths, DirectoryEntry(q)
        PROVE  Adds
    <3>1. disk' = WithDirectories(Nodes[Output(q)])
      BY <2>1, <2>5 DEF DirectoryEntry
    <3>2. QED
      BY <2>3, <3>1, WritingAdds
  <2>6. ASSUME NEW q \in Paths, NEW size \in Sizes, FileEntry(q, size)
        PROVE  Adds
    <3>1. disk' = WithFile(Output(q), size, Output(q))
      BY <2>1, <2>6 DEF FileEntry
    <3>2. QED
      BY <2>2, <3>1, WritingAdds
  <2>7. CASE CopyTarget
    <3>1. PICK file \in archive.files :
            disk' = WithFile(Output(Head(archive.pending)), file.size, Output(file.path))
      BY <2>1, <2>7 DEF CopyTarget
    <3>2. file.path \in Paths
      BY <1>2 DEF Archives, File
    <3>3. QED
      BY <2>2, <3>1, <3>2, WritingAdds
  <2>8. ASSUME NEW q \in Paths, NEW text \in LinkTexts, LinkEntry(q, text)
        PROVE  disk' = disk
    BY <2>1, <2>8 DEF LinkEntry
  <2>9. CASE CommentEntry \/ EndOfArchive \/ Follow
    BY <2>4, <2>9 DEF CommentEntry, EndOfArchive, Follow
  <2>10. ~(TooManyEntries \/ SpecialEntry \/ Unresolved)
    BY <2>1 DEF TooManyEntries, SpecialEntry, Unresolved
  <2>11. QED
    BY <2>4, <2>5, <2>6, <2>7, <2>8, <2>9, <2>10 DEF Entry
<1>4. DiskOK(disk)'
  <2>1. CASE phase' = "failed"
    <3>1. \E error : Fail(error)
      <4>1. ASSUME \A error : ~Refuse(error)
            PROVE  FALSE
        BY <1>1, <2>1, <4>1 DEF Entry, DirectoryEntry, FileEntry, LinkEntry,
           TooManyEntries, SpecialEntry, CommentEntry, EndOfArchive, Follow,
           CopyTarget, Unresolved, Resume
      <4>2. QED
        BY <4>1 DEF Refuse
    <3>2. BudgetOK /\ DiskOK(disk)
      BY <1>1 DEF ExtractionInv, Packing, Balanced
    <3>3. QED
      BY <3>1, <3>2, Left
  <2>2. CASE phase' # "failed"
    BY <1>1, <2>2 DEF ExtractionInv, Packing, Balanced
  <2>3. QED
    BY <2>1, <2>2
<1>5. QED
  BY <1>1, <1>3, <1>4

-----------------------------------------------------------------------------
(* The download at hand                                                     *)

\* The steps at which it is in the staging directory.
Parted == {"body", "verify", "materialize", "clean"}

\* Nothing else is there that was not extracted.
PartOK ==
  Packing =>
    /\ \A n \in disk : n \in Filed(disk) \/ (step \in Parted /\ n.path = PartPath)
    /\ step \in Parted => \E n \in disk : n.path = PartPath /\ n \notin Filed(disk)

\* Two nodes stay the same, or different.
LEMMA SameStays ==
  ASSUME budget'.folds = budget.folds
  PROVE  \A m, n : Same(m, n)' <=> Same(m, n)
BY SlotsStay DEF Same

\* The download is below .downloads, which is there.
LEMMA PartIsRooted ==
  ASSUME ExtractionInv, Packing, Filed(disk') = Filed(disk),
         \A n \in disk' : n \in Filed(disk) \/ Parents(n.path) = {<<Downloads>>}
  PROVE  Rooted(disk')
<1>1. Rooted(disk) /\ Downloading
  BY DEF ExtractionInv, Balanced
<1>2. \A m \in disk : m.dir => m \in disk'
  <2>1. Filed(disk) \subseteq disk'
    BY DEF Filed
  <2>2. QED
    BY <2>1 DEF Filed
<1>3. ASSUME NEW n \in disk', NEW q \in Parents(n.path)
      PROVE  \E m \in disk' : m.path = q /\ m.dir
  <2>1. CASE n \in Filed(disk)
    <3>1. PICK m \in disk : m.path = q /\ m.dir
      BY <1>1, <1>3, <2>1 DEF Rooted, Filed
    <3>2. QED
      BY <1>2, <3>1
  <2>2. CASE Parents(n.path) = {<<Downloads>>}
    <3> DEFINE top == [path |-> <<Downloads>>, dir |-> TRUE, size |-> 0, of |-> <<>>]
    <3>1. top \in disk /\ top.path = <<Downloads>> /\ top.dir
      BY <1>1 DEF Downloading
    <3> HIDE DEF top
    <3>2. QED
      BY <1>2, <1>3, <2>2, <3>1
  <2>3. QED
    BY <2>1, <2>2
<1>4. QED
  BY <1>3 DEF Rooted

\* Only steps of materialize change what was extracted, until it is all there.
LEMMA Keeping ==
  ASSUME ExtractionInv, Packing,
         UNCHANGED <<phase, failure, budget, archive, walk, taken>>,
         DiskOK(disk'), Rooted(disk'), Filed(disk') = Filed(disk),
         \A n \in disk' : n \in Filed(disk) \/ InDownloads(n)
  PROVE  ExtractionInv'
<1>1. DiskOK(disk)' /\ \A n : (Top(n)' <=> Top(n)) /\ (InDownloads(n)' <=> InDownloads(n))
  BY DirectoriesStay
<1>0. Trespassed' <=> Trespassed
  BY MisjudgedStays DEF Trespassed
<1>2. FailureOK' /\ BudgetOK' /\ WalkOK' /\ TakenOK' /\ ArchiveOK'
  BY <1>0 DEF ExtractionInv, FailureOK, BudgetOK, Rooted, ArchiveOK, WalkOK, TakenOK,
     Listed
<1>3. Balanced /\ FilesOK
  BY DEF ExtractionInv
<1>4. Accounts'
  <2>1. \A m, n : Same(m, n)' <=> Same(m, n)
    BY SameStays
  <2>2. QED
    BY <1>1, <1>3, <2>1 DEF Balanced, Accounts
<1>9. Rooted(disk)'
  BY DEF Rooted
<1>5. Downloading'
  <2>1. \A n \in disk' : n \in Filed(disk) => n \in disk'
    OBVIOUS
  <2>2. [path |-> <<Downloads>>, dir |-> TRUE, size |-> 0, of |-> <<>>] \in Filed(disk)
    BY <1>3 DEF Balanced, Downloading, Filed
  <2>3. [path |-> <<Downloads>>, dir |-> TRUE, size |-> 0, of |-> <<>>] \in disk'
    <3>1. Filed(disk) \subseteq disk'
      BY DEF Filed
    <3>2. QED
      BY <2>2, <3>1
  <2>4. \A n \in disk' : ~n.dir /\ n.of = <<>> => InDownloads(n)
    BY DEF Filed
  <2>5. QED
    BY <1>1, <2>3, <2>4 DEF Downloading
<1>6. FilesOK'
  BY <1>0, <1>1, <1>3 DEF FilesOK
<1>7. LinksAreTheirTargets'
  <2>1. CASE phase = "entries"
    BY <2>1 DEF LinksAreTheirTargets
  <2>2. CASE phase # "entries"
    <3>1. \A n \in disk : ~n.dir /\ n.of # <<>> => n \in disk'
      <4>1. Filed(disk) \subseteq disk'
        BY DEF Filed
      <4>2. QED
        BY <4>1 DEF Filed
    <3>2. phase \in {"links", "package"}
      BY <2>2 DEF Packing
    <3>3. archive \in Archives /\ (archive.links # {} => archive.destination \in Destinations)
      BY DEF ExtractionInv, ArchiveOK
    <3>4. LinksAreTheirTargets
      BY DEF ExtractionInv
    <3>5. QED
      BY <3>1, <3>2, <3>3, <3>4, LinksStay
  <2>3. QED
    BY <2>1, <2>2
<1>8. QED
  BY <1>1, <1>2, <1>4, <1>5, <1>6, <1>7, <1>9 DEF ExtractionInv, Balanced

\* Afterwards the staging directory is no concern of the extraction's.
LEMMA KeepingLate ==
  ASSUME ExtractionInv, ~Packing,
         UNCHANGED <<phase, failure, budget, archive, walk, taken>>
  PROVE  ExtractionInv'
<1>1. Trespassed' <=> Trespassed
  BY MisjudgedStays DEF Trespassed
<1>2. QED
  BY <1>1 DEF ExtractionInv, FailureOK, BudgetOK, Rooted, ArchiveOK, WalkOK, TakenOK,
     Listed, Packing, LinksAreTheirTargets

\* What stage refuses to go on with.
LEMMA Failed ==
  ASSUME ExtractionInv, DiskOK(disk), NEW error \in Failures \ {"none", "snapshot"},
         Fails(error), error \in {"exists", "downloads"} => Trespassed
  PROVE  /\ ExtractionInv' /\ phase' = "failed" /\ DiskOK(disk)'
         /\ UNCHANGED stagingVars
<1>1. ExtractionInv' /\ phase' = "failed"
  BY Refusing DEF Fails
<1>2. DiskOK(disk)'
  BY Left DEF Fails, Refuse, ExtractionInv
<1>3. QED
  BY <1>1, <1>2 DEF Fails

-----------------------------------------------------------------------------
(* From one step of stage to another                                        *)

\* Nothing moves from one step of stage to another but what says so.
LEMMA StepsStep ==
  ASSUME StepInv, ExtractionInv, [Next]_vars
  PROVE  StepInv'
<1> USE DEF StepInv, Steps, Late, AtArtifact, At, Goto, Over
<1>0. Len(package) \in Nat /\ index \in Nat
  BY PackageIs
<1>1. ASSUME NEW error, Fails(error), ~Over
      PROVE  StepInv'
  BY <1>0, <1>1 DEF Fails, Refuse, Fail, stagingVars
<1>2. CASE Begin
  BY <1>0, <1>2 DEF Begin, extractionVars
<1>3. CASE Request
  BY <1>0, <1>1, <1>3 DEF Request
<1>4. ASSUME NEW n \in 1..FileLimit, Chunk(n)
      PROVE  StepInv'
  <2>1. CASE \E error : Fails(error)
    BY <1>1, <1>4, <2>1 DEF Chunk
  <2>2. CASE UNCHANGED <<extractionVars, step, package, index>>
    BY <2>2 DEF extractionVars
  <2>3. QED
    BY <1>4, <2>1, <2>2 DEF Chunk
<1>5. CASE EndOfBody
  BY <1>0, <1>1, <1>5 DEF EndOfBody
<1>6. CASE Verify
  BY <1>0, <1>6 DEF Verify, extractionVars
<1>7. CASE Materialize
  <2>1. phase' \in {"package", "entries", "failed"}
    BY <1>7, Materializing
  <2>2. QED
    BY <1>0, <1>7, <2>1 DEF Materialize
<1>8. CASE Extract
  <2>1. phase' \in {"package", "entries", "links", "failed"}
        /\ phase \in {"entries", "links"}
    BY <1>8, Extracting DEF Extract
  <2>2. QED
    BY <1>0, <1>8, <2>1 DEF Extract, stagingVars
<1>9. CASE Clean
  BY <1>0, <1>9 DEF Clean
<1>10. CASE EndOfArtifacts
  BY <1>0, <1>10 DEF EndOfArtifacts, Done, Refuse, Fail
<1>11. CASE CheckPaths
  <2>1. CASE \E error : Fails(error)
    BY <1>1, <1>11, <2>1 DEF CheckPaths
  <2>2. CASE /\ step' \in {"personalize", "snapshot"}
             /\ UNCHANGED <<extractionVars, package, index>>
    BY <1>0, <1>11, <2>2 DEF CheckPaths, extractionVars
  <2>3. QED
    BY <1>11, <2>1, <2>2 DEF CheckPaths
<1>12. CASE Personalize
  BY <1>0, <1>1, <1>12 DEF Personalize
<1>13. CASE TakeSnapshot
  BY <1>0, <1>1, <1>13 DEF TakeSnapshot, extractionVars
<1>14. CASE Validate
  BY <1>0, <1>1, <1>14 DEF Validate, extractionVars
<1>15. CASE Compare
  BY <1>0, <1>1, <1>15 DEF Compare, extractionVars
<1>16. CASE Record
  BY <1>0, <1>1, <1>16 DEF Record
<1>17. CASE Recheck \/ Check
  BY <1>0, <1>1, <1>17 DEF Recheck, Check, extractionVars
<1>18. CASE Commit
  BY <1>0, <1>18 DEF Commit, extractionVars
<1>19. CASE Cancelled \/ Breaks
  BY <1>1, <1>19 DEF Cancelled, Breaks
<1>20. CASE RequestCancel
  BY <1>0, <1>20 DEF RequestCancel, extractionVars
<1>21. CASE EngineWrites \/ Tamper
  BY <1>0, <1>21 DEF EngineWrites, Tamper
<1>22. CASE Recover
  BY <1>0, <1>22 DEF Recover, stagingVars
<1>23. CASE UNCHANGED vars
  BY <1>0, <1>23 DEF vars, extractionVars, stagingVars
<1>24. QED
  BY <1>2, <1>3, <1>4, <1>5, <1>6, <1>7, <1>8, <1>9, <1>10, <1>11, <1>12, <1>13,
     <1>14, <1>15, <1>16, <1>17, <1>18, <1>19, <1>20, <1>21, <1>22, <1>23
     DEF Next, Stage, Ended

-----------------------------------------------------------------------------
(* What is to be installed                                                  *)

\* When the artifacts are done the budget knows all there is.
Complete ==
  /\ Accounts /\ Rooted(disk) /\ Filed(disk) = disk
  /\ \A n \in disk : ~InDownloads(n)

\* And no limit is exceeded.
Fits ==
  /\ Cardinality(disk) <= EntryLimit /\ Size(disk) <= ByteLimit
  /\ \A n \in disk : n.size <= FileLimit

\* Until an engine runs.
FitsInv ==
  phase = "done" =>
    /\ step = "paths" => Complete
    /\ step \in {"paths", "personalize", "snapshot"} => Fits

\* The files of the package but its manifest.
Reviewable(D) ==
  {[path |-> n.path, size |-> n.size, of |-> n.of] :
     n \in {k \in D : ~k.dir /\ k.path # Manifest}}

\* A snapshot takes all of them.
LEMMA SnapshotIs ==
  ASSUME DiskOK(disk)
  PROVE  Snapshot = Reviewable(disk)
<1>0. \A n \in disk : n.path \in AllPaths /\ n \in Stored
  BY DEF DiskOK, Stored
<1>1. \A p \in AllPaths : /\ Len(p) > Len(<<>>) /\ SubSeq(p, 1, Len(<<>>)) = <<>>
                         /\ SubSeq(p, Len(<<>>) + 1, Len(p)) = p
  BY PrefixesArePaths
<1>2. {k \in disk : /\ ~k.dir /\ Len(k.path) > Len(<<>>)
                    /\ Slot(SubSeq(k.path, 1, Len(<<>>))) = Slot(<<>>)}
        = {k \in disk : ~k.dir}
  BY <1>1, <1>0
<1>3. FilesBelow(<<>>)
        = {[n EXCEPT !.path = SubSeq(@, Len(<<>>) + 1, Len(@))] :
             n \in {k \in disk : ~k.dir}}
  BY <1>2 DEF FilesBelow
<1>4. \A n \in disk :
        LET m == [n EXCEPT !.path = SubSeq(@, Len(<<>>) + 1, Len(@))] IN
        m.path = n.path /\ m.size = n.size /\ m.of = n.of
  BY <1>1, <1>0
<1>5. ASSUME NEW f \in Snapshot
      PROVE  f \in Reviewable(disk)
  <2>1. PICK m \in FilesBelow(<<>>) :
          /\ m.path # Manifest
          /\ f = [path |-> m.path, size |-> m.size, of |-> m.of]
    BY DEF Snapshot, Contents
  <2>2. PICK n \in disk :
          /\ ~n.dir
          /\ m = [n EXCEPT !.path = SubSeq(@, Len(<<>>) + 1, Len(@))]
    BY <1>3
  <2>3. m.path = n.path /\ m.size = n.size /\ m.of = n.of
    BY <1>4, <2>2
  <2>4. QED
    BY <2>1, <2>2, <2>3 DEF Reviewable
<1>6. ASSUME NEW f \in Reviewable(disk)
      PROVE  f \in Snapshot
  <2>1. PICK n \in disk : /\ ~n.dir /\ n.path # Manifest
                          /\ f = [path |-> n.path, size |-> n.size, of |-> n.of]
    BY DEF Reviewable
  <2> DEFINE m == [n EXCEPT !.path = SubSeq(@, Len(<<>>) + 1, Len(@))]
  <2>2. m \in FilesBelow(<<>>)
    BY <1>3, <2>1
  <2>3. m.path = n.path /\ m.size = n.size /\ m.of = n.of
    BY <1>4
  <2> HIDE DEF m
  <2>4. QED
    BY <2>1, <2>2, <2>3 DEF Snapshot, Contents
<1>7. QED
  BY <1>5, <1>6

\* So no package is too large for one.
LEMMA SnapshotsFit ==
  ASSUME DiskOK(disk), Fits
  PROVE  SnapshotFits
<1> DEFINE P == {k \in disk : ~k.dir /\ k.path # Manifest}
           h == [n \in disk |-> [path |-> n.path, size |-> n.size, of |-> n.of]]
<1>1. /\ Sized(disk) /\ P \subseteq disk
      /\ \A n \in P : h[n].size = n.size
      /\ \A n \in P : h[n] = [path |-> n.path, size |-> n.size, of |-> n.of]
  BY FiledAre
<1>2. Snapshot = {h[n] : n \in P}
  <2>1. Snapshot = {[path |-> n.path, size |-> n.size, of |-> n.of] : n \in P}
    BY SnapshotIs DEF Reviewable
  <2>2. QED
    BY <1>1, <2>1
<1> HIDE DEF h, P
<1>3. Sized(Snapshot) /\ Size(Snapshot) <= Size(disk)
  <2>1. Sized({h[n] : n \in P}) /\ Size({h[n] : n \in P}) <= Size(disk)
    <3>1. P \subseteq disk /\ \A n \in P : h[n].size = n.size
      BY <1>1
    <3>2. Sized(disk)
      BY <1>1
    <3>3. QED
      BY <3>1, <3>2, SizeOfImage, Zenon
  <2>2. QED
    BY <1>2, <2>1
<1>4. \A n \in Snapshot : n.size <= FileLimit
  BY <1>1, <1>2 DEF Fits
<1>5. Size(Snapshot) <= ByteLimit
  <2>1. Size(Snapshot) \in Nat /\ Size(disk) \in Nat /\ ByteLimit \in Nat
    BY <1>1, <1>3, SizeType, ExtractionAssumption
  <2>2. QED
    BY <1>3, <2>1 DEF Fits
<1>6. Cardinality(disk) <= EntryLimit + 1
  <2>1. Cardinality(disk) \in Nat /\ EntryLimit \in Nat
    BY FS_CardinalityType, ExtractionAssumption DEF DiskOK
  <2>2. QED
    BY <2>1 DEF Fits
<1>7. QED
  BY <1>4, <1>5, <1>6 DEF SnapshotFits

\* What the removal of .downloads leaves, or why it fails.
LEMMA Ending ==
  ASSUME ExtractionInv, PartOK, step = "begin", Done
  PROVE  /\ ExtractionInv' /\ DiskOK(disk)' /\ phase = "package"
         /\ \/ phase' = "failed"
            \/ phase' = "done" /\ Complete' /\ Fits'
<1>1. phase = "package" /\ Balanced /\ FilesOK
  BY DEF Done, ExtractionInv, Packing
<1>2. Filed(disk) = disk
  <2>1. \A n \in disk : n \in Filed(disk)
    BY <1>1 DEF PartOK, Packing, Parted
  <2>2. QED
    BY <2>1 DEF Filed
<1>3. \A n \in disk : n.path \in AllPaths /\ n \in Stored
  BY <1>1 DEF Balanced, DiskOK, Stored
<1>4. CASE Refuse("downloads")
  <2>1. PICK n \in disk : InDownloads(n) /\ Len(n.path) > 1
    BY <1>4 DEF Done, Refuse, Fail
  <2>2. Trespassed
    <3>1. n.path # <<Downloads>>
      <4> DEFINE top == <<Downloads>>
      <4>1. Len(top) = 1
        OBVIOUS
      <4> HIDE DEF top
      <4>2. Len(n.path) \in Nat /\ Len(n.path) > 1
        BY <1>3, <2>1, PrefixesArePaths
      <4>3. Len(n.path) # Len(top)
        <5>1. \A k \in Nat : k > 1 => k # 1
          OBVIOUS
        <5>2. QED
          BY <4>1, <4>2, <5>1, Zenon
      <4>4. n.path # top
        BY <4>3
      <4>5. QED
        BY <4>4 DEF top
    <3>2. QED
      BY <1>1, <1>2, <2>1, <3>1 DEF FilesOK
  <2>3. ExtractionInv' /\ phase' = "failed"
    BY <1>4, <2>2, Refusing DEF Failures
  <2>4. DiskOK(disk)'
    BY <1>1, <1>4, Left DEF Refuse, Balanced
  <2>5. QED
    BY <1>1, <2>3, <2>4
<1>5. CASE /\ \A n \in disk : InDownloads(n) => Len(n.path) = 1
           /\ phase' = "done"
           /\ disk' = {n \in disk : ~InDownloads(n)}
           /\ UNCHANGED <<failure, budget, archive, walk, taken>>
  <2> DEFINE Z == disk \ disk'
  <2>1. disk' \in SUBSET disk
    BY <1>5
  <2>2. DiskOK(disk') /\ DiskOK(disk)'
    BY <1>1, <1>5, <2>1, Fewer, Fine DEF Balanced
  <2>3. \A n \in disk : InDownloads(n) <=> Top(n)
    BY <1>5 DEF Top
  <2>4. Filed(disk') = disk'
    BY <1>2, <2>1 DEF Filed
  <2>5. \A z \in Z : z.size = 0
    <3>1. ASSUME NEW z \in Z
          PROVE  z.size = 0
      <4>1. Top(z)
        BY <1>5, <2>3
      <4>2. Slot(z.path) = Slot(<<Downloads>>)
        BY <1>3, <4>1, Tops
      <4> DEFINE top == [path |-> <<Downloads>>, dir |-> TRUE, size |-> 0, of |-> <<>>]
      <4>3. top \in disk /\ top.path = <<Downloads>> /\ top.size = 0
        BY <1>1 DEF Balanced, Downloading
      <4> HIDE DEF top
      <4>4. z = top
        BY <1>1, <4>2, <4>3 DEF Balanced, DiskOK
      <4>5. QED
        BY <4>3, <4>4
    <3>2. QED
      BY <3>1
  <2>6. Size(disk') = budget.bytes
    <3>1. IsFiniteSet(Z) /\ Sized(disk') /\ disk = disk' \cup Z
      BY <1>1, <2>1, <2>2, FS_Subset, FiledAre DEF Balanced, DiskOK
    <3>2. Size(disk' \cup Z) = Size(disk')
      BY <2>5, <3>1, SizeOfEmpties
    <3>3. QED
      BY <1>1, <1>2, <3>1, <3>2 DEF Balanced, Accounts
  <2>7. \A n : (Top(n)' <=> Top(n)) /\ (InDownloads(n)' <=> InDownloads(n))
    BY <1>5, DirectoriesStay
  <2>8. \A n \in disk' : \E b \in budget.nodes : Same(b, n)
    BY <1>1, <1>2, <1>5, <2>1, <2>3 DEF Balanced, Accounts
  <2>9. \A b \in budget.nodes : ~Top(b) => \E n \in disk' : Same(b, n)
    <3>1. ASSUME NEW b \in budget.nodes, ~Top(b)
          PROVE  \E n \in disk' : Same(b, n)
      <4>1. PICK n \in disk : Same(b, n)
        BY <1>1, <1>2, <3>1 DEF Balanced, Accounts
      <4>2. b.path \in AllPaths
        BY <1>1 DEF Balanced, BudgetOK, Budgets, Node
      <4>3. ~Top(n)
        BY <1>3, <3>1, <4>1, <4>2, Tops DEF Same
      <4>4. QED
        BY <1>5, <2>3, <4>1, <4>3
    <3>2. QED
      BY <3>1
  <2>17. Rooted(disk')
    <3>1. ASSUME NEW n \in disk', NEW q \in Parents(n.path)
          PROVE  \E m \in disk' : m.path = q /\ m.dir
      <4>1. n \in disk /\ ~InDownloads(n) /\ n.path \in AllPaths
        BY <1>3, <1>5
      <4>2. PICK m \in disk : m.path = q /\ m.dir
        BY <1>1, <3>1, <4>1 DEF Balanced, Rooted
      <4>3. Start(q) = Start(n.path)
        BY <3>1, <4>1, NodesAre DEF Parents
      <4>4. ~InDownloads(m)
        BY <1>3, <4>1, <4>2, <4>3, Tops
      <4>5. QED
        BY <1>5, <4>2, <4>4
    <3>2. QED
      BY <3>1 DEF Rooted
  <2>10. Complete'
    <3>1. \A m, n : Same(m, n)' <=> Same(m, n)
      BY <1>5, SameStays
    <3>2. Accounts'
      BY <1>5, <2>4, <2>6, <2>7, <2>8, <2>9, <3>1 DEF Accounts
    <3>3. QED
      BY <1>5, <2>4, <2>7, <2>17, <3>2 DEF Complete, Rooted
  <2>11. Cardinality(disk') <= EntryLimit
    <3> DEFINE f == [n \in disk' |-> CHOOSE b \in budget.nodes : Same(b, n)]
    <3>1. \A n \in disk' : f[n] \in budget.nodes /\ Same(f[n], n)
      BY <2>8
    <3>2. f \in [disk' -> budget.nodes]
      BY <3>1
    <3>4. DOMAIN f = disk'
      OBVIOUS
    <3> HIDE DEF f
    <3>3. \A m, n \in disk' : f[m] = f[n] => m = n
      <4>1. ASSUME NEW m \in disk', NEW n \in disk', f[m] = f[n]
            PROVE  m = n
        <5>1. Slot(m.path) = Slot(n.path)
          BY <3>1, <4>1 DEF Same
        <5>2. m \in disk /\ n \in disk
          BY <2>1
        <5>3. QED
          BY <1>1, <5>1, <5>2 DEF Balanced, DiskOK
      <4>2. QED
        BY <4>1
    <3>5. f \in Injection(disk', budget.nodes)
      BY <3>2, <3>3, <3>4 DEF Injection, IsInjective
    <3>6. IsFiniteSet(budget.nodes) /\ Cardinality(budget.nodes) = budget.entries
          /\ budget.entries \in 0..EntryLimit
      BY <1>1 DEF Balanced, BudgetOK, Budgets
    <3>7. Cardinality(disk') <= Cardinality(budget.nodes)
      BY <3>5, <3>6, FS_Injection
    <3>8. Cardinality(disk') \in Nat /\ EntryLimit \in Nat
      BY <2>2, FS_CardinalityType, ExtractionAssumption DEF DiskOK
    <3>9. QED
      BY <3>6, <3>7, <3>8
  <2>12. Size(disk') <= ByteLimit
    BY <1>1, <2>6, ExtractionAssumption DEF Balanced, BudgetOK, Budgets
  <2>13. \A n \in disk' : n.size <= FileLimit
    BY <1>1, <1>2, <2>1 DEF FilesOK
  <2>14. Fits'
    BY <2>11, <2>12, <2>13 DEF Fits
  <2>15. ExtractionInv'
    <3>1. Trespassed' <=> Trespassed
      BY <1>5, MisjudgedStays DEF Trespassed
    <3>2. QED
      BY <1>1, <1>5, <3>1 DEF ExtractionInv, FailureOK, BudgetOK, Rooted, ArchiveOK, WalkOK,
         TakenOK, Listed, Packing, LinksAreTheirTargets
  <2>16. QED
    BY <1>1, <1>5, <2>2, <2>10, <2>14, <2>15
<1>6. QED
  BY <1>4, <1>5 DEF Done

-----------------------------------------------------------------------------
(* What every step does to the staging directory                            *)

\* Nothing.
LEMMA Untouched ==
  ASSUME ExtractionInv, DiskOK(disk), UNCHANGED extractionVars
  PROVE  ExtractionInv' /\ DiskOK(disk)' /\ (FitsInv /\ step' = step => FitsInv')
<1> USE DEF extractionVars
<1>1. DiskOK(disk)'
  BY Fine
<1>2. ExtractionInv'
  <2>1. CASE Packing
    <3>1. \A n \in disk : n \in Filed(disk) \/ InDownloads(n)
      BY <2>1 DEF ExtractionInv, Balanced, Downloading, Filed
    <3>2. Rooted(disk')
      BY <2>1 DEF ExtractionInv, Balanced
    <3>3. QED
      BY <2>1, <3>1, <3>2, Keeping
  <2>2. CASE ~Packing
    BY <2>2, KeepingLate
  <2>3. QED
    BY <2>1, <2>2
<1>3. ASSUME FitsInv, step' = step
      PROVE  FitsInv'
  <2>1. \A n : (Top(n)' <=> Top(n)) /\ (InDownloads(n)' <=> InDownloads(n))
    BY DirectoriesStay
  <2>2. (Complete => Complete') /\ (Fits => Fits')
    <3>1. \A m, n : Same(m, n)' <=> Same(m, n)
      BY SameStays
    <3>2. QED
      BY <2>1, <3>1 DEF Complete, Accounts, Rooted, Fits
  <2>3. QED
    BY <1>3, <2>2 DEF FitsInv
<1>4. QED
  BY <1>1, <1>2, <1>3

\* The download is created.
LEMMA Requesting ==
  ASSUME StepInv, ExtractionInv, PartOK, step = "request", phase = "package",
         Exists(PartPath) = "none", disk' = WithFile(PartPath, 0, <<>>),
         UNCHANGED <<phase, failure, budget, archive, walk, taken, index>>,
         step' = "body"
  PROVE  ExtractionInv' /\ DiskOK(disk)' /\ PartOK'
<1>0. PICK p : p = PartPath
  OBVIOUS
<1>1. /\ p \in AllPaths /\ Start(p) = <<Downloads>> /\ Parents(p) = {<<Downloads>>}
      /\ p # <<Downloads>> /\ Slot(p) # Slot(<<Downloads>>)
  BY <1>0, PartIs DEF AtArtifact
<1>2. Balanced /\ Packing /\ DiskOK(disk)
  BY DEF ExtractionInv, Packing, Balanced
<1>3. PartPath' = p
  BY <1>0 DEF PartPath
<1>4. <<>> \in Seq(Names) /\ 0 \in Nat
  OBVIOUS
<1>5. PICK M : Laid(M, p, FALSE, 0, <<>>) /\ disk' = disk \cup M
  <2>1. Exists(p) = "none"
    BY <1>0
  <2>2. PICK M : Laid(M, p, FALSE, 0, <<>>) /\ WithFile(p, 0, <<>>) = disk \cup M
    BY <1>1, <1>2, <1>4, <2>1, LayingFile
  <2>3. disk' = WithFile(p, 0, <<>>)
    BY <1>0
  <2>4. QED
    BY <2>2, <2>3
<1>6. DiskOK(disk') /\ \A m \in M : \A n \in disk : Slot(m.path) # Slot(n.path)
  <2>1. FALSE \in BOOLEAN
    OBVIOUS
  <2>2. /\ DiskOK(disk \cup M)
        /\ \A m \in M : \A n \in disk : Slot(m.path) # Slot(n.path)
    BY <1>1, <1>2, <1>5, <2>1, LaidIsNew
  <2>3. disk' = disk \cup M
    BY <1>5
  <2>4. QED
    BY <2>2, <2>3
<1>7. Nodes[p] = {<<Downloads>>, p}
  BY <1>1, NodesAre
<1>17. OnDisk(p) = {}
  BY <1>0 DEF Exists
<1> DEFINE top == [path |-> <<Downloads>>, dir |-> TRUE, size |-> 0, of |-> <<>>]
<1>8. top \in disk /\ top.path = <<Downloads>>
  BY <1>2 DEF Balanced, Downloading
<1> HIDE DEF top
<1>18. Located(p) = p
  <2>1. \A q \in Nodes[p] : \A n \in OnDisk(q) : n = top
    <3>1. ASSUME NEW n \in OnDisk(<<Downloads>>)
          PROVE  n = top
      BY <1>2, <1>8 DEF OnDisk, DiskOK
    <3>2. QED
      BY <1>7, <1>17, <3>1
  <2>2. Lasts(top, p)
    <3>1. \A m \in disk : (\E q \in Nodes[p] : Slot(m.path) = Slot(q)) => m = top
      BY <2>1 DEF OnDisk
    <3>2. Len(top.path) <= Len(top.path)
      BY <1>8, DownloadsArePaths
    <3>3. QED
      BY <1>7, <1>8, <3>1, <3>2 DEF Lasts
  <2>3. PICK d : d = <<Downloads>>
    OBVIOUS
  <2>4. d \in AllPaths /\ Len(d) = 1 /\ d[1] = Downloads
    BY <2>3, DownloadsArePaths
  <2>5. Len(p) = 2 /\ p[1] = Downloads
    BY <1>0, PartIs DEF AtArtifact
  <2>6. Located(p) = d \o SubSeq(p, Len(d) + 1, Len(p))
    BY <1>1, <1>2, <1>8, <2>2, <2>3, LocatedBy
  <2>7. PICK j : j = d \o SubSeq(p, Len(d) + 1, Len(p))
    OBVIOUS
  <2>8. /\ j \in AllPaths /\ Len(j) = 2
        /\ \A i \in 1..2 : j[i] = IF i <= 1 THEN d[i] ELSE p[i]
    <3>1. Len(d) <= Len(p)
      BY <2>4, <2>5
    <3>2. LET i == d \o SubSeq(p, Len(d) + 1, Len(p)) IN
          /\ i \in AllPaths /\ Len(i) = Len(p)
          /\ \A k \in 1..Len(p) : i[k] = IF k <= Len(d) THEN d[k] ELSE p[k]
      BY <1>1, <2>4, <3>1, Fronted
    <3>3. /\ j \in AllPaths /\ Len(j) = Len(p)
          /\ \A k \in 1..Len(p) : j[k] = IF k <= Len(d) THEN d[k] ELSE p[k]
      BY <2>7, <3>2
    <3>4. QED
      BY <2>4, <2>5, <3>3
  <2>9. \A i \in 1..2 : j[i] = p[i]
    <3>1. ASSUME NEW i \in 1..2
          PROVE  j[i] = p[i]
      <4>1. CASE i = 1
        BY <2>4, <2>5, <2>8, <4>1
      <4>2. CASE i # 1
        BY <2>8, <4>2
      <4>3. QED
        BY <4>1, <4>2
    <3>2. QED
      BY <3>1
  <2>10. j \in Seq(Names) /\ p \in Seq(Names)
    BY <1>1, <2>8, PrefixesArePaths
  <2>11. \A x, y \in Seq(Names) :
           Len(x) = Len(y) /\ (\A i \in 1..Len(x) : x[i] = y[i]) => x = y
    OBVIOUS
  <2>12. j = p
    BY <2>5, <2>8, <2>9, <2>10, <2>11
  <2>13. QED
    BY <2>6, <2>7, <2>12
<1>9. /\ \A m \in M : m.path = p /\ ~m.dir /\ m.of = <<>>
      /\ \E m \in M : m.path = p
  <2>1. ASSUME NEW m \in M
        PROVE  m.path = p /\ ~m.dir /\ m.of = <<>>
    <3>1. PICK q \in Nodes[p] : Makes(m, q, p, FALSE, 0, <<>>)
      BY <1>5 DEF Laid
    <3>2. q # <<Downloads>>
      BY <1>8, <3>1 DEF Makes, OnDisk
    <3>3. QED
      BY <1>7, <1>18, <3>1, <3>2 DEF Makes
  <2>2. \E m \in M : m.path = p
    BY <1>5, <1>7, <1>17, <1>18 DEF Laid
  <2>3. QED
    BY <2>1, <2>2
<1>11. Filed(disk') = Filed(disk) /\ \A m \in M : m \notin Filed(disk)
  BY <1>5, <1>9 DEF Filed
<1>12. \A n \in disk : n \in Filed(disk)
  BY <1>2 DEF PartOK, Parted
<1>13. \A m \in M : InDownloads(m)
  <2>1. ASSUME NEW m \in M
        PROVE  InDownloads(m)
    <3>1. m.path \in AllPaths /\ Start(m.path) = <<Downloads>>
      BY <1>1, <1>9
    <3>2. QED
      BY <3>1, Tops
  <2>2. QED
    BY <2>1
<1>14. ExtractionInv' /\ DiskOK(disk)'
  <2>1. \A n \in disk' : n \in Filed(disk) \/ InDownloads(n)
    BY <1>5, <1>12, <1>13
  <2>2. \A n \in disk' : n \in Filed(disk) \/ Parents(n.path) = {<<Downloads>>}
    BY <1>1, <1>5, <1>9, <1>12
  <2>3. Rooted(disk')
    BY <1>2, <1>11, <2>2, PartIsRooted
  <2>4. QED
    BY <1>2, <1>6, <1>11, <2>1, <2>3, Keeping, Fine
<1>15. PartOK'
  <2>1. PICK m \in M : m.path = p
    BY <1>9
  <2>2. m \in disk' /\ m \notin Filed(disk')
    BY <1>5, <1>11
  <2>3. \A n \in disk' : n \in Filed(disk') \/ n.path = p
    BY <1>5, <1>9, <1>11, <1>12
  <2>4. step' \in Parted
    BY DEF Parted
  <2>5. \A n \in disk' : n \in Filed(disk') \/ (step' \in Parted /\ n.path = PartPath')
    BY <1>3, <2>3, <2>4
  <2>6. \E n \in disk' : n.path = PartPath' /\ n \notin Filed(disk')
    BY <1>3, <2>1, <2>2
  <2>7. QED
    BY <2>5, <2>6 DEF PartOK
<1>16. QED
  BY <1>14, <1>15

\* The file system refuses a download only if an artifact went to its place.
LEMMA RequestRefused ==
  ASSUME StepInv, ExtractionInv, PartOK, step = "request", phase = "package",
         Exists(PartPath) # "none"
  PROVE  Trespassed
<1> DEFINE p == PartPath
<1>1. /\ p \in AllPaths /\ Start(p) = <<Downloads>> /\ Parents(p) = {<<Downloads>>}
      /\ p # <<Downloads>> /\ Slot(p) # Slot(<<Downloads>>)
  BY PartIs DEF AtArtifact
<1>2. Balanced /\ FilesOK /\ Packing /\ DiskOK(disk)
  BY DEF ExtractionInv, Packing, Balanced
<1>3. Exists(p) # "none"
  OBVIOUS
<1> HIDE DEF p
<1>4. \A n \in disk : n \in Filed(disk) /\ n.path \in AllPaths
  BY <1>2 DEF PartOK, Parted, DiskOK, Stored
<1>5. PICK n \in disk : Slot(n.path) = Slot(p)
  <2>1. CASE OnDisk(p) # {}
    BY <2>1 DEF OnDisk
  <2>2. CASE OnDisk(p) = {}
    <3>1. PICK q \in Nodes[p] : \E n \in OnDisk(q) : ~n.dir
      BY <1>3, <2>2 DEF Exists, BelowFile
    <3>2. PICK n \in disk : Slot(n.path) = Slot(q) /\ ~n.dir
      BY <3>1 DEF OnDisk
    <3>3. q \in {<<Downloads>>, p}
      BY <1>1, <3>1, NodesAre
    <3> DEFINE top == [path |-> <<Downloads>>, dir |-> TRUE, size |-> 0, of |-> <<>>]
    <3>4. top \in disk /\ top.path = <<Downloads>> /\ top.dir
      BY <1>2 DEF Balanced, Downloading
    <3> HIDE DEF top
    <3>5. q # <<Downloads>>
      BY <1>2, <3>2, <3>4 DEF DiskOK
    <3>6. QED
      BY <3>2, <3>3, <3>5
  <2>3. QED
    BY <2>1, <2>2
<1>6. InDownloads(n)
  <2>1. Slot(Start(n.path)) = Slot(Start(p))
    BY <1>1, <1>4, <1>5, SameSlots
  <2>2. QED
    BY <1>1, <1>4, <2>1, Tops
<1>7. n.path # <<Downloads>>
  BY <1>1, <1>5
<1>8. QED
  BY <1>2, <1>4, <1>6, <1>7 DEF FilesOK

\* The download is written.
LEMMA Written ==
  ASSUME StepInv, ExtractionInv, PartOK, step = "body", phase = "package",
         NEW size \in Nat,
         disk' = {IF n.path = PartPath THEN [n EXCEPT !.size = size] ELSE n : n \in disk},
         UNCHANGED <<phase, failure, budget, archive, walk, taken, index>>,
         step' = "verify"
  PROVE  ExtractionInv' /\ DiskOK(disk)' /\ PartOK'
<1>0. PICK p : p = PartPath
  OBVIOUS
<1>1. p \in AllPaths /\ Start(p) = <<Downloads>> /\ Parents(p) = {<<Downloads>>}
  BY <1>0, PartIs DEF AtArtifact
<1>2. Balanced /\ Packing /\ DiskOK(disk)
  BY DEF ExtractionInv, Packing, Balanced
<1>3. PartPath' = p
  BY <1>0 DEF PartPath
<1>4. PICK m \in disk : m.path = p /\ m \notin Filed(disk)
  BY <1>0, <1>2 DEF PartOK, Parted
<1>5. \A n \in disk : n \in Filed(disk) \/ n.path = p
  BY <1>0, <1>2 DEF PartOK
<1>6. \A n \in disk : n.path = p => n = m
  BY <1>2, <1>4 DEF DiskOK
<1> DEFINE w == [m EXCEPT !.size = size]
<1>7. m \in Stored /\ ~m.dir /\ m.of = <<>>
  BY <1>2, <1>4 DEF DiskOK, Filed
<1>8. w \in Stored /\ w.path = p /\ ~w.dir /\ w.of = <<>>
  BY <1>4, <1>7 DEF Stored
<1> HIDE DEF w
<1>9. disk' = (disk \ {m}) \cup {w}
  <2>1. disk' = {IF n.path = p THEN [n EXCEPT !.size = size] ELSE n : n \in disk}
    BY <1>0
  <2>2. ASSUME NEW n \in disk
        PROVE  (IF n.path = p THEN [n EXCEPT !.size = size] ELSE n)
                 = IF n = m THEN w ELSE n
    BY <1>4, <1>6 DEF w
  <2>3. disk' = {IF n = m THEN w ELSE n : n \in disk}
    BY <2>1, <2>2
  <2>4. QED
    BY <1>4, <2>3
<1>10. DiskOK(disk')
  <2>1. DiskOK(disk \ {m})
    BY <1>2, Fewer
  <2>2. IsFiniteSet((disk \ {m}) \cup {w})
    BY <2>1, FS_AddElement DEF DiskOK
  <2>3. \A n \in disk \ {m} : Slot(n.path) # Slot(w.path)
    BY <1>2, <1>4, <1>8 DEF DiskOK
  <2>4. QED
    BY <1>8, <1>9, <2>1, <2>2, <2>3 DEF DiskOK
<1>11. Filed(disk') = Filed(disk)
  BY <1>4, <1>8, <1>9 DEF Filed
<1>12. InDownloads(w)
  BY <1>1, <1>8, Tops
<1>13. \A n \in disk' : n \in Filed(disk) \/ InDownloads(n)
  BY <1>5, <1>6, <1>9, <1>12
<1>14. ExtractionInv' /\ DiskOK(disk)'
  <2>1. \A n \in disk' : n \in Filed(disk) \/ Parents(n.path) = {<<Downloads>>}
    BY <1>1, <1>5, <1>6, <1>8, <1>9
  <2>2. Rooted(disk')
    BY <1>2, <1>11, <2>1, PartIsRooted
  <2>3. QED
    BY <1>2, <1>10, <1>11, <1>13, <2>2, Keeping, Fine
<1>15. PartOK'
  <2>1. w \in disk' /\ w \notin Filed(disk')
    BY <1>8, <1>9 DEF Filed
  <2>2. \A n \in disk' : n \in Filed(disk') \/ n.path = p
    BY <1>5, <1>8, <1>9, <1>11
  <2>3. step' \in Parted
    BY DEF Parted
  <2>4. \A n \in disk' : n \in Filed(disk') \/ (step' \in Parted /\ n.path = PartPath')
    BY <1>3, <2>2, <2>3
  <2>5. \E n \in disk' : n.path = PartPath' /\ n \notin Filed(disk')
    BY <1>3, <1>8, <2>1
  <2>6. QED
    BY <2>4, <2>5 DEF PartOK
<1>16. QED
  BY <1>14, <1>15

\* The download is removed.
LEMMA Cleaning ==
  ASSUME StepInv, ExtractionInv, PartOK, step = "clean", phase = "package",
         disk' = {n \in disk : n.path # PartPath},
         UNCHANGED <<phase, failure, budget, archive, walk, taken>>, step' = "begin"
  PROVE  ExtractionInv' /\ DiskOK(disk)' /\ PartOK'
<1>0. PICK p : p = PartPath
  OBVIOUS
<1>1. Balanced /\ Packing /\ DiskOK(disk)
  BY DEF ExtractionInv, Packing, Balanced
<1>2. PICK m \in disk : m.path = p /\ m \notin Filed(disk)
  BY <1>0, <1>1 DEF PartOK, Parted
<1>3. \A n \in disk : n \in Filed(disk) \/ n.path = p
  BY <1>0, <1>1 DEF PartOK
<1>4. \A n \in disk : n.path = p => n = m
  BY <1>1, <1>2 DEF DiskOK
<1>5. disk' = disk \ {m}
  BY <1>0, <1>2, <1>4
<1>6. Filed(disk') = Filed(disk) /\ \A n \in disk' : n \in Filed(disk)
  BY <1>2, <1>3, <1>4, <1>5 DEF Filed
<1>7. DiskOK(disk') /\ DiskOK(disk)'
  BY <1>1, <1>5, Fewer, Fine
<1>8. ExtractionInv'
  <2>1. Rooted(disk')
    BY <1>1, <1>6, PartIsRooted
  <2>2. QED
    BY <1>1, <1>6, <1>7, <2>1, Keeping
<1>9. PartOK'
  BY <1>6 DEF PartOK, Parted
<1>10. QED
  BY <1>7, <1>8, <1>9

\* An artifact is written besides.
LEMMA Besides ==
  ASSUME PartOK, Packing, step \in Parted, step' \in Parted, UNCHANGED index, Adds
  PROVE  PartOK'
<1>1. PartPath' = PartPath
  BY DEF PartPath
<1>2. \A n \in disk' : n \in Filed(disk') \/ n.path = PartPath
  <2>1. \A n \in disk : n \in Filed(disk) \/ n.path = PartPath
    BY DEF PartOK
  <2>2. \A n \in disk' : n \in disk \/ n \in Filed(disk')
    BY DEF Adds, Filed
  <2>3. \A n \in Filed(disk) : n \in Filed(disk')
    BY DEF Adds, Filed
  <2>4. QED
    BY <2>1, <2>2, <2>3
<1>3. PICK m \in disk : m.path = PartPath /\ m \notin Filed(disk)
  BY DEF PartOK
<1>4. m \in disk' /\ m \notin Filed(disk')
  BY <1>3 DEF Adds, Filed
<1>5. \A n \in disk' : n \in Filed(disk') \/ (step' \in Parted /\ n.path = PartPath')
  BY <1>1, <1>2
<1>6. \E n \in disk' : n.path = PartPath' /\ n \notin Filed(disk')
  BY <1>1, <1>3, <1>4
<1>7. QED
  BY <1>5, <1>6 DEF PartOK

\* The launcher is rewritten, as long as it was.
LEMMA Personalizing ==
  ASSUME DiskOK(disk), UNCHANGED budget,
         disk' = {IF Slot(n.path) = Slot(executable) THEN [n EXCEPT !.of = <<>>] ELSE n :
                    n \in disk}
  PROVE  DiskOK(disk)' /\ (Fits => Fits')
<1>1. PICK q : q = Slot(executable)
  OBVIOUS
<1> DEFINE h == [n \in disk |-> IF Slot(n.path) = q THEN [n EXCEPT !.of = <<>>] ELSE n]
<1>2. disk' = {h[n] : n \in disk}
  <2>1. \A n \in disk :
          h[n] = IF Slot(n.path) = Slot(executable) THEN [n EXCEPT !.of = <<>>] ELSE n
    BY <1>1
  <2> HIDE DEF h
  <2>2. QED
    BY <2>1
<1>3. \A n \in disk : n \in Stored /\ (n.dir => n.size = 0 /\ n.of = <<>>)
  BY DEF DiskOK
<1>4. ASSUME NEW n \in disk
      PROVE  /\ h[n] \in Stored /\ h[n].path = n.path /\ h[n].dir = n.dir
             /\ h[n].size = n.size /\ (n.dir => h[n].of = <<>>)
  <2>1. n \in Stored /\ (n.dir => n.of = <<>>) /\ <<>> \in Seq(Names)
    BY <1>3
  <2>2. CASE Slot(n.path) = q
    <3>1. h[n] = [n EXCEPT !.of = <<>>]
      BY <2>2
    <3>2. QED
      BY <2>1, <3>1 DEF Stored
  <2>3. CASE Slot(n.path) # q
    <3>1. h[n] = n
      BY <2>3
    <3>2. QED
      BY <2>1, <3>1
  <2>4. QED
    BY <2>2, <2>3
<1>5. DOMAIN h = disk
  OBVIOUS
<1> HIDE DEF h
<1>6. h \in Surjection(disk, disk')
  <2>1. h \in [disk -> disk']
    <3>1. h = [n \in disk |-> h[n]]
      BY DEF h
    <3>2. \A n \in disk : h[n] \in disk'
      BY <1>2
    <3>3. QED
      BY <3>1, <3>2
  <2>2. QED
    BY <1>2, <2>1 DEF Surjection
<1>7. IsFiniteSet(disk') /\ Cardinality(disk') <= Cardinality(disk)
  BY <1>6, FS_Surjection DEF DiskOK
<1>8. DiskOK(disk')
  <2>1. ASSUME NEW m \in disk', NEW n \in disk', Slot(m.path) = Slot(n.path)
        PROVE  m = n
    <3>1. PICK j \in disk : m = h[j]
      BY <1>2
    <3>2. PICK k \in disk : n = h[k]
      BY <1>2
    <3>3. Slot(j.path) = Slot(k.path)
      BY <1>4, <2>1, <3>1, <3>2
    <3>4. j = k
      BY <3>3 DEF DiskOK
    <3>5. QED
      BY <3>1, <3>2, <3>4
  <2>2. ASSUME NEW m \in disk'
        PROVE  m \in Stored /\ (m.dir => m.size = 0 /\ m.of = <<>>)
    <3>1. PICK j \in disk : m = h[j]
      BY <1>2
    <3>2. QED
      BY <1>3, <1>4, <3>1
  <2>3. QED
    BY <1>7, <2>1, <2>2 DEF DiskOK
<1>9. ASSUME Fits
      PROVE  Fits'
  <2>1. Sized(disk) /\ disk \subseteq disk /\ \A n \in disk : h[n].size = n.size
    BY <1>4, FiledAre
  <2>2. Sized({h[n] : n \in disk}) /\ Size({h[n] : n \in disk}) <= Size(disk)
    BY <2>1, SizeOfImage, Zenon
  <2>3. Size(disk') <= Size(disk) /\ Sized(disk')
    BY <1>2, <2>2
  <2>4. /\ Size(disk') \in Nat /\ Size(disk) \in Nat /\ ByteLimit \in Nat
        /\ EntryLimit \in Nat
    BY <2>1, <2>3, SizeType, ExtractionAssumption
  <2>5. Cardinality(disk') \in Nat /\ Cardinality(disk) \in Nat
    BY <1>7, FS_CardinalityType DEF DiskOK
  <2>6. Size(disk') <= ByteLimit
    BY <1>9, <2>3, <2>4 DEF Fits
  <2>7. Cardinality(disk') <= EntryLimit
    BY <1>7, <1>9, <2>4, <2>5 DEF Fits
  <2>8. \A n \in disk' : n.size <= FileLimit
    BY <1>2, <1>4, <1>9 DEF Fits
  <2>9. QED
    BY <2>6, <2>7, <2>8 DEF Fits
<1>10. QED
  BY <1>8, <1>9, Fine

\* What materialize keeps, and what stage knows of its directory on top of it.
DiskInv == ExtractionInv /\ DiskOK(disk) /\ PartOK /\ FitsInv

\* No step spoils the staging directory, or what is known of it.
LEMMA DiskStep ==
  ASSUME StepInv, DiskInv, [Next]_vars
  PROVE  DiskInv'
<1> USE DEF At, Goto
<1>1. ExtractionInv /\ DiskOK(disk) /\ PartOK /\ FitsInv
  BY DEF DiskInv
<1>2. ASSUME NEW error \in Failures \ {"none", "snapshot"}, Fails(error),
             error \in {"exists", "downloads"} => Trespassed
      PROVE  DiskInv'
  <2>1. ExtractionInv' /\ phase' = "failed" /\ DiskOK(disk)'
    BY <1>1, <1>2, Failed
  <2>2. QED
    BY <2>1 DEF DiskInv, PartOK, FitsInv, Packing
<1>3. ASSUME NEW error \in {"broken", "cancelled", "download", "executable", "launcher",
                            "engine", "changed", "manifest"},
             Fails(error)
      PROVE  DiskInv'
  BY <1>2, <1>3 DEF Failures
<1>4. ~Over => phase # "failed"
  BY DEF Over
<1>5. step \in AtArtifact \cup {"begin"} /\ ~Over => Packing
  BY <1>4 DEF StepInv, Packing, AtArtifact, Late
<1>6. step \in Late => ~Packing
  BY DEF StepInv, Packing
<1>7. step \in {"request", "body"} /\ ~Over => phase = "package"
  BY <1>5 DEF StepInv, Packing, AtArtifact
<1>8. ASSUME UNCHANGED <<extractionVars, index>>,
             \/ step' = step
             \/ {step, step'} \subseteq Late \ {"paths", "personalize", "snapshot"}
             \/ step = "begin" /\ step' = "request"
             \/ step = "verify" /\ step' = "materialize"
             \/ step = "paths" /\ step' \in {"personalize", "snapshot"}
             \/ step = "snapshot" /\ step' = "validate"
      PROVE  DiskInv'
  <2>1. ExtractionInv' /\ DiskOK(disk)' /\ (step' = step => FitsInv')
    BY <1>1, <1>8, Untouched
  <2>2. PartPath' = PartPath /\ disk' = disk /\ phase' = phase
    BY <1>8 DEF PartPath, extractionVars
  <2>3. PartOK'
    <3>1. CASE ~Packing
      BY <2>2, <3>1 DEF PartOK, Packing
    <3>2. CASE Packing
      <4>1. step \notin Late
        BY <1>6, <3>2
      <4>2. \/ step' = step
            \/ step = "begin" /\ step' = "request"
            \/ step = "verify" /\ step' = "materialize"
        BY <1>8, <4>1 DEF Late
      <4>3. step' \in Parted <=> step \in Parted
        BY <4>2 DEF Parted
      <4>4. Packing' /\ disk' = disk
        BY <2>2, <3>2 DEF Packing
      <4>5. \A n \in disk : n \in Filed(disk) \/ (step' \in Parted /\ n.path = PartPath')
        BY <1>1, <2>2, <3>2, <4>3 DEF PartOK
      <4>6. step' \in Parted => \E n \in disk : n.path = PartPath' /\ n \notin Filed(disk)
        BY <1>1, <2>2, <3>2, <4>3 DEF PartOK
      <4>7. QED
        BY <2>2, <4>5, <4>6 DEF PartOK
    <3>3. QED
      BY <3>1, <3>2
  <2>4. FitsInv'
    <3>1. CASE step' = step
      BY <2>1, <3>1
    <3>2. CASE step' # step
      <4>1. (Fits => Fits')
        BY <2>2 DEF Fits
      <4>2. step' = "paths" => FALSE
        BY <1>8, <3>2
      <4>3. step' \in {"personalize", "snapshot"} => step = "paths"
        BY <1>8, <3>2
      <4>4. QED
        BY <1>1, <2>2, <4>1, <4>2, <4>3 DEF FitsInv
    <3>3. QED
      BY <3>1, <3>2
  <2>5. QED
    BY <2>1, <2>3, <2>4 DEF DiskInv
<1>9. ASSUME step \in Late \ {"paths"}, DiskOK(disk'), step' \in Late \ {"paths"},
             step' \in {"personalize", "snapshot"} => Fits',
             UNCHANGED <<phase, failure, budget, archive, walk, taken>>
      PROVE  DiskInv'
  <2>1. ExtractionInv'
    BY <1>1, <1>6, <1>9, KeepingLate
  <2>2. DiskOK(disk)'
    BY <1>9, Fine
  <2>3. PartOK'
    BY <1>6, <1>9 DEF PartOK, Packing
  <2>4. FitsInv'
    BY <1>9 DEF FitsInv
  <2>5. QED
    BY <2>1, <2>2, <2>3, <2>4 DEF DiskInv
<1>10. ASSUME Packing', ExtractionInv', DiskOK(disk)', PartOK'
       PROVE  DiskInv'
  BY <1>10 DEF DiskInv, FitsInv, Packing
<1>11. CASE Begin
  BY <1>8, <1>11 DEF Begin
<1>12. CASE Request
  <2>1. phase = "package" /\ step = "request"
    BY <1>7, <1>12 DEF Request
  <2>2. CASE Fails("download")
    BY <1>3, <2>2
  <2>3. CASE Exists(PartPath) # "none" /\ Fails("exists")
    <3>1. Trespassed
      BY <1>1, <2>1, <2>3, RequestRefused
    <3>2. QED
      BY <1>2, <2>3, <3>1 DEF Failures
  <2>4. CASE /\ Exists(PartPath) = "none" /\ step' = "body"
             /\ disk' = WithFile(PartPath, 0, <<>>)
             /\ UNCHANGED <<phase, failure, budget, archive, walk, taken, index>>
    <3>1. ExtractionInv' /\ DiskOK(disk)' /\ PartOK'
      BY <1>1, <2>1, <2>4, Requesting
    <3>2. Packing'
      BY <2>1, <2>4 DEF Packing
    <3>3. QED
      BY <1>10, <3>1, <3>2
  <2>5. QED
    BY <1>12, <2>2, <2>3, <2>4 DEF Request
<1>13. ASSUME NEW n \in 1..FileLimit, Chunk(n)
       PROVE  DiskInv'
  <2>1. CASE Fails("download")
    BY <1>3, <2>1
  <2>2. CASE UNCHANGED <<extractionVars, step, index>>
    BY <1>8, <2>2
  <2>3. QED
    BY <1>13, <2>1, <2>2 DEF Chunk
<1>14. CASE EndOfBody
  <2>1. phase = "package" /\ step = "body"
    BY <1>7, <1>14 DEF EndOfBody
  <2>2. CASE Fails("download")
    BY <1>3, <2>2
  <2>3. CASE /\ body.received = Artifact.bytes /\ step' = "verify"
             /\ disk' = {IF n.path = PartPath THEN [n EXCEPT !.size = body.received]
                         ELSE n : n \in disk}
             /\ UNCHANGED <<phase, failure, budget, archive, walk, taken, index>>
    <3>1. Artifact.bytes \in Nat
      <4>1. package \in Candidates /\ index \in 1..Len(package)
        BY <2>1, PackageIs DEF StepInv, AtArtifact
      <4>2. QED
        BY <4>1, BytesAre DEF Artifact
    <3>2. ExtractionInv' /\ DiskOK(disk)' /\ PartOK'
      BY <1>1, <2>1, <2>3, <3>1, Written
    <3>3. Packing'
      BY <2>1, <2>3 DEF Packing
    <3>4. QED
      BY <1>10, <3>2, <3>3
  <2>4. QED
    BY <1>14, <2>2, <2>3 DEF EndOfBody
<1>15. CASE Verify
  BY <1>8, <1>15 DEF Verify
<1>16. CASE Materialize
  <2>1. /\ ExtractionInv' /\ DiskOK(disk)' /\ step = "materialize" /\ phase = "package"
        /\ phase' \in {"package", "entries", "failed"} /\ (phase' # "failed" => Adds)
    BY <1>1, <1>16, Materializing
  <2>2. step' = "clean" /\ index' = index
    BY <1>16 DEF Materialize
  <2>3. CASE phase' = "failed"
    BY <2>1, <2>3 DEF DiskInv, PartOK, FitsInv, Packing
  <2>4. CASE phase' # "failed"
    <3>1. PartOK'
      BY <1>1, <2>1, <2>2, <2>4, Besides DEF Packing, Parted
    <3>2. Packing'
      BY <2>1, <2>4 DEF Packing
    <3>3. QED
      BY <1>10, <2>1, <3>1, <3>2
  <2>5. QED
    BY <2>3, <2>4
<1>17. CASE Extract
  <2>1. /\ ExtractionInv' /\ DiskOK(disk)' /\ phase \in {"entries", "links"}
        /\ phase' \in {"package", "entries", "links", "failed"}
        /\ (phase' # "failed" => Adds)
    BY <1>1, <1>17, Extracting DEF Extract
  <2>2. step = "clean" /\ step' = step /\ index' = index
    BY <1>17, <2>1 DEF Extract, StepInv, stagingVars
  <2>3. CASE phase' = "failed"
    BY <2>1, <2>3 DEF DiskInv, PartOK, FitsInv, Packing
  <2>4. CASE phase' # "failed"
    <3>1. PartOK'
      BY <1>1, <2>1, <2>2, <2>4, Besides DEF Packing, Parted
    <3>2. Packing'
      BY <2>1, <2>4 DEF Packing
    <3>3. QED
      BY <1>10, <2>1, <3>1, <3>2
  <2>5. QED
    BY <2>3, <2>4
<1>18. CASE Clean
  <2>1. /\ step = "clean" /\ phase = "package" /\ step' = "begin"
        /\ disk' = {n \in disk : n.path # PartPath}
        /\ UNCHANGED <<phase, failure, budget, archive, walk, taken>>
    BY <1>18 DEF Clean
  <2>2. ExtractionInv' /\ DiskOK(disk)' /\ PartOK'
    BY <1>1, <2>1, Cleaning
  <2>3. Packing'
    BY <2>1 DEF Packing
  <2>4. QED
    BY <1>10, <2>2, <2>3
<1>19. CASE EndOfArtifacts
  <2>1. /\ ExtractionInv' /\ DiskOK(disk)'
        /\ phase' = "failed" \/ (phase' = "done" /\ Complete' /\ Fits')
    BY <1>1, <1>19, Ending DEF EndOfArtifacts
  <2>2. QED
    BY <2>1 DEF DiskInv, PartOK, FitsInv, Packing
<1>20. CASE CheckPaths
  <2>1. CASE Fails("executable")
    BY <1>3, <2>1
  <2>2. CASE step' \in {"personalize", "snapshot"} /\ UNCHANGED <<extractionVars, index>>
    BY <1>8, <1>20, <2>2 DEF CheckPaths
  <2>3. QED
    BY <1>20, <2>1, <2>2 DEF CheckPaths
<1>21. CASE Personalize
  <2>1. step = "personalize" /\ phase # "failed"
    BY <1>4, <1>21 DEF Personalize
  <2>2. CASE Fails("launcher")
    BY <1>3, <2>2
  <2>3. CASE /\ step' = "snapshot"
             /\ disk' = {IF Slot(n.path) = Slot(executable)
                         THEN [n EXCEPT !.of = <<>>] ELSE n : n \in disk}
             /\ UNCHANGED <<phase, failure, budget, archive, walk, taken>>
    <3>1. DiskOK(disk)' /\ (Fits => Fits')
      BY <1>1, <2>3, Personalizing
    <3>2. Fits
      BY <1>1, <2>1 DEF FitsInv, StepInv, Late
    <3>3. ExtractionInv'
      BY <1>1, <1>6, <2>1, <2>3, KeepingLate DEF Late
    <3>4. ~Packing'
      BY <1>6, <2>1, <2>3 DEF Packing, Late
    <3>5. QED
      BY <2>3, <3>1, <3>2, <3>3, <3>4 DEF DiskInv, PartOK, FitsInv
  <2>4. QED
    BY <1>21, <2>2, <2>3 DEF Personalize
<1>22. CASE TakeSnapshot
  <2>1. step = "snapshot" /\ phase # "failed"
    BY <1>4, <1>22 DEF TakeSnapshot
  <2>2. SnapshotFits
    <3>1. Fits
      BY <1>1, <2>1 DEF FitsInv, StepInv, Late
    <3>2. QED
      BY <1>1, <3>1, SnapshotsFit
  <2>3. step' = "validate" /\ UNCHANGED <<extractionVars, index>>
    BY <1>22, <2>2 DEF TakeSnapshot
  <2>4. QED
    BY <1>8, <2>1, <2>3
<1>23. CASE Validate
  <2>1. CASE Fails("engine")
    BY <1>3, <2>1
  <2>2. CASE step = "validate" /\ step' = "compare" /\ UNCHANGED <<extractionVars, index>>
    BY <1>8, <2>2 DEF Late
  <2>3. QED
    BY <1>23, <2>1, <2>2 DEF Validate
<1>24. CASE Compare
  <2>1. CASE Fails("changed")
    BY <1>3, <2>1
  <2>2. CASE step = "compare" /\ step' = "record" /\ UNCHANGED <<extractionVars, index>>
    BY <1>8, <2>2 DEF Late
  <2>3. QED
    BY <1>24, <2>1, <2>2 DEF Compare
<1>25. CASE Record
  <2>1. CASE Fails("manifest")
    BY <1>3, <2>1
  <2>2. CASE /\ step = "record" /\ step' = "recheck" /\ Exists(Manifest) = "none"
             /\ disk' = WithFile(Manifest, 0, Manifest)
             /\ UNCHANGED <<phase, failure, budget, archive, walk, taken>>
    <3>1. Manifest \in AllPaths /\ Manifest \in Seq(Names)
      BY StagingAssumption, PrefixesArePaths
    <3>2. DiskOK(WithFile(Manifest, 0, Manifest))
      BY <1>1, <2>2, <3>1, Writing
    <3>3. DiskOK(disk')
      BY <2>2, <3>2
    <3>4. QED
      BY <1>9, <2>2, <3>3 DEF Late
  <2>3. QED
    BY <1>25, <2>1, <2>2 DEF Record
<1>26. CASE Recheck \/ Check \/ Commit
  <2>1. CASE Recheck
    <3>1. CASE Fails("changed")
      BY <1>3, <3>1
    <3>2. CASE step = "recheck" /\ step' = "check" /\ UNCHANGED <<extractionVars, index>>
      BY <1>8, <3>2 DEF Late
    <3>3. QED
      BY <2>1, <3>1, <3>2 DEF Recheck
  <2>2. CASE Check \/ Commit
    BY <1>8, <2>2 DEF Check, Commit, Late
  <2>3. QED
    BY <1>26, <2>1, <2>2
<1>27. CASE Cancelled \/ Breaks
  BY <1>3, <1>27 DEF Cancelled, Breaks
<1>28. CASE RequestCancel \/ UNCHANGED vars
  BY <1>8, <1>28 DEF RequestCancel, vars, stagingVars
<1>29. CASE EngineWrites \/ Tamper
  <2>1. DiskOK(disk')
    BY <1>1, <1>29, Touching DEF EngineWrites, Tamper
  <2>2. QED
    BY <1>9, <1>29, <2>1 DEF EngineWrites, Tamper, Late
<1>30. CASE Recover
  <2>1. DiskOK(disk')
    BY <1>1, <1>30, Fewer DEF Recover
  <2>2. QED
    BY <1>9, <1>30, <2>1 DEF Recover, stagingVars, Late
<1>31. QED
  BY <1>11, <1>12, <1>13, <1>14, <1>15, <1>16, <1>17, <1>18, <1>19, <1>20, <1>21,
     <1>22, <1>23, <1>24, <1>25, <1>26, <1>27, <1>28, <1>29, <1>30 DEF Next, Stage, Ended

-----------------------------------------------------------------------------
(* What was reviewed                                                        *)

\* The manifest is there, as it was written.
HasManifest(D) == \E n \in D : n.path = Manifest /\ ~n.dir /\ n.of = Manifest

\* A reviewed file is below a directory with the name of a staging directory.
Perishable ==
  \E file \in snapshot : \E name \in StagingNames :
    \E n \in 1..(Len(file.path) - 1) : file.path[n] = name

\* From the record on the manifest is there, and from the last comparison on what
\* was reviewed, as long as nobody changes it where no check looks.
ReviewedInv ==
  phase # "failed" /\ ~touched =>
    /\ step \in {"recheck", "check", "commit"} => HasManifest(disk)
    /\ step \in {"check", "commit"} => Reviewable(disk) = snapshot
    /\ step = "active" =>
         (Reviewable(disk) = snapshot /\ HasManifest(disk)) \/ Perishable

\* The manifest is a file at the top.
LEMMA RecordIs ==
  ASSUME DiskOK(disk), Exists(Manifest) = "none"
  PROVE  /\ Parents(Manifest) = {}
         /\ WithFile(Manifest, 0, Manifest) = disk \cup
              {[path |-> Manifest, dir |-> FALSE, size |-> 0, of |-> Manifest]}
<1>1. Manifest \in AllPaths /\ Len(Manifest) = 1
  BY StagingAssumption
<1>2. Nodes[Manifest] = {Manifest}
  <2>1. Manifest \in Seq(Names)
        /\ Nodes[Manifest] = {SubSeq(Manifest, 1, n) : n \in 1..Len(Manifest)}
    BY <1>1, PrefixesArePaths
  <2>2. SubSeq(Manifest, 1, 1) = Manifest
    BY <1>1, <2>1
  <2>3. QED
    BY <1>1, <2>1, <2>2
<1>3. Parents(Manifest) = {}
  BY <1>2 DEF Parents
<1>4. WithDirectories({}) = disk
  BY DEF WithDirectories
<1>5. \A q \in Nodes[Manifest] : OnDisk(q) = {}
  BY <1>2 DEF Exists
<1>6. Located(Manifest) = Manifest
  BY <1>1, <1>5, LocatedBy
<1>7. QED
  BY <1>3, <1>4, <1>6 DEF WithFile

\* It needs no directory to be there.
LEMMA Recording ==
  ASSUME DiskOK(disk), Exists(Manifest) = "none", disk' = WithFile(Manifest, 0, Manifest)
  PROVE  HasManifest(disk') /\ (Rooted(disk) => Rooted(disk'))
<1>1. PICK m : m = [path |-> Manifest, dir |-> FALSE, size |-> 0, of |-> Manifest]
  OBVIOUS
<1>2. disk' = disk \cup {m} /\ Parents(Manifest) = {}
  BY <1>1, RecordIs
<1>3. m.path = Manifest /\ ~m.dir /\ m.of = Manifest
  BY <1>1
<1>4. QED
  BY <1>2, <1>3 DEF HasManifest, Rooted

\* A recovery removes a reviewed file, or the manifest, only with a directory
\* that it takes for a staging directory.
LEMMA Recovering ==
  ASSUME DiskOK(disk), Recover, Reviewable(disk) = snapshot, HasManifest(disk)
  PROVE  (Reviewable(disk') = snapshot /\ HasManifest(disk')) \/ Perishable
<1> DEFINE Removed == {n.path : n \in {k \in disk : /\ k.dir
                                    /\ Last(k.path) \in StagingNames}}
<1>1. disk' = {n \in disk : Nodes[n.path] \cap Removed = {}}
  BY DEF Recover
<1>2. ASSUME NEW n \in disk, ~n.dir, n \notin disk'
      PROVE  \E k \in 1..(Len(n.path) - 1) : n.path[k] \in StagingNames
  <2>1. n.path \in AllPaths
    BY DEF DiskOK, Stored
  <2>2. PICK q \in Nodes[n.path] : q \in Removed
    BY <1>1, <1>2
  <2>3. PICK m \in disk : m.dir /\ Last(m.path) \in StagingNames /\ q = m.path
    BY <2>2
  <2>4. PICK k \in 1..Len(n.path) : q = SubSeq(n.path, 1, k)
    BY <2>1, <2>2, PrefixesArePaths
  <2>5. q # n.path
    BY <1>2, <2>3 DEF DiskOK
  <2>6. n.path \in Seq(Names) /\ Len(n.path) \in Nat
    BY <2>1, PrefixesArePaths
  <2>7. k # Len(n.path)
    BY <2>4, <2>5, <2>6
  <2>8. Last(q) = n.path[k]
    BY <2>4, <2>6 DEF Last
  <2>9. QED
    BY <2>3, <2>4, <2>6, <2>7, <2>8
<1>3. CASE \E n \in disk : ~n.dir /\ n.path # Manifest /\ n \notin disk'
  <2>1. PICK n \in disk : ~n.dir /\ n.path # Manifest /\ n \notin disk'
    BY <1>3
  <2>2. [path |-> n.path, size |-> n.size, of |-> n.of] \in snapshot
    BY <2>1 DEF Reviewable
  <2>3. QED
    BY <1>2, <2>1, <2>2 DEF Perishable
<1>4. CASE \A n \in disk : ~n.dir /\ n.path # Manifest => n \in disk'
  <2>1. Reviewable(disk') = snapshot
    BY <1>1, <1>4 DEF Reviewable
  <2>2. PICK n \in disk : n.path = Manifest /\ ~n.dir /\ n.of = Manifest
    BY DEF HasManifest
  <2>3. Len(n.path) = 1
    BY <2>2, StagingAssumption
  <2>4. 1..(Len(n.path) - 1) = {}
    BY <2>3
  <2>5. n \in disk'
    BY <1>2, <2>2, <2>4
  <2>6. QED
    BY <2>1, <2>2, <2>5 DEF HasManifest
<1>5. QED
  BY <1>3, <1>4

\* What is changed after the last comparison, or in the manifest, is noticed.
LEMMA ReviewStep ==
  ASSUME StepInv, DiskOK(disk), ReviewedInv, [Next]_vars
  PROVE  ReviewedInv'
<1> USE DEF At, Over, Goto
<1>1. ASSUME phase' = "failed" \/ step' \notin {"recheck", "check", "commit", "active"}
      PROVE  ReviewedInv'
  BY <1>1 DEF ReviewedInv
<1>2. ASSUME NEW error, Fails(error)
      PROVE  ReviewedInv'
  BY <1>1, <1>2 DEF Fails, Refuse, Fail
<1>3. ASSUME UNCHANGED <<phase, disk, step, snapshot, touched>>
      PROVE  ReviewedInv'
  BY <1>3 DEF ReviewedInv, Perishable
<1>4. CASE Begin \/ Verify \/ Materialize \/ Clean \/ EndOfArtifacts
  BY <1>1, <1>4 DEF Begin, Verify, Materialize, Clean, EndOfArtifacts
<1>5. CASE Request \/ EndOfBody \/ CheckPaths \/ Personalize
  BY <1>1, <1>2, <1>5 DEF Request, EndOfBody, CheckPaths, Personalize
<1>6. CASE TakeSnapshot \/ Validate \/ Compare
  BY <1>1, <1>2, <1>6 DEF TakeSnapshot, Validate, Compare
<1>7. ASSUME NEW n \in 1..FileLimit, Chunk(n)
      PROVE  ReviewedInv'
  BY <1>2, <1>3, <1>7 DEF Chunk, extractionVars
<1>8. CASE Extract
  <2>1. phase \in {"entries", "links"}
    BY <1>8 DEF Extract, Entry, DirectoryEntry, FileEntry, LinkEntry, NextEntry,
       TooManyEntries, SpecialEntry, CommentEntry, EndOfArchive, Follow,
       CopyTarget, Unresolved
  <2>2. step \notin Late /\ step' = step
    BY <1>8, <2>1 DEF StepInv, Extract, stagingVars
  <2>3. QED
    BY <1>1, <2>2 DEF Late
<1>9. CASE Recheck
  <2>1. CASE /\ Snapshot = snapshot /\ step = "recheck" /\ phase # "failed" /\ step' = "check"
             /\ UNCHANGED <<disk, snapshot, touched>>
    BY <2>1, SnapshotIs DEF ReviewedInv
  <2>2. QED
    BY <1>2, <1>9, <2>1 DEF Recheck, extractionVars
<1>10. CASE Record
  <2>1. CASE /\ step = "record" /\ step' = "recheck" /\ Exists(Manifest) = "none"
             /\ disk' = WithFile(Manifest, 0, Manifest)
    BY <2>1, Recording DEF ReviewedInv
  <2>2. QED
    BY <1>2, <1>10, <2>1 DEF Record
<1>17. CASE EngineWrites
  <2>1. CASE step \in {"check", "commit"} \/ touched'
    BY <1>17, <2>1 DEF EngineWrites, ReviewedInv
  <2>2. CASE step \in {"compare", "record"}
    BY <1>17, <2>2 DEF EngineWrites, ReviewedInv
  <2>3. CASE step = "recheck" /\ ~touched'
    <3>1. TheManifest' = TheManifest /\ step' = step /\ phase # "failed" /\ ~touched
      BY <1>17, <2>3 DEF EngineWrites
    <3>2. PICK n \in disk : n.path = Manifest /\ ~n.dir /\ n.of = Manifest
      BY <2>3, <3>1 DEF ReviewedInv, HasManifest
    <3>3. n \in TheManifest'
      BY <3>1, <3>2 DEF TheManifest
    <3>4. n \in disk'
      BY <3>3 DEF TheManifest
    <3>5. QED
      BY <2>3, <3>1, <3>2, <3>4 DEF ReviewedInv, HasManifest
  <2>4. QED
    BY <1>17, <2>1, <2>2, <2>3 DEF EngineWrites
<1>11. CASE Check \/ Commit
  BY <1>11 DEF Check, Commit, ReviewedInv, extractionVars
<1>12. CASE Cancelled \/ Breaks
  BY <1>2, <1>12 DEF Cancelled, Breaks
<1>13. CASE RequestCancel \/ UNCHANGED vars
  BY <1>3, <1>13 DEF RequestCancel, vars, extractionVars, stagingVars
<1>14. CASE Tamper
  BY <1>14 DEF Tamper, ReviewedInv
<1>15. CASE Recover
  <2>1. UNCHANGED <<phase, step, snapshot, touched>> /\ step = "active"
    BY <1>15 DEF Recover, stagingVars
  <2>2. CASE touched \/ phase = "failed" \/ Perishable
    BY <2>1, <2>2 DEF ReviewedInv, Perishable
  <2>3. CASE ~touched /\ phase # "failed" /\ ~Perishable
    <3>1. Reviewable(disk) = snapshot /\ HasManifest(disk)
      BY <2>1, <2>3 DEF ReviewedInv
    <3>2. Reviewable(disk') = snapshot /\ HasManifest(disk')
      BY <1>15, <2>3, <3>1, Recovering
    <3>3. QED
      BY <2>1, <3>2 DEF ReviewedInv
  <2>4. QED
    BY <2>2, <2>3
<1>16. QED
  BY <1>4, <1>5, <1>6, <1>7, <1>8, <1>9, <1>10, <1>11, <1>12, <1>13, <1>14,
     <1>15, <1>17 DEF Next, Stage, Ended

-----------------------------------------------------------------------------
(* Progress                                                                 *)

\* What was reported was received, and what is verified is as long as declared.
ProgressInv ==
  /\ body \in [received: Nat, reported: Nat]
  /\ shown.bytes \in 0..Total
  /\ shown.bytes <= Bytes(package, index - 1) + body.received
  /\ step = "begin" => shown.bytes <= Bytes(package, index - 1)
  /\ step \in {"verify", "materialize", "clean"} => body.received = Artifact.bytes

\* What a step may do to the report.
Reporting ==
  /\ shown'.bytes >= shown.bytes
  /\ shown'.bytes <= Bytes(package, index' - 1) + body'.received

\* What the artifacts amount to, up to the one at hand.
LEMMA BytesHere ==
  ASSUME StepInv
  PROVE  /\ Total \in Nat /\ Bytes(package, index - 1) \in Nat
         /\ Bytes(package, index - 1) <= Total
         /\ index = Len(package) + 1 => Bytes(package, index - 1) = Total
         /\ step \in AtArtifact =>
              /\ Artifact.bytes \in Nat
              /\ Bytes(package, index) = Bytes(package, index - 1) + Artifact.bytes
              /\ Bytes(package, index) \in Nat /\ Bytes(package, index) <= Total
<1>1. /\ Len(package) \in Nat /\ index \in Nat /\ index - 1 \in 0..Len(package)
      /\ step \in AtArtifact => index \in 1..Len(package)
      /\ package \in Candidates
  BY PackageIs DEF StepInv
<1>2. /\ \A n \in 0..Len(package) : Bytes(package, n) \in Nat
      /\ \A n \in 1..Len(package) :
           /\ package[n].bytes \in Nat
           /\ Bytes(package, n) = Bytes(package, n - 1) + package[n].bytes
  BY <1>1, BytesAre
<1>3. \A n \in 0..Len(package) : Bytes(package, n) <= Total
  BY <1>1, BytesGrow DEF Total
<1>4. Total \in Nat
  BY <1>1, <1>2 DEF Total
<1>5. index = Len(package) + 1 => Bytes(package, index - 1) = Total
  <2>1. index = Len(package) + 1 => index - 1 = Len(package)
    BY <1>1
  <2>2. QED
    BY <2>1 DEF Total
<1>6. QED
  BY <1>1, <1>2, <1>3, <1>4, <1>5 DEF Artifact

\* A report is cut off at the total.
LEMMA Showing ==
  ASSUME StepInv, NEW doing, NEW bytes \in Nat, Show(doing, bytes)
  PROVE  /\ shown'.bytes \in 0..Total /\ shown'.bytes <= bytes
         /\ \A n \in 0..Total : n <= bytes => n <= shown'.bytes
<1>1. Total \in Nat
  BY BytesHere
<1>2. shown'.bytes = IF bytes <= Total THEN bytes ELSE Total
  BY DEF Show
<1>3. QED
  BY <1>1, <1>2

\* A report is never taken back, and never too early.
LEMMA ProgressStep ==
  ASSUME StepInv, ExtractionInv, ProgressInv, [Next]_vars
  PROVE  ProgressInv' /\ Reporting
<1> USE DEF At, Goto
<1>1. /\ Total \in Nat /\ Bytes(package, index - 1) \in Nat
      /\ Bytes(package, index - 1) <= Total
      /\ step \in AtArtifact =>
           /\ Artifact.bytes \in Nat
           /\ Bytes(package, index) = Bytes(package, index - 1) + Artifact.bytes
           /\ Bytes(package, index) \in Nat /\ Bytes(package, index) <= Total
  BY BytesHere
<1>2. /\ body.received \in Nat /\ body.reported \in Nat /\ shown.bytes \in Nat
      /\ shown.bytes <= Total
      /\ shown.bytes <= Bytes(package, index - 1) + body.received
  BY <1>1 DEF ProgressInv
<1>3. ASSUME UNCHANGED <<package, index, body, shown>>,
             step' = step \/ step' \notin {"begin", "verify"},
             step' \in {"materialize", "clean"} =>
               step \in {"verify", "materialize", "clean"}
      PROVE  ProgressInv' /\ Reporting
  <2>1. Total' = Total /\ Artifact' = Artifact /\ Bytes(package, index - 1)'
          = Bytes(package, index - 1)
    BY <1>3 DEF Total, Artifact
  <2>2. Reporting
    BY <1>2, <1>3 DEF Reporting
  <2>3. ProgressInv'
    BY <1>3, <2>1 DEF ProgressInv
  <2>4. QED
    BY <2>2, <2>3
<1>4. ASSUME NEW error, Fails(error)
      PROVE  ProgressInv' /\ Reporting
  BY <1>3, <1>4 DEF Fails, stagingVars
<1>5. ASSUME UNCHANGED <<package, index, body>>, index = Len(package) + 1,
             step' \notin {"begin", "verify", "materialize", "clean"},
             NEW doing, Show(doing, Total)
      PROVE  ProgressInv' /\ Reporting
  <2>1. shown'.bytes \in 0..Total /\ shown.bytes <= shown'.bytes
    BY <1>1, <1>2, <1>5, Showing
  <2>2. Bytes(package, index - 1) = Total
    BY <1>5, BytesHere
  <2>3. Total' = Total /\ Bytes(package, index - 1)' = Bytes(package, index - 1)
    BY <1>5 DEF Total
  <2>4. shown'.bytes \in Nat /\ shown'.bytes <= Total + body.received
    BY <1>1, <1>2, <2>1
  <2>5. Reporting
    BY <1>2, <1>5, <2>1, <2>2, <2>4 DEF Reporting
  <2>6. ProgressInv'
    BY <1>5, <2>1, <2>2, <2>3, <2>4 DEF ProgressInv
  <2>7. QED
    BY <2>5, <2>6
<1>6. CASE Begin
  <2>1. /\ step = "begin" /\ step' = "request" /\ UNCHANGED <<package, index>>
        /\ body' = NoBody /\ Show("downloading", Bytes(package, index - 1))
    BY <1>6 DEF Begin
  <2>2. shown.bytes <= Bytes(package, index - 1)
    BY <2>1 DEF ProgressInv
  <2>3. /\ shown'.bytes \in 0..Total /\ shown'.bytes <= Bytes(package, index - 1)
        /\ shown.bytes <= shown'.bytes
    BY <1>1, <1>2, <2>1, <2>2, Showing
  <2>4. body' \in [received: Nat, reported: Nat] /\ body'.received = 0
    BY <2>1 DEF NoBody
  <2>5. Total' = Total /\ Bytes(package, index - 1)' = Bytes(package, index - 1)
        /\ index' = index
    BY <2>1 DEF Total
  <2>6. shown'.bytes \in Nat
        /\ shown'.bytes <= Bytes(package, index - 1) + body'.received
    BY <1>1, <2>3, <2>4
  <2>7. Reporting
    BY <1>2, <2>3, <2>5, <2>6 DEF Reporting
  <2>8. ProgressInv'
    BY <2>1, <2>3, <2>4, <2>5, <2>6 DEF ProgressInv
  <2>9. QED
    BY <2>7, <2>8
<1>7. CASE Request
  BY <1>3, <1>4, <1>7 DEF Request
<1>8. ASSUME NEW n \in 1..FileLimit, Chunk(n)
      PROVE  ProgressInv' /\ Reporting
  <2> DEFINE received == body.received + n
             reports == \/ received = Artifact.bytes
                        \/ received - body.reported >= ReportEvery
  <2>1. CASE Fails("download")
    BY <1>4, <2>1
  <2>2. CASE /\ step = "body"
             /\ body' = [received |-> received,
                         reported |-> IF reports THEN received ELSE body.reported]
             /\ IF reports
                THEN Show("downloading", Bytes(package, index - 1) + received)
                ELSE UNCHANGED shown
             /\ UNCHANGED <<step, package, index>>
    <3>1. n \in Nat /\ received \in Nat /\ body.received <= received
      BY <1>2, ExtractionAssumption
    <3> HIDE DEF received, reports
    <3>2. body' \in [received: Nat, reported: Nat] /\ body'.received = received
      BY <1>2, <2>2, <3>1
    <3>3. Total' = Total /\ Bytes(package, index - 1)' = Bytes(package, index - 1)
          /\ index' = index
      BY <2>2 DEF Total
    <3>4. /\ shown'.bytes \in 0..Total /\ shown.bytes <= shown'.bytes
          /\ shown'.bytes <= Bytes(package, index - 1) + received
      <4>1. CASE reports
        <5>1. Bytes(package, index - 1) + received \in Nat
          BY <1>1, <3>1
        <5>2. Show("downloading", Bytes(package, index - 1) + received)
          BY <2>2, <4>1
        <5>3. shown.bytes \in 0..Total
              /\ shown.bytes <= Bytes(package, index - 1) + received
          BY <1>1, <1>2, <3>1
        <5>4. QED
          BY <5>1, <5>2, <5>3, Showing
      <4>2. CASE ~reports
        BY <1>1, <1>2, <2>2, <3>1, <4>2
      <4>3. QED
        BY <4>1, <4>2
    <3>5. Reporting
      BY <1>1, <1>2, <3>1, <3>2, <3>3, <3>4 DEF Reporting
    <3>6. ProgressInv'
      BY <2>2, <3>2, <3>3, <3>4 DEF ProgressInv
    <3>7. QED
      BY <3>5, <3>6
  <2>3. QED
    BY <1>8, <2>1, <2>2 DEF Chunk
<1>9. CASE EndOfBody
  <2>1. CASE Fails("download")
    BY <1>4, <2>1
  <2>2. CASE /\ step = "body" /\ step' = "verify" /\ body.received = Artifact.bytes
             /\ UNCHANGED <<package, index, body, shown>>
    <3>1. Total' = Total /\ Artifact' = Artifact /\ Bytes(package, index - 1)'
            = Bytes(package, index - 1)
      BY <2>2 DEF Total, Artifact
    <3>2. Reporting
      BY <1>2, <2>2 DEF Reporting
    <3>3. ProgressInv'
      BY <2>2, <3>1 DEF ProgressInv
    <3>4. QED
      BY <3>2, <3>3
  <2>3. QED
    BY <1>9, <2>1, <2>2 DEF EndOfBody
<1>10. CASE Verify
  <2>1. /\ step = "verify" /\ step' = "materialize" /\ UNCHANGED <<package, index, body>>
        /\ Show("extracting", Bytes(package, index))
    BY <1>10 DEF Verify
  <2>2. body.received = Artifact.bytes /\ Artifact.bytes \in Nat
        /\ Bytes(package, index) = Bytes(package, index - 1) + body.received
        /\ Bytes(package, index) \in Nat
    BY <1>1, <2>1 DEF ProgressInv, AtArtifact
  <2>3. /\ shown'.bytes \in 0..Total /\ shown.bytes <= shown'.bytes
        /\ shown'.bytes <= Bytes(package, index - 1) + body.received
    BY <1>1, <1>2, <2>1, <2>2, Showing
  <2>4. Total' = Total /\ Bytes(package, index - 1)' = Bytes(package, index - 1)
        /\ Artifact' = Artifact
    BY <2>1 DEF Total, Artifact
  <2>5. Reporting
    BY <1>1, <1>2, <2>1, <2>3 DEF Reporting
  <2>6. ProgressInv'
    BY <2>1, <2>2, <2>3, <2>4 DEF ProgressInv
  <2>7. QED
    BY <2>5, <2>6
<1>11. CASE Materialize
  BY <1>3, <1>11 DEF Materialize
<1>12. CASE Extract
  BY <1>3, <1>12 DEF Extract, StepInv, stagingVars
<1>13. CASE Clean
  <2>1. /\ step = "clean" /\ step' = "begin" /\ index' = index + 1
        /\ UNCHANGED <<package, body, shown>>
    BY <1>13 DEF Clean
  <2>2. /\ Bytes(package, index) = Bytes(package, index - 1) + body.received
        /\ Bytes(package, index) \in Nat
    BY <1>1, <2>1 DEF ProgressInv, AtArtifact
  <2>3. index' - 1 = index
    BY <2>1, PackageIs
  <2>4. Bytes(package, index' - 1) = Bytes(package, index) /\ Total' = Total
    BY <2>1, <2>3 DEF Total
  <2>5. shown.bytes <= Bytes(package, index)
        /\ shown.bytes <= Bytes(package, index) + body.received
    BY <1>2, <2>2
  <2>6. Reporting
    BY <1>2, <2>1, <2>4, <2>5 DEF Reporting
  <2>7. Bytes(package, index - 1)' = Bytes(package, index)
    BY <2>1, <2>4
  <2>8. ProgressInv'
    BY <2>1, <2>4, <2>5, <2>7 DEF ProgressInv
  <2>9. QED
    BY <2>6, <2>8
<1>14. CASE EndOfArtifacts
  BY <1>3, <1>14 DEF EndOfArtifacts
<1>15. CASE CheckPaths
  BY <1>3, <1>4, <1>15 DEF CheckPaths
<1>16. CASE Personalize \/ TakeSnapshot \/ Record \/ Recheck \/ Check
  BY <1>3, <1>4, <1>16 DEF Personalize, TakeSnapshot, Record, Recheck, Check
<1>17. CASE Validate
  BY <1>4, <1>5, <1>17 DEF Validate, StepInv, Late
<1>18. CASE Compare
  BY <1>4, <1>5, <1>18 DEF Compare, StepInv, Late
<1>19. CASE Commit
  BY <1>4, <1>5, <1>19 DEF Commit, StepInv, Late
<1>20. CASE Cancelled \/ Breaks
  BY <1>4, <1>20 DEF Cancelled, Breaks
<1>21. CASE RequestCancel \/ EngineWrites \/ Tamper \/ Recover \/ UNCHANGED vars
  BY <1>3, <1>21 DEF RequestCancel, EngineWrites, Tamper, Recover, vars, stagingVars
<1>22. QED
  BY <1>6, <1>7, <1>8, <1>9, <1>10, <1>11, <1>12, <1>13, <1>14, <1>15, <1>16, <1>17,
     <1>18, <1>19, <1>20, <1>21 DEF Next, Stage, Ended

-----------------------------------------------------------------------------
(* Types                                                                    *)

\* Where a path is below the root.
Rest(p) == SubSeq(p, Len(PackageRoot) + 1, Len(p))

\* It lies there, by any spelling of the root.
Inside(p) ==
  /\ Len(p) > Len(PackageRoot)
  /\ Slot(SubSeq(p, 1, Len(PackageRoot))) = Slot(PackageRoot)

\* A payload has the files below the root but one.
LEMMA PayloadIs ==
  ASSUME DiskOK(disk), NEW launcher, NEW f
  PROVE  f \in Payload(launcher) <=>
           \E n \in disk : /\ ~n.dir /\ Inside(n.path)
                           /\ PackageRoot \o Rest(n.path) # launcher
                           /\ f = [path |-> Rest(n.path), size |-> n.size, of |-> n.of]
<1> DEFINE F == {k \in disk : ~k.dir /\ Inside(k.path)}
           h == [n \in disk |-> [n EXCEPT !.path = Rest(@)]]
<1>1. FilesBelow(PackageRoot) = {h[n] : n \in F}
  <2>1. FilesBelow(PackageRoot) = {[n EXCEPT !.path = Rest(@)] : n \in F}
    BY DEF FilesBelow, Rest, Inside
  <2>2. QED
    BY <2>1
<1>2. ASSUME NEW n \in disk
      PROVE  h[n].path = Rest(n.path) /\ h[n].size = n.size /\ h[n].of = n.of
  <2>1. n \in Stored
    BY DEF DiskOK
  <2>2. QED
    BY <2>1 DEF Stored
<1> HIDE DEF h
<1>3. ASSUME f \in Payload(launcher)
      PROVE  \E n \in disk : /\ ~n.dir /\ Inside(n.path)
                             /\ PackageRoot \o Rest(n.path) # launcher
                             /\ f = [path |-> Rest(n.path), size |-> n.size, of |-> n.of]
  <2>1. PICK m \in FilesBelow(PackageRoot) :
          /\ PackageRoot \o m.path # launcher
          /\ f = [path |-> m.path, size |-> m.size, of |-> m.of]
    BY <1>3 DEF Payload, Contents
  <2>2. PICK n \in F : m = h[n]
    BY <1>1
  <2>3. m.path = Rest(n.path) /\ m.size = n.size /\ m.of = n.of
    BY <1>2, <2>2
  <2>4. QED
    BY <2>1, <2>2, <2>3
<1>4. ASSUME NEW n \in disk, ~n.dir, Inside(n.path),
             PackageRoot \o Rest(n.path) # launcher,
             f = [path |-> Rest(n.path), size |-> n.size, of |-> n.of]
      PROVE  f \in Payload(launcher)
  <2>1. h[n] \in FilesBelow(PackageRoot)
    BY <1>1, <1>4
  <2>2. PackageRoot \o h[n].path # launcher
        /\ f = [path |-> h[n].path, size |-> h[n].size, of |-> h[n].of]
    BY <1>2, <1>4
  <2>3. QED
    BY <2>1, <2>2 DEF Payload, Contents
<1>5. QED
  BY <1>3, <1>4

\* What is below the root is a path again, and nothing but that.
LEMMA InsideIs ==
  ASSUME NEW p \in AllPaths, Inside(p)
  PROVE  /\ Rest(p) \in Seq(Names) /\ Len(Rest(p)) = Len(p) - Len(PackageRoot)
         /\ Len(PackageRoot) \in Nat /\ Len(p) \in Nat
         /\ p = SubSeq(p, 1, Len(PackageRoot)) \o Rest(p)
<1>1. /\ p \in Seq(Names) /\ Len(p) \in Nat /\ PackageRoot \in AllPaths
      /\ Len(p) > Len(PackageRoot)
  BY PrefixesArePaths, StagingAssumption DEF Inside
<1>2. Len(PackageRoot) \in Nat
  BY <1>1, PrefixesArePaths
<1>3. PICK k \in Nat : k = Len(PackageRoot)
  BY <1>2
<1>4. \A s \in Seq(Names), m \in Nat : Len(s) > m =>
        /\ SubSeq(s, m + 1, Len(s)) \in Seq(Names)
        /\ Len(SubSeq(s, m + 1, Len(s))) = Len(s) - m
        /\ s = SubSeq(s, 1, m) \o SubSeq(s, m + 1, Len(s))
  <2>1. ASSUME NEW s \in Seq(Names), NEW m \in Nat, Len(s) > m
        PROVE  /\ SubSeq(s, m + 1, Len(s)) \in Seq(Names)
               /\ Len(SubSeq(s, m + 1, Len(s))) = Len(s) - m
               /\ s = SubSeq(s, 1, m) \o SubSeq(s, m + 1, Len(s))
    <3> DEFINE u == SubSeq(s, 1, m)
               v == SubSeq(s, m + 1, Len(s))
    <3>1. /\ u \in Seq(Names) /\ Len(u) = m
          /\ \A i \in 1..m : u[i] = s[i]
      BY <2>1
    <3>2. /\ v \in Seq(Names) /\ Len(v) = Len(s) - m
          /\ \A i \in 1..(Len(s) - m) : v[i] = s[m + i]
      BY <2>1
    <3> HIDE DEF u, v
    <3>3. u \o v \in Seq(Names) /\ Len(u \o v) = Len(s)
      BY <3>1, <3>2
    <3>4. \A i \in 1..Len(s) : (u \o v)[i] = s[i]
      <4>1. ASSUME NEW i \in 1..Len(s)
            PROVE  (u \o v)[i] = s[i]
        <5>1. CASE i <= m
          BY <3>1, <3>2, <5>1
        <5>2. CASE i > m
          <6>1. i - m \in 1..(Len(s) - m) /\ m + (i - m) = i
            BY <5>2
          <6>2. v[i - m] = s[i]
            BY <3>2, <6>1
          <6>3. (u \o v)[i] = v[i - m]
            BY <3>1, <3>2, <5>2
          <6>4. QED
            BY <6>2, <6>3
        <5>3. i \in Nat /\ m \in Nat
          OBVIOUS
        <5>4. i <= m \/ i > m
          BY <5>3
        <5>5. QED
          BY <5>1, <5>2, <5>4
      <4>2. QED
        BY <4>1
    <3>5. u \o v = s
      <4>1. \A x, y \in Seq(Names) :
              Len(x) = Len(y) /\ (\A i \in 1..Len(x) : x[i] = y[i]) => x = y
        OBVIOUS
      <4>2. QED
        BY <3>3, <3>4, <4>1
    <3>6. QED
      BY <3>2, <3>5 DEF u, v
  <2>2. QED
    BY <2>1
<1>5. QED
  BY <1>1, <1>3, <1>4 DEF Rest

\* What the other variables may be.
TypeInv ==
  /\ cancel \in BOOLEAN /\ touched \in BOOLEAN
  /\ executable \in Executables \cup {<<>>}
  /\ review = NoSnapshot \/ review \subseteq Content
  /\ snapshot = NoSnapshot \/ snapshot \subseteq Content

\* What is taken down for the record, and for the launcher, is content.
LEMMA ContentIs ==
  ASSUME DiskOK(disk), NEW launcher
  PROVE  Snapshot \subseteq Content /\ Payload(launcher) \subseteq Content
<1>1. \A n \in disk : /\ n.path \in AllPaths /\ n.path \in Seq(Names)
                      /\ n.size \in Nat /\ n.of \in Seq(Names)
  BY PrefixesArePaths DEF DiskOK, Stored
<1>2. Snapshot \subseteq Content
  <2>1. Reviewable(disk) \subseteq Content
    BY <1>1 DEF Reviewable, Content
  <2>2. QED
    BY <2>1, SnapshotIs
<1>3. ASSUME NEW f \in Payload(launcher)
      PROVE  f \in Content
  <2>1. PICK n \in disk : /\ Inside(n.path)
                          /\ f = [path |-> Rest(n.path), size |-> n.size, of |-> n.of]
    BY PayloadIs
  <2>2. Rest(n.path) \in Seq(Names)
    BY <1>1, <2>1, InsideIs
  <2>3. QED
    BY <1>1, <2>1, <2>2 DEF Content
<1>4. QED
  BY <1>2, <1>3

\* They stay of their types.
LEMMA TypeStep ==
  ASSUME DiskOK(disk), TypeInv, [Next]_vars
  PROVE  TypeInv'
<1> USE DEF At, Goto
<1>1. ASSUME UNCHANGED <<cancel, touched, executable, review, snapshot>>
      PROVE  TypeInv'
  BY <1>1 DEF TypeInv
<1>2. ASSUME NEW error, Fails(error)
      PROVE  TypeInv'
  BY <1>1, <1>2 DEF Fails, stagingVars
<1>3. CASE Begin \/ Request \/ EndOfBody \/ Verify
  BY <1>1, <1>2, <1>3 DEF Begin, Request, EndOfBody, Verify
<1>4. ASSUME NEW n \in 1..FileLimit, Chunk(n)
      PROVE  TypeInv'
  BY <1>1, <1>2, <1>4 DEF Chunk
<1>5. CASE Materialize \/ Extract \/ Clean \/ EndOfArtifacts
  BY <1>1, <1>5 DEF Materialize, Extract, Clean, EndOfArtifacts, stagingVars
<1>6. CASE CheckPaths
  <2>1. CASE Fails("executable")
    BY <1>2, <2>1
  <2>2. CASE executable' \in Executables /\ UNCHANGED <<cancel, touched, review, snapshot>>
    BY <2>2 DEF TypeInv
  <2>3. QED
    BY <1>6, <2>1, <2>2 DEF CheckPaths
<1>7. CASE Personalize
  <2>1. CASE Fails("launcher")
    BY <1>2, <2>1
  <2>2. CASE /\ review' = Payload(executable)
             /\ UNCHANGED <<cancel, touched, executable, snapshot>>
    BY <2>2, ContentIs DEF TypeInv
  <2>3. QED
    BY <1>7, <2>1, <2>2 DEF Personalize
<1>8. CASE TakeSnapshot
  <2>1. CASE Fails("snapshot")
    BY <1>2, <2>1
  <2>2. CASE snapshot' = Snapshot /\ UNCHANGED <<cancel, touched, executable, review>>
    BY <2>2, ContentIs DEF TypeInv
  <2>3. QED
    BY <1>8, <2>1, <2>2 DEF TakeSnapshot
<1>9. CASE Validate \/ Compare \/ Record \/ Recheck \/ Check \/ Commit
  BY <1>1, <1>2, <1>9 DEF Validate, Compare, Record, Recheck, Check, Commit
<1>10. CASE Cancelled \/ Breaks
  BY <1>2, <1>10 DEF Cancelled, Breaks
<1>11. CASE RequestCancel
  BY <1>11 DEF RequestCancel, TypeInv
<1>12. CASE EngineWrites \/ Tamper
  BY <1>12 DEF EngineWrites, Tamper, TypeInv
<1>13. CASE Recover \/ UNCHANGED vars
  BY <1>1, <1>13 DEF Recover, vars, stagingVars
<1>14. QED
  BY <1>3, <1>4, <1>5, <1>6, <1>7, <1>8, <1>9, <1>10, <1>11, <1>12, <1>13
     DEF Next, Stage, Ended

-----------------------------------------------------------------------------
(* Where the launcher is                                                    *)

\* Two sequences that are spelled alike, name by name.
Alike(x, y) ==
  Len(x) = Len(y) /\ \A i \in 1..Len(y) : Form(x[i]) = Form(y[i])

\* Paths have one key if they are.
LEMMA AlikeIs ==
  ASSUME NEW x \in AllPaths, NEW y \in AllPaths
  PROVE  Slot(x) = Slot(y) <=> Alike(x, y)
<1>1. Slot(x) = Slot(y) <=>
        Len(x) = Len(y) /\ \A n \in 1..Len(x) : Form(x[n]) = Form(y[n])
  BY SlotsByName
<1>2. QED
  BY <1>1 DEF Alike

\* The root of a Maia3 package is a path of one name at least.
LEMMA RootIs ==
  /\ PackageRoot \in AllPaths /\ PackageRoot \in Seq(Names)
  /\ Len(PackageRoot) \in Nat /\ Len(PackageRoot) > 0
BY StagingAssumption, PrefixesArePaths

\* A path is inside if its first names are those of the root, by any spelling; the
\* rest of it are its other names.
LEMMA InsideByName ==
  ASSUME NEW p \in AllPaths
  PROVE  /\ Inside(p) <=>
              /\ Len(p) > Len(PackageRoot)
              /\ \A i \in 1..Len(PackageRoot) : Form(p[i]) = Form(PackageRoot[i])
         /\ Inside(p) => \A i \in 1..Len(Rest(p)) : Rest(p)[i] = p[Len(PackageRoot) + i]
<1>1. PICK k \in Nat : k = Len(PackageRoot) /\ k > 0
  BY RootIs
<1>2. p \in Seq(Names) /\ Len(p) \in Nat /\ PackageRoot \in AllPaths
  BY PrefixesArePaths, RootIs
<1>3. ASSUME Len(p) > k
      PROVE  /\ SubSeq(p, 1, k) \in AllPaths /\ Len(SubSeq(p, 1, k)) = k
             /\ \A i \in 1..k : SubSeq(p, 1, k)[i] = p[i]
  <2>1. k \in 1..Len(p)
    BY <1>1, <1>2, <1>3
  <2>2. QED
    BY <1>2, <2>1, PrefixesArePaths
<1>4. ASSUME Len(p) > k
      PROVE  (Slot(SubSeq(p, 1, k)) = Slot(PackageRoot)) <=>
               \A i \in 1..k : Form(p[i]) = Form(PackageRoot[i])
  <2>1. PICK u : u = SubSeq(p, 1, k)
    OBVIOUS
  <2>2. u \in AllPaths /\ Len(u) = k /\ \A i \in 1..k : u[i] = p[i]
    BY <1>3, <1>4, <2>1
  <2>3. Slot(u) = Slot(PackageRoot) <=> Alike(u, PackageRoot)
    BY <1>2, <2>2, AlikeIs
  <2>4. QED
    BY <1>1, <2>1, <2>2, <2>3 DEF Alike
<1>5. ASSUME Inside(p)
      PROVE  \A i \in 1..Len(Rest(p)) : Rest(p)[i] = p[k + i]
  <2>1. Len(p) > k
    BY <1>1, <1>5 DEF Inside
  <2>2. \A s \in Seq(Names), m \in Nat : Len(s) > m =>
          \A i \in 1..Len(SubSeq(s, m + 1, Len(s))) : SubSeq(s, m + 1, Len(s))[i] = s[m + i]
    OBVIOUS
  <2>3. Rest(p) = SubSeq(p, k + 1, Len(p))
    BY <1>1 DEF Rest
  <2>4. QED
    BY <1>2, <2>1, <2>2, <2>3
<1>6. QED
  BY <1>1, <1>4, <1>5 DEF Inside

\* A path below the root that is written with the root's own spelling has the key
\* of the path.
LEMMA Respelled ==
  ASSUME NEW p \in AllPaths, Inside(p), NEW q \in AllPaths,
         PackageRoot \o Rest(p) = q
  PROVE  Slot(p) = Slot(q)
<1>1. PICK k \in Nat : k = Len(PackageRoot)
  BY RootIs
<1>2. /\ PackageRoot \in Seq(Names) /\ Rest(p) \in Seq(Names)
      /\ Len(Rest(p)) = Len(p) - k /\ Len(p) \in Nat /\ Len(p) > k
  BY <1>1, RootIs, InsideIs DEF Inside
<1>3. \A u, v \in Seq(Names) :
        /\ Len(u \o v) = Len(u) + Len(v)
        /\ \A i \in 1..Len(u) : (u \o v)[i] = u[i]
        /\ \A i \in 1..Len(v) : (u \o v)[Len(u) + i] = v[i]
  OBVIOUS
<1>4. /\ Len(q) = k + Len(Rest(p)) /\ \A i \in 1..k : q[i] = PackageRoot[i]
      /\ \A i \in 1..Len(Rest(p)) : q[k + i] = Rest(p)[i]
  BY <1>1, <1>2, <1>3
<1>5. /\ \A i \in 1..k : Form(p[i]) = Form(PackageRoot[i])
      /\ \A i \in 1..Len(Rest(p)) : Rest(p)[i] = p[k + i]
  BY <1>1, InsideByName
<1>6. ASSUME NEW i \in 1..Len(q)
      PROVE  Form(p[i]) = Form(q[i])
  <2>1. CASE i <= k
    <3>1. i \in 1..k
      BY <2>1
    <3>2. QED
      BY <3>1, <1>4, <1>5
  <2>2. CASE i > k
    <3>1. i - k \in 1..Len(Rest(p)) /\ k + (i - k) = i
      BY <1>2, <1>4, <2>2
    <3>2. QED
      BY <1>4, <1>5, <3>1
  <2>3. QED
    BY <2>1, <2>2
<1>7. Len(p) = Len(q)
  BY <1>2, <1>4
<1>8. QED
  BY <1>6, <1>7, AlikeIs DEF Alike

\* What a relative path says below the root.
LEMMA BelowIs ==
  ASSUME NEW p \in Supports \cup Checkpoints
  PROVE  /\ PackageRoot \o p \in AllPaths /\ Inside(PackageRoot \o p)
         /\ \A q \in AllPaths :
              Slot(q) = Slot(PackageRoot \o p) <=> Inside(q) /\ Alike(Rest(q), p)
<1>1. PICK k \in Nat : k = Len(PackageRoot) /\ k > 0
  BY RootIs
<1>2. PICK r : r = PackageRoot \o p
  OBVIOUS
<1>3. /\ p \in Seq(Names) /\ p # <<>> /\ PackageRoot \in Seq(Names) /\ r \in AllPaths
      /\ PackageRoot \in AllPaths
  BY <1>2, StagingAssumption, RootIs
<1>4. \A u, v \in Seq(Names) :
        /\ Len(u \o v) = Len(u) + Len(v)
        /\ \A i \in 1..Len(u) : (u \o v)[i] = u[i]
        /\ \A i \in 1..Len(v) : (u \o v)[Len(u) + i] = v[i]
  OBVIOUS
<1>5. \A v \in Seq(Names) : v # <<>> => Len(v) \in Nat /\ Len(v) > 0
  OBVIOUS
<1>6. /\ Len(r) = k + Len(p) /\ \A i \in 1..k : r[i] = PackageRoot[i]
      /\ \A i \in 1..Len(p) : r[k + i] = p[i]
      /\ Len(p) \in Nat /\ Len(p) > 0
  BY <1>1, <1>2, <1>3, <1>4, <1>5
<1>7. Inside(r)
  BY <1>1, <1>3, <1>6, InsideByName
<1>8. ASSUME NEW q \in AllPaths, Slot(q) = Slot(r)
      PROVE  Inside(q) /\ Alike(Rest(q), p)
  <2>1. Len(q) = Len(r) /\ \A i \in 1..Len(r) : Form(q[i]) = Form(r[i])
    BY <1>3, <1>8, AlikeIs DEF Alike
  <2>2. \A i \in 1..k : i \in 1..Len(r)
    BY <1>6
  <2>3. Inside(q)
    BY <1>1, <1>6, <2>1, <2>2, InsideByName
  <2>4. Len(Rest(q)) = Len(p)
    BY <1>1, <1>6, <2>1, <2>3, InsideIs
  <2>5. \A i \in 1..Len(Rest(q)) : Rest(q)[i] = q[k + i]
    BY <1>1, <2>3, InsideByName
  <2>6. \A i \in 1..Len(p) : k + i \in 1..Len(r)
    BY <1>6
  <2>7. \A i \in 1..Len(p) : Form(Rest(q)[i]) = Form(p[i])
    BY <1>6, <2>1, <2>4, <2>5, <2>6
  <2>8. QED
    BY <2>3, <2>4, <2>7 DEF Alike
<1>9. ASSUME NEW q \in AllPaths, Inside(q), Alike(Rest(q), p)
      PROVE  Slot(q) = Slot(r)
  <2>1. Len(q) = k + Len(p)
    BY <1>1, <1>6, <1>9, InsideIs DEF Alike
  <2>2. \A i \in 1..k : Form(q[i]) = Form(PackageRoot[i])
    BY <1>1, <1>9, InsideByName
  <2>3. \A i \in 1..Len(Rest(q)) : Rest(q)[i] = q[k + i]
    BY <1>1, <1>9, InsideByName
  <2>4. ASSUME NEW i \in 1..Len(r)
        PROVE  Form(q[i]) = Form(r[i])
    <3>1. CASE i <= k
      <4>1. i \in 1..k
        BY <3>1
      <4>2. QED
        BY <1>6, <2>2, <4>1
    <3>2. CASE i > k
      <4>1. i - k \in 1..Len(p) /\ k + (i - k) = i
        BY <1>6, <3>2
      <4>2. Form(Rest(q)[i - k]) = Form(p[i - k]) /\ Len(Rest(q)) = Len(p)
        BY <1>9, <4>1 DEF Alike
      <4>3. QED
        BY <1>6, <2>3, <4>1, <4>2
    <3>3. QED
      BY <1>6, <3>1, <3>2
  <2>5. QED
    BY <1>3, <1>6, <2>1, <2>4, AlikeIs DEF Alike
<1>10. QED
  BY <1>2, <1>3, <1>7, <1>8, <1>9

\* Where a launcher has to be: in a directory of that name below the root.
Good(p) ==
  /\ Len(p) = Len(PackageRoot) + 2
  /\ p[Len(PackageRoot) + 1] = LauncherName
  /\ Inside(p)

\* That is what the launcher looks at.
LEMMA GoodIs ==
  ASSUME NEW p \in AllPaths
  PROVE  (/\ Front(p) # <<>> /\ Last(Front(p)) = LauncherName
          /\ Slot(Front(Front(p))) = Slot(PackageRoot)) <=> Good(p)
<1>1. PICK k \in Nat : k = Len(PackageRoot) /\ k > 0
  BY RootIs
<1>2. PICK n \in Nat : n = Len(p) /\ n > 0
  BY PrefixesArePaths
<1>3. p \in Seq(Names) /\ PackageRoot \in AllPaths
  BY PrefixesArePaths, RootIs
<1>4. PICK d : d = Front(p)
  OBVIOUS
<1>5. d \in Seq(Names) /\ Len(d) = n - 1 /\ \A i \in 1..(n - 1) : d[i] = p[i]
  BY <1>2, <1>3, <1>4 DEF Front
<1>6. \A s \in Seq(Names) : s # <<>> <=> Len(s) > 0
  OBVIOUS
<1>7. ASSUME Front(p) # <<>>, Last(Front(p)) = LauncherName,
             Slot(Front(Front(p))) = Slot(PackageRoot)
      PROVE  Good(p)
  <2>1. n - 1 > 0
    BY <1>4, <1>5, <1>6, <1>7
  <2>2. Last(d) = p[n - 1]
    BY <1>2, <1>5, <2>1 DEF Last
  <2>3. Front(d) = SubSeq(p, 1, n - 2)
    <3>1. /\ Front(d) \in Seq(Names) /\ Len(Front(d)) = n - 2
          /\ \A i \in 1..(n - 2) : Front(d)[i] = p[i]
      BY <1>2, <1>5, <2>1 DEF Front
    <3>2. /\ SubSeq(p, 1, n - 2) \in Seq(Names) /\ Len(SubSeq(p, 1, n - 2)) = n - 2
          /\ \A i \in 1..(n - 2) : SubSeq(p, 1, n - 2)[i] = p[i]
      BY <1>2, <1>3, <2>1
    <3>3. \A x, y \in Seq(Names) :
            Len(x) = Len(y) /\ (\A i \in 1..Len(x) : x[i] = y[i]) => x = y
      OBVIOUS
    <3>4. QED
      BY <3>1, <3>2, <3>3
  <2>4. n - 2 # 0
    <3>1. SUFFICES ASSUME n - 2 = 0
                   PROVE  FALSE
      OBVIOUS
    <3>2. Front(d) = <<>>
      BY <1>3, <2>3, <3>1
    <3>3. DOMAIN Slot(<<>>) = {}
      BY DEF Slot
    <3>4. DOMAIN Slot(PackageRoot) = 1..k /\ 1 \in 1..k
      BY <1>1, <1>3, SlotsAre
    <3>5. QED
      BY <1>1, <1>4, <1>7, <3>2, <3>3, <3>4
  <2>5. n - 2 \in 1..n /\ n - 2 \in Nat
    BY <2>1, <2>4
  <2>6. SubSeq(p, 1, n - 2) \in AllPaths /\ Len(SubSeq(p, 1, n - 2)) = n - 2
    BY <1>2, <1>3, <2>5, PrefixesArePaths
  <2>7. n - 2 = k
    BY <1>1, <1>3, <1>4, <1>7, <2>3, <2>6, SameSlots
  <2>8. Inside(p)
    BY <1>1, <1>2, <1>4, <1>7, <2>3, <2>7 DEF Inside
  <2>9. k + 1 = n - 1
    BY <2>7
  <2>10. QED
    BY <1>1, <1>2, <1>4, <1>7, <2>2, <2>7, <2>8, <2>9 DEF Good
<1>8. ASSUME Good(p)
      PROVE  /\ Front(p) # <<>> /\ Last(Front(p)) = LauncherName
             /\ Slot(Front(Front(p))) = Slot(PackageRoot)
  <2>1. n = k + 2 /\ p[k + 1] = LauncherName /\ Slot(SubSeq(p, 1, k)) = Slot(PackageRoot)
    BY <1>1, <1>2, <1>8 DEF Good, Inside
  <2>2. d # <<>> /\ Last(d) = p[k + 1]
    BY <1>1, <1>5, <1>6, <2>1 DEF Last
  <2>3. Front(d) = SubSeq(p, 1, k)
    <3>1. /\ Front(d) \in Seq(Names) /\ Len(Front(d)) = k
          /\ \A i \in 1..k : Front(d)[i] = p[i]
      BY <1>1, <1>5, <2>1 DEF Front
    <3>2. /\ SubSeq(p, 1, k) \in Seq(Names) /\ Len(SubSeq(p, 1, k)) = k
          /\ \A i \in 1..k : SubSeq(p, 1, k)[i] = p[i]
      <4>1. \A s \in Seq(Names), m \in Nat : m <= Len(s) =>
              /\ SubSeq(s, 1, m) \in Seq(Names) /\ Len(SubSeq(s, 1, m)) = m
              /\ \A i \in 1..m : SubSeq(s, 1, m)[i] = s[i]
        OBVIOUS
      <4>2. k <= Len(p)
        BY <1>1, <1>2, <2>1
      <4>3. QED
        BY <1>3, <4>1, <4>2
    <3>3. \A x, y \in Seq(Names) :
            Len(x) = Len(y) /\ (\A i \in 1..Len(x) : x[i] = y[i]) => x = y
      OBVIOUS
    <3>4. QED
      BY <3>1, <3>2, <3>3
  <2>4. QED
    BY <1>4, <2>1, <2>2, <2>3
<1>9. QED
  BY <1>7, <1>8

\* The launcher is spelled as it is on disk.
LEMMA SpelledIs ==
  ASSUME DiskOK(disk), IsFile(executable)
  PROVE  \E e \in disk : /\ e.path = Spelled(executable) /\ ~e.dir
                         /\ e.path \in AllPaths /\ Slot(e.path) = Slot(executable)
                         /\ \A n \in disk : Slot(n.path) = Slot(executable) => n = e
<1>1. PICK m \in disk : Slot(m.path) = Slot(executable) /\ ~m.dir
  BY DEF IsFile
<1>2. PICK q : q = Slot(executable)
  OBVIOUS
<1>3. PICK e : e = CHOOSE n \in disk : Slot(n.path) = Slot(executable)
  OBVIOUS
<1>4. e \in disk /\ Slot(e.path) = Slot(executable)
  BY <1>1, <1>3
<1>5. \A n \in disk : Slot(n.path) = Slot(executable) => n = e
  BY <1>4 DEF DiskOK
<1>6. e.path = Spelled(executable)
  BY <1>3 DEF Spelled
<1>7. e.path \in AllPaths
  BY <1>4 DEF DiskOK, Stored
<1>8. QED
  BY <1>1, <1>4, <1>5, <1>6, <1>7

\* What it checks, then.
LEMMA AcceptingIs ==
  ASSUME DiskOK(disk), IsFile(executable)
  PROVE  LauncherAccepts <=>
           /\ Good(Spelled(executable)) /\ LaunchFiles
           /\ Payload(Spelled(executable)) = review
<1>1. PICK p : p = Spelled(executable)
  OBVIOUS
<1>2. p \in AllPaths
  BY <1>1, SpelledIs
<1>3. (/\ Front(p) # <<>> /\ Last(Front(p)) = LauncherName
       /\ Slot(Front(Front(p))) = Slot(PackageRoot)) <=> Good(p)
  BY <1>2, GoodIs
<1>4. LauncherAccepts <=>
        /\ Front(p) # <<>> /\ Last(Front(p)) = LauncherName
        /\ Slot(Front(Front(p))) = Slot(PackageRoot)
        /\ LaunchFiles
        /\ Payload(p) = review
  BY <1>1 DEF LauncherAccepts
<1>5. QED
  BY <1>1, <1>3, <1>4

\* A file that the launcher looks for is itself, or one that was reviewed.
Held(p) ==
  \/ Slot(PackageRoot \o p) = Slot(executable)
  \/ \E f \in review : Alike(f.path, p)

\* As long as the review is right, that is what it finds.
LEMMA HeldIs ==
  ASSUME DiskOK(disk), executable \in AllPaths, IsFile(executable),
         Payload(Spelled(executable)) = review, NEW p \in Supports \cup Checkpoints
  PROVE  IsFile(PackageRoot \o p) <=> Held(p)
<1>1. PICK e \in disk : /\ e.path = Spelled(executable) /\ ~e.dir
                        /\ e.path \in AllPaths /\ Slot(e.path) = Slot(executable)
  BY SpelledIs
<1>2. PICK r : r = PackageRoot \o p
  OBVIOUS
<1>3. /\ r \in AllPaths
      /\ \A q \in AllPaths : Slot(q) = Slot(r) <=> Inside(q) /\ Alike(Rest(q), p)
  BY <1>2, BelowIs
<1>4. \A n \in disk : n.path \in AllPaths
  BY DEF DiskOK, Stored
<1>5. \A f : f \in review <=>
        \E n \in disk : /\ ~n.dir /\ Inside(n.path)
                        /\ PackageRoot \o Rest(n.path) # e.path
                        /\ f = [path |-> Rest(n.path), size |-> n.size, of |-> n.of]
  <2>1. PICK launcher : launcher = e.path
    OBVIOUS
  <2>2. review = Payload(launcher)
    BY <1>1, <2>1
  <2>3. QED
    BY <2>1, <2>2, PayloadIs
<1>6. ASSUME IsFile(r)
      PROVE  Held(p)
  <2>1. PICK n \in disk : Slot(n.path) = Slot(r) /\ ~n.dir
    BY <1>6 DEF IsFile
  <2>2. Inside(n.path) /\ Alike(Rest(n.path), p)
    BY <1>3, <1>4, <2>1
  <2>3. CASE PackageRoot \o Rest(n.path) = e.path
    <3>1. Slot(n.path) = Slot(e.path)
      BY <1>1, <1>4, <2>2, <2>3, Respelled
    <3>2. QED
      BY <1>1, <1>2, <2>1, <3>1 DEF Held
  <2>4. CASE PackageRoot \o Rest(n.path) # e.path
    <3>1. PICK f : f = [path |-> Rest(n.path), size |-> n.size, of |-> n.of]
      OBVIOUS
    <3>2. f \in review /\ f.path = Rest(n.path)
      BY <1>5, <2>1, <2>2, <2>4, <3>1
    <3>3. QED
      BY <2>2, <3>2 DEF Held
  <2>5. QED
    BY <2>3, <2>4
<1>7. ASSUME Held(p)
      PROVE  IsFile(r)
  <2>1. CASE Slot(r) = Slot(executable)
    BY <2>1 DEF IsFile
  <2>2. CASE \E f \in review : Alike(f.path, p)
    <3>1. PICK f \in review : Alike(f.path, p)
      BY <2>2
    <3>2. PICK n \in disk :
            /\ ~n.dir /\ Inside(n.path)
            /\ f = [path |-> Rest(n.path), size |-> n.size, of |-> n.of]
      BY <1>5
    <3>3. Alike(Rest(n.path), p)
      <4>1. f.path = Rest(n.path)
        BY <3>2
      <4>2. QED
        BY <3>1, <4>1
    <3>4. Slot(n.path) = Slot(r)
      BY <1>3, <1>4, <3>2, <3>3
    <3>5. QED
      BY <3>2, <3>4 DEF IsFile
  <2>3. QED
    BY <1>2, <1>7, <2>1, <2>2 DEF Held
<1>8. QED
  BY <1>2, <1>6, <1>7

\* What was installed below the root, the launcher aside.
Installed ==
  {[file EXCEPT !.path = SubSeq(@, Len(PackageRoot) + 1, Len(@))] :
     file \in {f \in snapshot :
                 /\ IsStrictPrefix(Slot(PackageRoot), Slot(f.path))
                 /\ Slot(f.path) # Slot(executable)}}

\* A key begins with the root's if the path is inside.
LEMMA PrefixIs ==
  ASSUME BudgetOK, NEW p \in AllPaths
  PROVE  IsStrictPrefix(Slot(PackageRoot), Slot(p)) <=> Inside(p)
<1>1. PICK k \in Nat : k = Len(PackageRoot) /\ k > 0
  BY RootIs
<1>2. PICK u, v : u = Slot(PackageRoot) /\ v = Slot(p)
  OBVIOUS
<1>9. /\ u = [n \in 1..k |-> Form(PackageRoot[n])] /\ v = [n \in 1..Len(p) |-> Form(p[n])]
      /\ Len(p) \in Nat /\ \A i \in 1..Len(p) : p[i] \in Names
      /\ \A i \in 1..k : PackageRoot[i] \in Names
  <2>1. p \in Seq(Names) /\ Len(p) \in Nat /\ PackageRoot \in Seq(Names)
        /\ PackageRoot \in AllPaths
    BY PrefixesArePaths, RootIs
  <2>2. \A s \in Seq(Names) : \A i \in 1..Len(s) : s[i] \in Names
    OBVIOUS
  <2>3. u = [n \in 1..k |-> Form(PackageRoot[n])]
    BY <1>1, <1>2, <2>1, SlotsAre
  <2>4. v = [n \in 1..Len(p) |-> Form(p[n])]
    BY <1>2, SlotsAre
  <2>5. /\ \A i \in 1..Len(p) : p[i] \in Names
        /\ \A i \in 1..k : PackageRoot[i] \in Names
    BY <1>1, <2>1, <2>2
  <2>6. QED
    BY <2>1, <2>3, <2>4, <2>5
<1>10. \A name \in Names : Form(name) \in Names
  <2>1. budget.folds \in BOOLEAN
    BY DEF BudgetOK, Budgets
  <2>2. QED
    BY <2>1, ExtractionAssumption DEF Form
<1>3. /\ u \in Seq(Names) /\ Len(u) = k /\ v \in Seq(Names) /\ Len(v) = Len(p)
      /\ \A i \in 1..k : u[i] = Form(PackageRoot[i])
      /\ \A i \in 1..Len(p) : v[i] = Form(p[i])
      /\ Len(p) \in Nat
  <2>1. \A k1 \in Nat : \A f : f \in [1..k1 -> Names] => f \in Seq(Names) /\ Len(f) = k1
    OBVIOUS
  <2>2. u \in [1..k -> Names] /\ v \in [1..Len(p) -> Names]
    BY <1>9, <1>10
  <2>3. QED
    BY <1>1, <1>9, <2>1, <2>2
<1>4. \A x, y \in Seq(Names) :
        x = y <=> Len(x) = Len(y) /\ (\A i \in 1..Len(x) : x[i] = y[i])
  OBVIOUS
<1>5. \A s \in Seq(Names), m \in Nat : m <= Len(s) =>
        /\ SubSeq(s, 1, m) \in Seq(Names) /\ Len(SubSeq(s, 1, m)) = m
        /\ \A i \in 1..m : SubSeq(s, 1, m)[i] = s[i]
  OBVIOUS
<1>6. CASE Len(p) <= k
  <2>1. ~Inside(p)
    BY <1>1, <1>3, <1>6 DEF Inside
  <2>2. ASSUME IsStrictPrefix(u, v)
        PROVE  FALSE
    <3>1. Len(v) = k /\ SubSeq(u, 1, k) = SubSeq(v, 1, k) /\ u # v
      BY <1>3, <1>6, <2>2 DEF IsStrictPrefix, IsPrefix
    <3>2. \A i \in 1..k : u[i] = v[i]
      BY <1>3, <1>5, <3>1
    <3>3. QED
      BY <1>3, <1>4, <3>1, <3>2
  <2>3. QED
    BY <1>2, <2>1, <2>2
<1>7. CASE Len(p) > k
  <2>1. u # v
    BY <1>3, <1>7
  <2>2. IsStrictPrefix(u, v) <=> SubSeq(u, 1, k) = SubSeq(v, 1, k)
    BY <1>3, <1>7, <2>1 DEF IsStrictPrefix, IsPrefix
  <2>3. k <= Len(u) /\ k <= Len(v)
    BY <1>3, <1>7
  <2>4. SubSeq(u, 1, k) = SubSeq(v, 1, k) <=> \A i \in 1..k : u[i] = v[i]
    <3>1. /\ SubSeq(u, 1, k) \in Seq(Names) /\ Len(SubSeq(u, 1, k)) = k
          /\ \A i \in 1..k : SubSeq(u, 1, k)[i] = u[i]
          /\ SubSeq(v, 1, k) \in Seq(Names) /\ Len(SubSeq(v, 1, k)) = k
          /\ \A i \in 1..k : SubSeq(v, 1, k)[i] = v[i]
      BY <1>3, <1>5, <2>3
    <3>2. QED
      BY <1>4, <3>1
  <2>5. \A i \in 1..k : i \in 1..Len(p)
    BY <1>3, <1>7
  <2>6. (\A i \in 1..k : u[i] = v[i])
          <=> \A i \in 1..k : Form(p[i]) = Form(PackageRoot[i])
    BY <1>3, <2>5
  <2>7. QED
    BY <1>1, <1>2, <1>7, <2>2, <2>4, <2>6, InsideByName
<1>8. QED
  BY <1>1, <1>3, <1>6, <1>7

\* The file that the launcher was written into has its mark, and no other.
Marked == \A n \in disk : ~n.dir /\ Slot(n.path) = Slot(executable) => n.of = <<>>

Unmarked == \A f \in review : f.of # <<>>

\* The payload that leaves the launcher out is what was installed beside it.
LEMMA PayloadIsInstalled ==
  ASSUME BudgetOK, DiskOK(disk), Reviewable(disk) = snapshot,
         NEW e \in disk, ~e.dir, Slot(e.path) = Slot(executable), Inside(e.path),
         PackageRoot \o Rest(e.path) = e.path
  PROVE  Payload(e.path) = Installed
<1>0. PICK launcher : launcher = e.path
  OBVIOUS
<1>1. \A n \in disk : n \in Stored /\ n.path \in AllPaths
  BY DEF DiskOK, Stored
<1>2. ASSUME NEW n \in disk, Inside(n.path)
      PROVE  PackageRoot \o Rest(n.path) # launcher <=> Slot(n.path) # Slot(executable)
  <2>1. CASE PackageRoot \o Rest(n.path) = launcher
    <3>1. Slot(n.path) = Slot(e.path)
      BY <1>0, <1>1, <1>2, <2>1, Respelled
    <3>2. QED
      BY <2>1, <3>1
  <2>2. CASE PackageRoot \o Rest(n.path) # launcher
    <3>1. n # e
      BY <1>0, <2>2
    <3>2. QED
      BY <2>2, <3>1 DEF DiskOK
  <2>3. QED
    BY <2>1, <2>2
<1>3. ASSUME NEW n \in disk, Inside(n.path)
      PROVE  n.path # Manifest
  <2>1. Len(n.path) \in Nat /\ Len(n.path) > Len(PackageRoot)
    BY <1>1, <1>3, PrefixesArePaths DEF Inside
  <2>2. Len(n.path) # 1
    <3>1. \A j, k \in Nat : k > 0 /\ j > k => j # 1
      OBVIOUS
    <3>2. Len(PackageRoot) \in Nat /\ Len(PackageRoot) > 0
      BY RootIs
    <3>3. QED
      BY <2>1, <3>1, <3>2
  <2>3. QED
    BY <2>2, StagingAssumption
<1>4. \A f : f \in snapshot <=>
        \E n \in disk : /\ ~n.dir /\ n.path # Manifest
                        /\ f = [path |-> n.path, size |-> n.size, of |-> n.of]
  BY DEF Reviewable
<1>5. \A f : f \in Payload(launcher) <=>
        \E n \in disk : /\ ~n.dir /\ Inside(n.path)
                        /\ PackageRoot \o Rest(n.path) # launcher
                        /\ f = [path |-> Rest(n.path), size |-> n.size, of |-> n.of]
  BY PayloadIs
<1>6. ASSUME NEW n \in disk, NEW g, g = [path |-> n.path, size |-> n.size, of |-> n.of]
      PROVE  /\ g.path = n.path
             /\ [g EXCEPT !.path = SubSeq(@, Len(PackageRoot) + 1, Len(@))]
                  = [path |-> Rest(n.path), size |-> n.size, of |-> n.of]
  <2>1. g.path = n.path
    BY <1>6
  <2>2. \A x, y, size, of :
          [[path |-> x, size |-> size, of |-> of] EXCEPT !.path = y]
            = [path |-> y, size |-> size, of |-> of]
    OBVIOUS
  <2>3. PICK y : y = Rest(n.path)
    OBVIOUS
  <2>4. [g EXCEPT !.path = y] = [path |-> y, size |-> n.size, of |-> n.of]
    BY <1>6, <2>2
  <2>5. SubSeq(g.path, Len(PackageRoot) + 1, Len(g.path)) = y
    BY <2>1, <2>3 DEF Rest
  <2>6. [g EXCEPT !.path = SubSeq(@, Len(PackageRoot) + 1, Len(@))] = [g EXCEPT !.path = y]
    BY <2>5
  <2>7. QED
    BY <2>1, <2>3, <2>4, <2>6
<1>7. ASSUME NEW f \in Payload(launcher)
      PROVE  f \in Installed
  <2>1. PICK n \in disk : /\ ~n.dir /\ Inside(n.path)
                          /\ PackageRoot \o Rest(n.path) # launcher
                          /\ f = [path |-> Rest(n.path), size |-> n.size, of |-> n.of]
    BY <1>5
  <2>2. PICK g : g = [path |-> n.path, size |-> n.size, of |-> n.of]
    OBVIOUS
  <2>3. g \in snapshot /\ g.path = n.path
    BY <1>3, <1>4, <1>6, <2>1, <2>2
  <2>4. /\ IsStrictPrefix(Slot(PackageRoot), Slot(g.path))
        /\ Slot(g.path) # Slot(executable)
    BY <1>1, <1>2, <2>1, <2>3, PrefixIs
  <2>5. f = [g EXCEPT !.path = SubSeq(@, Len(PackageRoot) + 1, Len(@))]
    BY <1>6, <2>1, <2>2
  <2>6. QED
    BY <2>3, <2>4, <2>5 DEF Installed
<1>8. ASSUME NEW f \in Installed
      PROVE  f \in Payload(launcher)
  <2>1. PICK g \in snapshot :
          /\ IsStrictPrefix(Slot(PackageRoot), Slot(g.path))
          /\ Slot(g.path) # Slot(executable)
          /\ f = [g EXCEPT !.path = SubSeq(@, Len(PackageRoot) + 1, Len(@))]
    BY <1>8 DEF Installed
  <2>2. PICK n \in disk : /\ ~n.dir /\ n.path # Manifest
                          /\ g = [path |-> n.path, size |-> n.size, of |-> n.of]
    BY <1>4
  <2>3. /\ g.path = n.path
        /\ f = [path |-> Rest(n.path), size |-> n.size, of |-> n.of]
    BY <1>6, <2>1, <2>2
  <2>4. Inside(n.path)
    BY <1>1, <2>1, <2>3, PrefixIs
  <2>5. PackageRoot \o Rest(n.path) # launcher
    BY <1>2, <2>1, <2>3, <2>4
  <2>6. QED
    BY <1>5, <2>2, <2>3, <2>4, <2>5
<1>9. QED
  BY <1>0, <1>7, <1>8

\* What the launcher found when the engine was validated.
Reviewed ==
  /\ review = Installed
  /\ \E f \in snapshot :
       f.path \in AllPaths /\ Slot(f.path) = Slot(executable) /\ Good(f.path)
  /\ \A p \in Supports : Held(p)
  /\ Cardinality({p \in Checkpoints : Held(p)}) = 1

\* A launcher that accepts its package during the validation has reviewed what is
\* installed: it leaves itself out, and nothing else.
LEMMA Validating ==
  ASSUME BudgetOK, DiskOK(disk), executable \in AllPaths, Reviewable(disk) = snapshot,
         Marked, Unmarked, LauncherAccepts
  PROVE  Reviewed
<1>1. IsFile(executable)
  BY DEF LauncherAccepts
<1>2. PICK e \in disk : /\ e.path = Spelled(executable) /\ ~e.dir
                        /\ e.path \in AllPaths /\ Slot(e.path) = Slot(executable)
  BY <1>1, SpelledIs
<1>3. Good(e.path) /\ LaunchFiles /\ Payload(e.path) = review
  BY <1>1, <1>2, AcceptingIs
<1>4. Inside(e.path) /\ Len(e.path) = Len(PackageRoot) + 2
  BY <1>3 DEF Good
<1>5. PackageRoot \o Rest(e.path) = e.path
  <2>1. SUFFICES ASSUME PackageRoot \o Rest(e.path) # e.path
                 PROVE  FALSE
    OBVIOUS
  <2>2. PICK launcher : launcher = e.path
    OBVIOUS
  <2>3. PICK f : f = [path |-> Rest(e.path), size |-> e.size, of |-> e.of]
    OBVIOUS
  <2>4. f \in Payload(launcher)
    BY <1>2, <1>4, <2>1, <2>2, <2>3, PayloadIs
  <2>5. f \in review /\ f.of = e.of
    BY <1>3, <2>2, <2>3, <2>4
  <2>6. e.of = <<>>
    BY <1>2 DEF Marked
  <2>7. QED
    BY <2>5, <2>6 DEF Unmarked
<1>6. review = Installed
  BY <1>2, <1>3, <1>4, <1>5, PayloadIsInstalled
<1>7. \E f \in snapshot : f.path \in AllPaths /\ Slot(f.path) = Slot(executable) /\ Good(f.path)
  <2>1. e.path # Manifest
    <3>1. Len(e.path) # 1
      BY <1>4, RootIs
    <3>2. QED
      BY <3>1, StagingAssumption
  <2>2. PICK f : f = [path |-> e.path, size |-> e.size, of |-> e.of]
    OBVIOUS
  <2>3. f \in snapshot /\ f.path = e.path
    BY <1>2, <2>1, <2>2 DEF Reviewable
  <2>4. QED
    BY <1>2, <1>3, <2>3
<1>8. \A p \in Supports \cup Checkpoints : IsFile(PackageRoot \o p) <=> Held(p)
  BY <1>1, <1>2, <1>3, HeldIs
<1>9. \A p \in Supports : IsFile(PackageRoot \o p)
  BY <1>3 DEF LaunchFiles
<1>10. Cardinality({p \in Checkpoints : IsFile(PackageRoot \o p)}) = 1
  BY <1>3 DEF LaunchFiles
<1>11. {p \in Checkpoints : IsFile(PackageRoot \o p)} = {p \in Checkpoints : Held(p)}
  BY <1>8
<1>12. QED
  BY <1>6, <1>7, <1>8, <1>9, <1>10, <1>11 DEF Reviewed

\* And it accepts the installed package as long as that is what is there.
LEMMA Launching ==
  ASSUME DiskOK(disk), executable \in AllPaths, IsFile(executable), Reviewed,
         \A n \in disk : ~n.dir /\ Slot(n.path) = Slot(executable) => Good(n.path)
  PROVE  LauncherAccepts <=>
           /\ Payload(Spelled(executable)) = Installed
           /\ \A p \in Checkpoints : ~IsDirectory(PackageRoot \o p)
<1>1. review = Installed
  BY DEF Reviewed
<1>2. PICK e \in disk : /\ e.path = Spelled(executable) /\ ~e.dir
                        /\ Slot(e.path) = Slot(executable)
  BY SpelledIs
<1>3. Good(Spelled(executable))
  BY <1>2
<1>4. LauncherAccepts <=> LaunchFiles /\ Payload(Spelled(executable)) = review
  BY <1>3, AcceptingIs
<1>5. ASSUME Payload(Spelled(executable)) = review,
             \A p \in Checkpoints : ~IsDirectory(PackageRoot \o p)
      PROVE  LaunchFiles
  <2>1. \A p \in Supports \cup Checkpoints : IsFile(PackageRoot \o p) <=> Held(p)
    BY <1>5, HeldIs
  <2>2. \A p \in Supports : IsFile(PackageRoot \o p)
    BY <2>1 DEF Reviewed
  <2>3. {p \in Checkpoints : IsFile(PackageRoot \o p)} = {p \in Checkpoints : Held(p)}
    BY <2>1
  <2>4. Cardinality({p \in Checkpoints : IsFile(PackageRoot \o p)}) = 1
    BY <2>3 DEF Reviewed
  <2>5. QED
    BY <1>5, <2>2, <2>4 DEF LaunchFiles
<1>6. LaunchFiles => \A p \in Checkpoints : ~IsDirectory(PackageRoot \o p)
  BY DEF LaunchFiles
<1>7. QED
  BY <1>1, <1>4, <1>5, <1>6

\* The launcher is where it has to be; and as long as nobody changes anything, so is
\* the directory for it.
InPlace ==
  LET k == Len(PackageRoot) IN
  /\ \A n \in disk : ~n.dir /\ Slot(n.path) = Slot(executable) => Good(n.path)
  /\ ~touched =>
       \A n \in disk : n.dir /\ Slot(n.path) = Slot(SubSeq(executable, 1, k + 1)) =>
                         n.path[k + 1] = LauncherName

\* Whatever has the key of the launcher is as long as it, inside, and has a parent
\* with the key of its directory.
LEMMA KeyedAlike ==
  ASSUME executable \in AllPaths, Reviewed,
         NEW p \in AllPaths, Slot(p) = Slot(executable), NEW k \in Nat, k = Len(PackageRoot)
  PROVE  /\ Len(p) = k + 2 /\ Inside(p)
         /\ SubSeq(p, 1, k + 1) \in Parents(p) /\ SubSeq(p, 1, k + 1) \in AllPaths
         /\ Slot(SubSeq(p, 1, k + 1)) = Slot(SubSeq(executable, 1, k + 1))
         /\ SubSeq(p, 1, k + 1)[k + 1] = p[k + 1]
<1>1. PICK f \in snapshot :
        f.path \in AllPaths /\ Slot(f.path) = Slot(executable) /\ Good(f.path)
  BY DEF Reviewed
<1>2. PICK g : g = f.path
  OBVIOUS
<1>3. g \in AllPaths /\ Slot(g) = Slot(p) /\ Len(g) = k + 2 /\ Inside(g)
  BY <1>1, <1>2 DEF Good
<1>4. Len(p) = k + 2
  BY <1>3, SameSlots
<1>5. Inside(p)
  <2>1. \A i \in 1..Len(p) : Form(g[i]) = Form(p[i])
    BY <1>3, AlikeIs DEF Alike
  <2>2. \A i \in 1..k : Form(g[i]) = Form(PackageRoot[i])
    BY <1>3, InsideByName
  <2>3. \A i \in 1..k : i \in 1..Len(p)
    BY <1>4
  <2>4. \A i \in 1..k : Form(p[i]) = Form(PackageRoot[i])
    BY <2>1, <2>2, <2>3
  <2>5. Len(p) > k
    BY <1>4
  <2>6. QED
    BY <2>4, <2>5, InsideByName
<1>6. k + 1 \in 1..Len(p)
  BY <1>4
<1>7. /\ p \in Seq(Names) /\ Len(p) \in Nat
      /\ Nodes[p] = {SubSeq(p, 1, n) : n \in 1..Len(p)}
      /\ SubSeq(p, 1, k + 1) \in AllPaths
  BY <1>6, PrefixesArePaths
<1>8. Len(SubSeq(p, 1, k + 1)) = k + 1 /\ SubSeq(p, 1, k + 1)[k + 1] = p[k + 1]
  <2>1. \A s \in Seq(Names), m \in Nat : m > 0 /\ m <= Len(s) =>
          Len(SubSeq(s, 1, m)) = m /\ SubSeq(s, 1, m)[m] = s[m]
    OBVIOUS
  <2>2. k + 1 \in Nat /\ k + 1 > 0 /\ k + 1 <= Len(p)
    BY <1>4
  <2>3. QED
    BY <1>7, <2>1, <2>2
<1>9. SubSeq(p, 1, k + 1) \in Parents(p)
  <2>1. SubSeq(p, 1, k + 1) # p
    BY <1>4, <1>8
  <2>2. QED
    BY <1>6, <1>7, <2>1 DEF Parents
<1>10. Slot(SubSeq(p, 1, k + 1)) = Slot(SubSeq(executable, 1, k + 1))
  BY <1>6, SameSlots
<1>11. QED
  BY <1>4, <1>5, <1>7, <1>8, <1>9, <1>10

\* The launcher becomes active in its place: its directory is spelled as in its
\* path.
LEMMA Placing ==
  ASSUME DiskOK(disk), Rooted(disk), executable \in AllPaths,
         Reviewable(disk) = snapshot, Reviewed
  PROVE  InPlace
<1>1. PICK k \in Nat : k = Len(PackageRoot)
  BY RootIs
<1>2. PICK f \in snapshot :
        f.path \in AllPaths /\ Slot(f.path) = Slot(executable) /\ Good(f.path)
  BY DEF Reviewed
<1>3. PICK e \in disk : ~e.dir /\ f = [path |-> e.path, size |-> e.size, of |-> e.of]
  BY DEF Reviewable
<1>4. PICK p : p = e.path
  OBVIOUS
<1>5. p \in AllPaths /\ Slot(p) = Slot(executable) /\ Good(p)
  <2>1. f.path = p
    BY <1>3, <1>4
  <2>2. QED
    BY <1>2, <2>1
<1>6. ASSUME NEW n \in disk, Slot(n.path) = Slot(executable)
      PROVE  Good(n.path)
  <2>1. n = e
    BY <1>4, <1>5, <1>6 DEF DiskOK
  <2>2. QED
    BY <1>4, <1>5, <2>1
<1>7. PICK q : q = SubSeq(p, 1, k + 1)
  OBVIOUS
<1>8. /\ q \in Parents(p) /\ Slot(q) = Slot(SubSeq(executable, 1, k + 1))
      /\ q[k + 1] = p[k + 1]
  BY <1>1, <1>5, <1>7, KeyedAlike
<1>9. PICK m \in disk : m.path = q
  BY <1>4, <1>8 DEF Rooted
<1>10. ASSUME NEW n \in disk, Slot(n.path) = Slot(SubSeq(executable, 1, k + 1))
       PROVE  n.path[k + 1] = LauncherName
  <2>1. n = m
    BY <1>8, <1>9, <1>10 DEF DiskOK
  <2>2. p[k + 1] = LauncherName
    BY <1>1, <1>5 DEF Good
  <2>3. QED
    BY <1>8, <1>9, <2>1, <2>2
<1>11. QED
  BY <1>1, <1>6, <1>10 DEF InPlace

\* A change that makes another file the launcher leaves it in its place.
LEMMA Tampering ==
  ASSUME executable \in AllPaths, Reviewed, InPlace, ~touched, NEW D \in Touched
  PROVE  \A n \in D : ~n.dir /\ Slot(n.path) = Slot(executable) => Good(n.path)
<1> DEFINE Without(p) == {n \in disk : \A q \in Nodes[n.path] : Slot(q) # Slot(p)}
           New(p, dir) == [path |-> p, dir |-> dir, size |-> 0, of |-> <<>>]
<1>1. PICK p \in Scribbles :
        /\ D \in {Without(p), Without(p) \cup {New(p, TRUE)}, Without(p) \cup {New(p, FALSE)}}
        /\ \A q \in Parents(p) : \E n \in disk : n.path = q /\ n.dir
  BY DEF Touched
<1>2. PICK k \in Nat : k = Len(PackageRoot)
  BY RootIs
<1>3. p \in AllPaths
  BY StagingAssumption
<1>4. \A n \in D : n \in disk \/ n.path = p
  <2>1. PICK W : W = Without(p)
    OBVIOUS
  <2>2. PICK x, y : x = New(p, TRUE) /\ y = New(p, FALSE)
    OBVIOUS
  <2>3. W \subseteq disk /\ x.path = p /\ y.path = p
    BY <2>1, <2>2
  <2>4. D \in {W, W \cup {x}, W \cup {y}}
    BY <1>1, <2>1, <2>2
  <2>5. QED
    BY <2>3, <2>4
<1> HIDE DEF Without, New
<1>5. ASSUME Slot(p) = Slot(executable)
      PROVE  Good(p)
  <2>1. PICK q : q = SubSeq(p, 1, k + 1)
    OBVIOUS
  <2>2. /\ q \in Parents(p) /\ Slot(q) = Slot(SubSeq(executable, 1, k + 1))
        /\ q[k + 1] = p[k + 1] /\ Len(p) = k + 2 /\ Inside(p)
    BY <1>2, <1>3, <1>5, <2>1, KeyedAlike
  <2>3. PICK m \in disk : m.path = q /\ m.dir
    BY <1>1, <2>2
  <2>4. q[k + 1] = LauncherName
    BY <1>2, <2>2, <2>3 DEF InPlace
  <2>5. QED
    BY <1>2, <2>2, <2>4 DEF Good
<1>6. QED
  BY <1>4, <1>5 DEF InPlace

\* A recovery removes directories with all that is below them.
LEMMA RecoveredIsRooted ==
  ASSUME DiskOK(disk), Rooted(disk), Recover
  PROVE  Rooted(disk')
<1>1. PICK Removed : disk' = {n \in disk : Nodes[n.path] \cap Removed = {}}
  BY DEF Recover
<1>2. ASSUME NEW n \in disk', NEW q \in Parents(n.path)
      PROVE  \E m \in disk' : m.path = q /\ m.dir
  <2>1. n \in disk /\ n.path \in AllPaths /\ Nodes[n.path] \cap Removed = {}
    BY <1>1 DEF DiskOK, Stored
  <2>2. PICK m \in disk : m.path = q /\ m.dir
    BY <2>1 DEF Rooted
  <2>3. Nodes[q] \subseteq Nodes[n.path]
    BY <2>1, NodesAre DEF Parents
  <2>4. m \in disk'
    BY <1>1, <2>1, <2>2, <2>3
  <2>5. QED
    BY <2>2, <2>4
<1>3. QED
  BY <1>2 DEF Rooted

\* A change, below directories that are there, leaves the package rooted.
LEMMA TouchedIsRooted ==
  ASSUME DiskOK(disk), Rooted(disk), NEW D \in Touched
  PROVE  Rooted(D)
<1> DEFINE Without(p) == {n \in disk : \A q \in Nodes[n.path] : Slot(q) # Slot(p)}
           New(p, dir) == [path |-> p, dir |-> dir, size |-> 0, of |-> <<>>]
<1>1. PICK p \in Scribbles :
        /\ D \in {Without(p), Without(p) \cup {New(p, TRUE)}, Without(p) \cup {New(p, FALSE)}}
        /\ \A q \in Parents(p) : \E n \in disk : n.path = q /\ n.dir
  BY DEF Touched
<1>2. p \in AllPaths /\ \A n \in disk : n.path \in AllPaths
  BY StagingAssumption DEF DiskOK, Stored
<1>3. PICK W : W = Without(p)
  OBVIOUS
<1>4. PICK x, y : x = New(p, TRUE) /\ y = New(p, FALSE)
  OBVIOUS
<1>5. x.path = p /\ y.path = p
  BY <1>4
<1>6. D \in {W, W \cup {x}, W \cup {y}}
  BY <1>1, <1>3, <1>4
<1>7. \A n : n \in W <=> n \in disk /\ \A q \in Nodes[n.path] : Slot(q) # Slot(p)
  BY <1>3
<1> HIDE DEF Without, New
<1>8. ASSUME NEW n \in W, NEW q \in Parents(n.path)
      PROVE  \E m \in W : m.path = q /\ m.dir
  <2>1. n \in disk /\ n.path \in AllPaths /\ \A s \in Nodes[n.path] : Slot(s) # Slot(p)
    BY <1>2, <1>7
  <2>2. PICK m \in disk : m.path = q /\ m.dir
    BY <2>1 DEF Rooted
  <2>3. Nodes[q] \subseteq Nodes[n.path]
    BY <2>1, NodesAre DEF Parents
  <2>4. m \in W
    BY <1>7, <2>1, <2>2, <2>3
  <2>5. QED
    BY <2>2, <2>4
<1>9. ASSUME NEW q \in Parents(p)
      PROVE  \E m \in W : m.path = q /\ m.dir
  <2>1. PICK m \in disk : m.path = q /\ m.dir
    BY <1>1
  <2>2. ASSUME NEW s \in Nodes[q]
        PROVE  Slot(s) # Slot(p)
    <3>1. q \in Nodes[p] /\ q \in AllPaths /\ q # p /\ Nodes[q] \subseteq Nodes[p]
          /\ p \in Nodes[p]
      BY <1>2, NodesAre DEF Parents
    <3>2. s \in AllPaths /\ s \in Nodes[p]
      BY <3>1, NodesAre
    <3>3. SUFFICES ASSUME Slot(s) = Slot(p)
                   PROVE  FALSE
      OBVIOUS
    <3>4. s = p
      BY <1>2, <3>1, <3>2, <3>3, NodesDiffer
    <3>5. /\ Len(p) \in 1..Len(q) /\ Len(q) \in 1..Len(p) /\ q = SubSeq(p, 1, Len(q))
      BY <1>2, <3>1, <3>4, NodesAre
    <3>6. p \in Seq(Names) /\ Len(p) \in Nat /\ SubSeq(p, 1, Len(p)) = p
      BY <1>2, PrefixesArePaths
    <3>7. QED
      BY <3>1, <3>5, <3>6
  <2>3. m \in W
    BY <1>7, <2>1, <2>2
  <2>4. QED
    BY <2>1, <2>3
<1>10. \A n \in D : n \in W \/ n.path = p
  BY <1>5, <1>6
<1>11. W \subseteq D
  BY <1>6
<1>12. QED
  BY <1>8, <1>9, <1>10, <1>11 DEF Rooted

\* The launcher keeps its path.
LEMMA PersonalizedIsRooted ==
  ASSUME DiskOK(disk), Rooted(disk),
         disk' = {IF Slot(n.path) = Slot(executable) THEN [n EXCEPT !.of = <<>>] ELSE n :
                    n \in disk}
  PROVE  Rooted(disk')
<1>1. PICK h : h = [n \in disk |-> IF Slot(n.path) = Slot(executable)
                                   THEN [n EXCEPT !.of = <<>>] ELSE n]
  OBVIOUS
<1>2. disk' = {h[n] : n \in disk}
  BY <1>1
<1>3. \A n \in disk : h[n].path = n.path /\ h[n].dir = n.dir
  BY <1>1 DEF DiskOK, Stored
<1>4. ASSUME NEW k \in disk', NEW q \in Parents(k.path)
      PROVE  \E m \in disk' : m.path = q /\ m.dir
  <2>1. PICK n \in disk : k = h[n]
    BY <1>2
  <2>2. q \in Parents(n.path)
    BY <1>3, <2>1
  <2>3. PICK m \in disk : m.path = q /\ m.dir
    BY <2>2 DEF Rooted
  <2>4. h[m] \in disk'
    BY <1>2
  <2>5. QED
    BY <1>3, <2>3, <2>4
<1>5. QED
  BY <1>4 DEF Rooted

\* What has to hold of the launcher at each step: that no review is there before
\* it is taken, that its files are no launchers, and what is reviewed by then.
LauncherInv ==
  phase # "failed" =>
    /\ step \notin Late \/ step \in {"paths", "personalize"} => review = NoSnapshot
    /\ step \in Late => Rooted(disk)
    /\ step \in Late \ {"paths"} => executable \in Executables
    /\ step = "personalize" => Filed(disk) = disk
    /\ step = "validate" => Reviewable(disk) = snapshot
    /\ review # NoSnapshot =>
         /\ Unmarked
         /\ step \in {"snapshot", "validate"} => Marked
         /\ step \in {"compare", "record", "recheck", "check", "commit", "active"} => Reviewed
         /\ step \in {"check", "commit", "active"} => InPlace

\* What was reviewed does not depend on the disk, only on how it takes names.
LEMMA ReviewedStays ==
  ASSUME UNCHANGED <<budget, executable, review, snapshot>>
  PROVE  /\ Reviewed <=> Reviewed'
         /\ Unmarked <=> Unmarked'
<1>1. Installed' = Installed
  BY DEF Installed, Slot
<1>2. ASSUME NEW p
      PROVE  Held(p)' <=> Held(p)
  BY DEF Held, Slot, Alike, Form
<1>3. {p \in Checkpoints : Held(p)}' = {p \in Checkpoints : Held(p)}
  BY <1>2
<1>4. (\E f \in snapshot :
         f.path \in AllPaths /\ Slot(f.path) = Slot(executable) /\ Good(f.path))'
       <=> \E f \in snapshot :
             f.path \in AllPaths /\ Slot(f.path) = Slot(executable) /\ Good(f.path)
  BY DEF Good, Inside, Slot
<1>5. (\A p \in Supports : Held(p))' <=> \A p \in Supports : Held(p)
  BY <1>2
<1>6. Unmarked' <=> Unmarked
  BY DEF Unmarked
<1>7. QED
  BY <1>1, <1>3, <1>4, <1>5, <1>6 DEF Reviewed

\* Neither does the place of the launcher on a disk that stays, or that loses files.
LEMMA MarksStay ==
  ASSUME UNCHANGED <<budget, executable, touched>>, disk' \subseteq disk
  PROVE  /\ Marked => Marked'
         /\ InPlace => InPlace'
<1>1. Marked => Marked'
  BY DEF Marked, Slot
<1>2. ASSUME InPlace
      PROVE  InPlace'
  <2>1. \A p : Slot(p)' = Slot(p)
    BY SlotsStay
  <2>2. \A p : Good(p)' <=> Good(p)
    BY <2>1 DEF Good, Inside, Slot
  <2>3. PICK k, x, y : /\ k = Len(PackageRoot) /\ x = Slot(executable)
                       /\ y = Slot(SubSeq(executable, 1, k + 1))
    OBVIOUS
  <2>4. Slot(executable)' = x /\ Slot(SubSeq(executable, 1, k + 1))' = y
    BY <2>3 DEF Slot
  <2>5. /\ \A n \in disk : ~n.dir /\ Slot(n.path) = x => Good(n.path)
        /\ ~touched => \A n \in disk : n.dir /\ Slot(n.path) = y =>
                                         n.path[k + 1] = LauncherName
    BY <1>2, <2>3 DEF InPlace
  <2>6. \A n \in disk' : ~n.dir /\ Slot(n.path)' = x => Good(n.path)'
    BY <2>1, <2>2, <2>5
  <2>7. ~touched' => \A n \in disk' : n.dir /\ Slot(n.path)' = y =>
                                       n.path[k + 1] = LauncherName
    BY <2>1, <2>5
  <2>8. QED
    BY <2>3, <2>4, <2>6, <2>7 DEF InPlace
<1>3. QED
  BY <1>1, <1>2

\* What is not a launcher is the review when the launcher is marked.
LEMMA Marking ==
  ASSUME DiskOK(disk), Filed(disk) = disk, review' = Payload(executable),
         UNCHANGED <<budget, executable>>,
         disk' = {IF Slot(n.path) = Slot(executable) THEN [n EXCEPT !.of = <<>>] ELSE n :
                    n \in disk}
  PROVE  Unmarked' /\ Marked'
<1>1. PICK q : q = Slot(executable) /\ q = Slot(executable')
  OBVIOUS
<1>2. PICK h : h = [n \in disk |-> IF Slot(n.path) = q THEN [n EXCEPT !.of = <<>>] ELSE n]
  OBVIOUS
<1>3. disk' = {h[n] : n \in disk}
  BY <1>1, <1>2
<1>4. \A n \in disk : h[n].path = n.path /\ (Slot(n.path) = q => h[n].of = <<>>)
  BY <1>2 DEF DiskOK, Stored
<1>5. ASSUME NEW n \in disk', Slot(n.path) = q
      PROVE  n.of = <<>>
  <2>1. PICK m \in disk : n = h[m]
    BY <1>3
  <2>2. Slot(m.path) = q
    BY <1>4, <1>5, <2>1
  <2>3. QED
    BY <1>4, <2>1, <2>2
<1>6. Marked'
  <2>1. \A p : Slot(p)' = Slot(p)
    BY DEF Slot
  <2>2. Slot(executable)' = q
    BY <1>1 DEF Slot
  <2>3. \A n \in disk' : Slot(n.path)' = Slot(n.path)
    BY DEF Slot
  <2>4. QED
    BY <1>5, <2>2, <2>3 DEF Marked
<1>7. ASSUME NEW f \in Payload(executable)
      PROVE  f.of # <<>>
  <2>1. PICK n \in disk : ~n.dir /\ f = [path |-> Rest(n.path), size |-> n.size, of |-> n.of]
    BY PayloadIs
  <2>2. n.of # <<>>
    BY <2>1 DEF Filed
  <2>3. QED
    BY <2>1, <2>2
<1>8. QED
  BY <1>6, <1>7 DEF Unmarked

\* No step of stage, and nobody later on, makes it false.
LEMMA LauncherStep ==
  ASSUME StepInv, StepInv', DiskInv, DiskInv', ReviewedInv, LauncherInv, [Next]_vars
  PROVE  LauncherInv'
<1> USE DEF At, Over, Goto
<1>0. BudgetOK /\ DiskOK(disk) /\ FitsInv /\ Executables \subseteq AllPaths
  BY StagingAssumption DEF DiskInv, ExtractionInv
<1>1. ASSUME phase' = "failed"
      PROVE  LauncherInv'
  BY <1>1 DEF LauncherInv
<1>2. ASSUME NEW error, Fails(error)
      PROVE  LauncherInv'
  BY <1>1, <1>2 DEF Fails, Refuse, Fail
<1>3. ASSUME UNCHANGED <<phase, budget, disk, step, executable, review, snapshot, touched>>
      PROVE  LauncherInv'
  <2>1. Reviewable(disk)' = Reviewable(disk) /\ Filed(disk)' = Filed(disk)
        /\ Rooted(disk') = Rooted(disk)
    BY <1>3
  <2>2. /\ Reviewed <=> Reviewed'
        /\ Unmarked <=> Unmarked'
    BY <1>3, ReviewedStays
  <2>3. /\ Marked => Marked'
        /\ InPlace => InPlace'
    BY <1>3, MarksStay
  <2>4. QED
    BY <1>3, <2>1, <2>2, <2>3 DEF LauncherInv
<1>4. ASSUME phase # "failed", step \notin Late, step' \notin Late, UNCHANGED review
      PROVE  LauncherInv'
  <2>1. review' = NoSnapshot
    BY <1>4 DEF LauncherInv
  <2>2. step' \notin {"paths", "personalize", "validate", "active", "snapshot"}
    BY <1>4 DEF Late
  <2>3. QED
    BY <1>4, <2>1, <2>2 DEF LauncherInv
<1>5. CASE Begin \/ Verify \/ Materialize \/ Clean
  BY <1>4, <1>5 DEF Begin, Verify, Materialize, Clean, Late
<1>6. CASE Request \/ EndOfBody
  BY <1>2, <1>4, <1>6 DEF Request, EndOfBody, Late
<1>7. ASSUME NEW n \in 1..FileLimit, Chunk(n)
      PROVE  LauncherInv'
  BY <1>2, <1>3, <1>7 DEF Chunk, extractionVars
<1>8. CASE Extract
  <2>1. phase \in {"entries", "links"}
    BY <1>8 DEF Extract, Entry, DirectoryEntry, FileEntry, LinkEntry, NextEntry,
       TooManyEntries, SpecialEntry, CommentEntry, EndOfArchive, Follow,
       CopyTarget, Unresolved
  <2>2. step \notin Late /\ step' = step /\ review' = review
    BY <1>8, <2>1 DEF StepInv, Extract, stagingVars
  <2>3. QED
    BY <1>4, <2>1, <2>2
<1>9. CASE EndOfArtifacts
  <2>1. step' = "paths" /\ review' = review /\ step = "begin" /\ phase # "failed"
    BY <1>9 DEF EndOfArtifacts
  <2>2. review' = NoSnapshot
    BY <2>1 DEF LauncherInv, Late
  <2>3. ASSUME phase' # "failed"
        PROVE  Rooted(disk')
    <3>1. phase' = "done"
      BY <2>1, <2>3 DEF StepInv, Late
    <3>2. Complete'
      BY <2>1, <3>1 DEF DiskInv, FitsInv
    <3>3. QED
      BY <3>2 DEF Complete, Rooted
  <2>4. QED
    BY <2>1, <2>2, <2>3 DEF LauncherInv
<1>10. CASE CheckPaths
  <2>1. CASE Fails("executable")
    BY <1>2, <2>1
  <2>2. CASE /\ step = "paths" /\ phase # "failed"
             /\ executable' \in Executables /\ step' \in {"personalize", "snapshot"}
             /\ UNCHANGED <<disk, review, phase, budget>>
    <3>1. review' = NoSnapshot /\ Rooted(disk')
      BY <2>2 DEF LauncherInv, Late
    <3>2. phase = "done"
      BY <2>2 DEF StepInv, Late
    <3>3. Filed(disk) = disk
      BY <1>0, <2>2, <3>2 DEF FitsInv, Complete
    <3>4. Filed(disk') = disk'
      BY <2>2, <3>3
    <3>5. QED
      BY <2>2, <3>1, <3>4 DEF LauncherInv
  <2>3. QED
    BY <1>10, <2>1, <2>2 DEF CheckPaths, extractionVars
<1>11. CASE Personalize
  <2>1. CASE Fails("launcher")
    BY <1>2, <2>1
  <2>2. CASE /\ step = "personalize" /\ phase # "failed" /\ step' = "snapshot"
             /\ review' = Payload(executable) /\ UNCHANGED <<budget, executable>>
             /\ disk' = {IF Slot(n.path) = Slot(executable)
                         THEN [n EXCEPT !.of = <<>>] ELSE n : n \in disk}
    <3>1. Rooted(disk) /\ Filed(disk) = disk /\ executable \in Executables
      BY <2>2 DEF LauncherInv, Late
    <3>2. Unmarked' /\ Marked'
      BY <1>0, <2>2, <3>1, Marking
    <3>3. Rooted(disk')
      BY <1>0, <2>2, <3>1, PersonalizedIsRooted
    <3>4. QED
      BY <2>2, <3>1, <3>2, <3>3 DEF LauncherInv, Late
  <2>3. QED
    BY <1>11, <2>1, <2>2 DEF Personalize
<1>12. CASE TakeSnapshot
  <2>1. CASE Fails("snapshot")
    BY <1>2, <2>1
  <2>2. CASE /\ step = "snapshot" /\ phase # "failed" /\ step' = "validate"
             /\ snapshot' = Snapshot
             /\ UNCHANGED <<budget, disk, executable, review, phase, touched>>
    <3>1. Reviewable(disk') = snapshot'
      BY <1>0, <2>2, SnapshotIs
    <3>2. /\ Rooted(disk) /\ executable \in Executables
          /\ review # NoSnapshot => Unmarked /\ Marked
      BY <2>2 DEF LauncherInv, Late
    <3>3. review' # NoSnapshot => Unmarked' /\ Marked'
      BY <2>2, <3>2, MarksStay DEF Unmarked
    <3>4. QED
      BY <2>2, <3>1, <3>2, <3>3 DEF LauncherInv, Late
  <2>3. QED
    BY <1>12, <2>1, <2>2 DEF TakeSnapshot, extractionVars
<1>13. CASE Validate
  <2>1. CASE Fails("engine")
    BY <1>2, <2>1
  <2>2. CASE /\ step = "validate" /\ phase # "failed" /\ step' = "compare"
             /\ review # NoSnapshot => LauncherAccepts
             /\ UNCHANGED <<budget, disk, executable, review, snapshot>>
    <3>1. /\ Rooted(disk) /\ executable \in Executables /\ Reviewable(disk) = snapshot
          /\ review # NoSnapshot => Unmarked /\ Marked
      BY <2>2 DEF LauncherInv, Late
    <3>2. review # NoSnapshot => Reviewed /\ Unmarked
      BY <1>0, <2>2, <3>1, Validating
    <3>3. review' # NoSnapshot => Reviewed' /\ Unmarked'
      BY <2>2, <3>2, ReviewedStays
    <3>4. QED
      BY <2>2, <3>1, <3>3 DEF LauncherInv, Late
  <2>3. QED
    BY <1>13, <2>1, <2>2 DEF Validate, extractionVars
<1>14. ASSUME phase # "failed",
              step \in {"compare", "record", "recheck", "check", "commit", "active"},
              step' \in {"compare", "record", "recheck", "check", "commit", "active"},
              Rooted(disk'), UNCHANGED <<budget, executable, review, snapshot>>,
              review # NoSnapshot /\ step' \in {"check", "commit", "active"} => InPlace'
       PROVE  LauncherInv'
  <2>1. /\ executable \in Executables
        /\ review # NoSnapshot => Reviewed /\ Unmarked
    BY <1>14 DEF LauncherInv, Late
  <2>2. review' # NoSnapshot => Reviewed' /\ Unmarked'
    BY <1>14, <2>1, ReviewedStays
  <2>3. QED
    BY <1>14, <2>1, <2>2 DEF LauncherInv, Late
<1>15. ASSUME phase # "failed", step \in Late
       PROVE  (Rooted(disk) /\ executable \in Executables) \/ step = "paths"
  BY <1>15 DEF LauncherInv
<1>16. CASE Compare
  <2>1. CASE /\ phase # "failed" /\ step = "compare" /\ step' = "record"
             /\ UNCHANGED <<budget, disk, executable, review, snapshot>>
    BY <1>14, <1>15, <2>1 DEF Late
  <2>2. QED
    BY <1>2, <1>16, <2>1 DEF Compare, extractionVars
<1>17. CASE Record
  <2>1. CASE /\ phase # "failed" /\ step = "record" /\ step' = "recheck"
             /\ Exists(Manifest) = "none" /\ disk' = WithFile(Manifest, 0, Manifest)
             /\ UNCHANGED <<budget, executable, review, snapshot>>
    BY <1>0, <1>14, <1>15, <2>1, Recording DEF Late
  <2>2. QED
    BY <1>2, <1>17, <2>1 DEF Record
<1>25. CASE Recheck
  <2>1. CASE /\ phase # "failed" /\ step = "recheck" /\ step' = "check"
             /\ Snapshot = snapshot
             /\ UNCHANGED <<budget, disk, executable, review, snapshot, touched>>
    <3>1. /\ Rooted(disk) /\ executable \in AllPaths
          /\ review # NoSnapshot => Reviewed
      BY <1>0, <2>1 DEF LauncherInv, Late
    <3>2. Reviewable(disk) = snapshot
      BY <1>0, <2>1, SnapshotIs
    <3>3. review # NoSnapshot => InPlace
      BY <1>0, <3>1, <3>2, Placing
    <3>4. review # NoSnapshot => InPlace'
      BY <2>1, <3>3, MarksStay
    <3>5. QED
      BY <1>14, <2>1, <3>1, <3>4
  <2>2. QED
    BY <1>2, <1>25, <2>1 DEF Recheck, extractionVars
<1>18. CASE Check \/ Commit
  <2>1. /\ phase # "failed" /\ step \in {"check", "commit"}
        /\ step' \in {"commit", "active"}
        /\ UNCHANGED <<budget, disk, executable, review, snapshot, touched>>
    BY <1>18 DEF Check, Commit, extractionVars
  <2>2. /\ Rooted(disk) /\ (review # NoSnapshot => InPlace)
    BY <2>1 DEF LauncherInv, Late
  <2>3. review # NoSnapshot => InPlace'
    BY <2>1, <2>2, MarksStay
  <2>4. QED
    BY <1>14, <2>1, <2>2, <2>3
<1>20. CASE EngineWrites \/ Tamper
  <2>1. /\ step \in {"compare", "record", "recheck", "check", "commit", "active"}
        /\ step' = step /\ ~touched /\ disk' \in Touched
        /\ step \in {"check", "commit", "active"} => touched'
        /\ UNCHANGED <<phase, budget, executable, review, snapshot>>
    BY <1>20 DEF EngineWrites, Tamper
  <2>2. phase # "failed"
    BY <1>20 DEF EngineWrites, Tamper, StepInv
  <2>3. /\ Rooted(disk) /\ executable \in Executables
        /\ review # NoSnapshot => Reviewed
        /\ review # NoSnapshot /\ step \in {"check", "commit", "active"} => InPlace
    BY <2>1, <2>2 DEF LauncherInv, Late
  <2>4. Rooted(disk')
    BY <1>0, <2>1, <2>3, TouchedIsRooted
  <2>5. review # NoSnapshot /\ step' \in {"check", "commit", "active"} => InPlace'
    <3>1. ASSUME review # NoSnapshot, step \in {"check", "commit", "active"},
                 NEW n \in disk', ~n.dir, Slot(n.path) = Slot(executable)
          PROVE  Good(n.path)
      BY <1>0, <2>1, <2>3, <3>1, Tampering
    <3>2. QED
      BY <2>1, <3>1 DEF InPlace, Good, Inside, Slot
  <2>6. QED
    BY <1>14, <2>1, <2>2, <2>4, <2>5
<1>21. CASE Recover
  <2>1. /\ step = "active" /\ step' = "active" /\ disk' \subseteq disk
        /\ UNCHANGED <<phase, budget, executable, review, snapshot, touched>>
    BY <1>21 DEF Recover, stagingVars
  <2>2. phase # "failed"
    BY <2>1 DEF StepInv
  <2>3. Rooted(disk) /\ (review # NoSnapshot => InPlace)
    BY <2>1, <2>2 DEF LauncherInv, Late
  <2>4. Rooted(disk')
    BY <1>0, <1>21, <2>3, RecoveredIsRooted
  <2>5. review # NoSnapshot => InPlace'
    BY <2>1, <2>3, MarksStay
  <2>6. QED
    BY <1>14, <2>1, <2>2, <2>4, <2>5
<1>22. CASE Cancelled \/ Breaks
  BY <1>2, <1>22 DEF Cancelled, Breaks
<1>23. CASE RequestCancel \/ UNCHANGED vars
  BY <1>3, <1>23 DEF RequestCancel, vars, extractionVars, stagingVars
<1>24. QED
  BY <1>5, <1>6, <1>7, <1>8, <1>9, <1>10, <1>11, <1>12, <1>13, <1>16, <1>17, <1>18,
     <1>20, <1>21, <1>22, <1>23, <1>25 DEF Next, Stage, Ended

-----------------------------------------------------------------------------
(* The invariant                                                            *)

\* The inductive invariant of stage.
Inv ==
  StepInv /\ DiskInv /\ ReviewedInv /\ ProgressInv /\ TypeInv /\ LauncherInv

\* Nothing is staged at first.
LEMMA Initially ==
  ASSUME Init
  PROVE  Inv
<1>1. package \in Candidates /\ Len(package) \in 1..Artifacts /\ index = 1
      /\ step = "begin"
  BY DEF Init, Valid
<1>2. phase = "package"
      /\ disk = {[path |-> <<Downloads>>, dir |-> TRUE, size |-> 0, of |-> <<>>]}
  BY DEF Init, ExtractionInit
<1>3. StepInv
  <2>1. Len(package) \in Nat /\ Len(package) <= Artifacts
    BY <1>1, ExtractionAssumption
  <2>2. QED
    BY <1>1, <1>2, <2>1 DEF StepInv, Steps, Late, AtArtifact
<1>4. DiskInv
  <2>1. ExtractionInv
    BY EmptyPackage DEF Init
  <2>2. DiskOK(disk)
    BY <1>2, <2>1 DEF ExtractionInv, Packing, Balanced
  <2>3. PartOK
    BY <1>1, <1>2 DEF PartOK, Parted, Filed
  <2>4. FitsInv
    BY <1>2 DEF FitsInv
  <2>5. QED
    BY <2>1, <2>2, <2>3, <2>4 DEF DiskInv
<1>5. ReviewedInv
  BY <1>1 DEF ReviewedInv
<1>6. ProgressInv
  <2>1. shown.bytes = 0 /\ body = NoBody
    BY DEF Init
  <2>2. Total \in Nat /\ Bytes(package, index - 1) \in Nat
    BY <1>3, BytesHere
  <2>3. body.received = 0 /\ body \in [received: Nat, reported: Nat]
    BY <2>1 DEF NoBody
  <2>4. QED
    BY <1>1, <2>1, <2>2, <2>3 DEF ProgressInv
<1>7. TypeInv
  BY DEF Init, TypeInv
<1>8. LauncherInv
  BY <1>1 DEF Init, LauncherInv, Late
<1>9. QED
  BY <1>3, <1>4, <1>5, <1>6, <1>7, <1>8 DEF Inv

\* The invariant holds in every behaviour of stage (install.rs, stage) and of
\* the recoveries after it.
THEOREM StagingInvariance == Spec => []Inv
<1>1. Init => Inv
  BY Initially
<1>2. Inv /\ [Next]_vars => Inv'
  <2>1. SUFFICES ASSUME Inv, [Next]_vars
                 PROVE  Inv'
    OBVIOUS
  <2>2. /\ StepInv /\ DiskInv /\ ReviewedInv /\ ProgressInv /\ TypeInv /\ LauncherInv
        /\ DiskOK(disk) /\ ExtractionInv
    BY <2>1 DEF Inv, DiskInv
  <2>3. StepInv' /\ DiskInv'
    BY <2>1, <2>2, StepsStep, DiskStep
  <2>4. ReviewedInv' /\ ProgressInv' /\ TypeInv'
    BY <2>1, <2>2, ReviewStep, ProgressStep, TypeStep
  <2>5. LauncherInv'
    BY <2>1, <2>2, <2>3, LauncherStep
  <2>6. QED
    BY <2>3, <2>4, <2>5 DEF Inv
<1>3. QED
  BY <1>1, <1>2, PTL DEF Spec

-----------------------------------------------------------------------------
(* What follows                                                             *)

\* Every variable has its type; the counters of the budget and of the archive
\* stay within the limits, and no report claims more than was declared.
THEOREM StagingTypes == Spec => []TypeOK
<1>1. Inv => TypeOK
  <2>1. SUFFICES ASSUME Inv
                 PROVE  TypeOK
    OBVIOUS
  <2>2. StepInv /\ ExtractionInv /\ DiskOK(disk) /\ ProgressInv /\ TypeInv
    BY <2>1 DEF Inv, DiskInv
  <2>3. ExtractionTypeOK
    <3>1. FailureOK /\ BudgetOK /\ ArchiveOK /\ WalkOK /\ TakenOK
      BY <2>2 DEF ExtractionInv
    <3>2. \A n \in disk : n.path \in AllPaths
      BY <2>2 DEF DiskOK, Stored
    <3>3. QED
      BY <3>1, <3>2 DEF FailureOK, BudgetOK, Budgets, ArchiveOK, Archives, WalkOK,
         TakenOK, ExtractionTypeOK
  <2>4. /\ step \in Steps /\ package \in Candidates
        /\ index \in 1..(Len(package) + 1)
        /\ body \in [received: Nat, reported: Nat]
        /\ shown.bytes \in 0..Total
    BY <2>2 DEF StepInv, ProgressInv
  <2>5. QED
    BY <2>2, <2>3, <2>4 DEF TypeOK, TypeInv
<1>2. QED
  BY <1>1, StagingInvariance, PTL

\* What is on disk is what the budget has accounted for (extract.rs,
\* reserve_path and what is created after it): entry by entry and byte by byte,
\* by the name that the file system takes for it.
THEOREM StagedIsAccounted == Spec => []Accounted
<1> DEFINE Slots(nodes) == {[path |-> Slot(n.path), dir |-> n.dir] : n \in
                              {k \in nodes : ~(InDownloads(k) /\ Len(k.path) = 1)}}
<1>1. Inv => Accounted
  <2>1. SUFFICES ASSUME Inv, Staged
                 PROVE  /\ Slots(Filed(disk)) = Slots(budget.nodes)
                        /\ Cardinality(budget.nodes) = budget.entries
                        /\ Size(Filed(disk)) = budget.bytes
                        /\ step = "paths" => \A n \in disk : ~InDownloads(n)
    BY DEF Accounted, Filed
  <2>2. /\ StepInv /\ ExtractionInv /\ DiskOK(disk) /\ FitsInv /\ BudgetOK
        /\ phase # "failed"
    BY <2>1 DEF Inv, DiskInv, ExtractionInv, Staged
  <2>3. Accounts /\ (step = "paths" => \A n \in disk : ~InDownloads(n))
    <3>1. CASE phase = "done"
      <4>1. step = "paths"
        BY <2>1, <2>2, <3>1 DEF StepInv, Late, Staged
      <4>2. QED
        BY <2>2, <3>1, <4>1 DEF FitsInv, Complete
    <3>2. CASE phase # "done"
      <4>1. Packing
        BY <2>2, <3>2 DEF StepInv, Packing
      <4>2. step # "paths"
        BY <2>2, <3>2 DEF StepInv, Late
      <4>3. QED
        BY <2>2, <4>1, <4>2 DEF ExtractionInv, Balanced
    <3>3. QED
      BY <3>1, <3>2
  <2>4. /\ \A b \in budget.nodes : b.path \in AllPaths
        /\ \A n \in Filed(disk) : n.path \in AllPaths
    BY <2>2 DEF BudgetOK, Budgets, Node, DiskOK, Stored, Filed
  <2>5. ASSUME NEW m, NEW n, m.path \in AllPaths, n.path \in AllPaths, Same(m, n)
        PROVE  Top(m) <=> Top(n)
    BY <2>5, Tops DEF Same
  <2>6. ASSUME NEW n \in Filed(disk), ~Top(n)
        PROVE  \E b \in budget.nodes : ~Top(b) /\ Same(b, n)
    BY <2>3, <2>4, <2>5, <2>6 DEF Accounts
  <2>7. ASSUME NEW b \in budget.nodes, ~Top(b)
        PROVE  \E n \in Filed(disk) : ~Top(n) /\ Same(b, n)
    BY <2>3, <2>4, <2>5, <2>7 DEF Accounts
  <2>8. \A x, N : x \in Slots(N) <=>
          \E n \in N : ~Top(n) /\ x = [path |-> Slot(n.path), dir |-> n.dir]
    BY DEF Top
  <2>9. Slots(Filed(disk)) \subseteq Slots(budget.nodes)
    BY <2>6, <2>8 DEF Same
  <2>10. Slots(budget.nodes) \subseteq Slots(Filed(disk))
    BY <2>7, <2>8 DEF Same
  <2>11. QED
    BY <2>2, <2>3, <2>9, <2>10 DEF BudgetOK, Accounts
<1>2. QED
  BY <1>1, StagingInvariance, PTL

\* Collisions and limits are found before anything is created (extract.rs,
\* reserve_path and CollisionGuard::insert before each create), whatever the
\* archives hold, unless the file system takes for one two names that to_lowercase
\* keeps apart, or an artifact goes into .downloads.
THEOREM CollisionsAreFoundInTime == Spec => []NeverTooLate
<1>1. Inv => NeverTooLate
  BY DEF Inv, DiskInv, ExtractionInv, FailureOK, Trespassed, NeverTooLate
<1>2. QED
  BY <1>1, StagingInvariance, PTL

\* A link of a tar archive that is done has become a copy of the file that its
\* chain ends at (extract.rs, resolve_tar_link).
THEOREM LinksBecomeFiles == Spec => []LinksAreTheirTargets
<1>1. Inv => LinksAreTheirTargets
  BY DEF Inv, DiskInv, ExtractionInv
<1>2. QED
  BY <1>1, StagingInvariance, PTL

\* A link whose chain ends at a file is never refused as cyclic or unresolved,
\* in whatever order the entries come (extract.rs, resolve_tar_link).
THEOREM GoodLinksAreKept == Spec => OnlyBadLinksAreRefused
<1> DEFINE A == phase = "links" /\ failure' = "unresolved" =>
                  \A file \in archive.files :
                    ~LinksTo(Head(archive.pending), file.path)
<1>1. Inv /\ [Next]_vars => [A]_extractionVars
  <2>1. SUFFICES ASSUME Inv, Next, phase = "links", failure' = "unresolved"
                 PROVE  \A file \in archive.files :
                          ~LinksTo(Head(archive.pending), file.path)
    BY DEF vars
  <2>2. /\ StepInv /\ ExtractionInv /\ step = "clean"
        /\ failure \in {"none"} /\ DOMAIN archive.pending = DOMAIN archive.pending
    BY <2>1 DEF Inv, DiskInv, StepInv, ExtractionInv, FailureOK
  <2>3. Unresolved
    <3>1. ASSUME NEW error, error # "unresolved"
          PROVE  ~Refuse(error) /\ ~Fails(error)
      BY <2>1, <3>1 DEF Refuse, Fail, Fails
    <3>2. failure' # failure
      BY <2>1, <2>2
    <3>3. Entry
      <4>1. ~Begin /\ ~Request /\ ~EndOfBody /\ ~Verify /\ ~Materialize
            /\ (\A n \in 1..FileLimit : ~Chunk(n))
        BY <2>2 DEF Begin, Request, EndOfBody, Verify, Materialize, Chunk, At
      <4>2. ~Clean /\ ~EndOfArtifacts /\ ~CheckPaths /\ ~Personalize /\ ~TakeSnapshot
        BY <2>1, <2>2 DEF Clean, EndOfArtifacts, CheckPaths, Personalize,
           TakeSnapshot, At
      <4>3. ~Validate /\ ~Compare /\ ~Record /\ ~Recheck /\ ~Check /\ ~Commit
        BY <2>2 DEF Validate, Compare, Record, Recheck, Check, Commit, At
      <4>4. ~Cancelled /\ ~Breaks
        BY <3>1 DEF Cancelled, Breaks
      <4>5. ~RequestCancel /\ ~EngineWrites /\ ~Tamper /\ ~Recover /\ ~Ended
        BY <2>2, <3>2 DEF RequestCancel, EngineWrites, Tamper, Recover, Ended, vars,
           extractionVars
      <4>6. QED
        BY <2>1, <4>1, <4>2, <4>3, <4>4, <4>5 DEF Next, Stage, Extract
    <3>4. ASSUME NEW a, NEW b
          PROVE  First(<<a, b>>) \in {"none", a, b}
      BY FirstOfTwo
    <3>5. ~EndOfArchive /\ ~Follow /\ ~CommentEntry /\ ~SpecialEntry /\ ~TooManyEntries
      BY <2>1, <3>1, <3>2 DEF EndOfArchive, Follow, CommentEntry, SpecialEntry,
         TooManyEntries, NextEntry
    <3>6. /\ \A p \in Paths : ~DirectoryEntry(p)
          /\ \A p \in Paths : \A size \in Sizes : ~FileEntry(p, size)
          /\ \A p \in Paths : \A text \in LinkTexts : ~LinkEntry(p, text)
      BY <2>1 DEF DirectoryEntry, FileEntry, LinkEntry, NextEntry
    <3>7. ~CopyTarget
      <4>1. ASSUME CopyTarget
            PROVE  FALSE
        <5>1. PICK file \in archive.files : \E p :
                LET error == First(<<BudgetError(p, FALSE, file.size), Exists(p)>>) IN
                Refuse(error) \/ failure' = failure
          BY <4>1 DEF CopyTarget
        <5>2. PICK p :
                LET error == First(<<BudgetError(p, FALSE, file.size), Exists(p)>>) IN
                Refuse(error) \/ failure' = failure
          BY <5>1
        <5>3. /\ BudgetError(p, FALSE, file.size) # "unresolved"
              /\ Exists(p) # "unresolved"
          BY ErrorsAre
        <5>4. First(<<BudgetError(p, FALSE, file.size), Exists(p)>>) # "unresolved"
          BY <3>4, <5>3
        <5>5. QED
          BY <3>1, <3>2, <5>2, <5>4
      <4>2. QED
        BY <4>1
    <3>8. QED
      BY <3>3, <3>5, <3>6, <3>7 DEF Entry
  <2>4. LeadsNowhere
    BY <2>3 DEF Unresolved
  <2>5. QED
    BY <2>1, <2>2, <2>4, RefusedLinks
<1>2. QED
  BY <1>1, StagingInvariance, PTL DEF Spec, OnlyBadLinksAreRefused

\* A progress report (install.rs, report_progress) never goes back, and never
\* claims a byte that was not received, through all artifacts and phases.
THEOREM ProgressNeverLies == Spec => ProgressIsHonest
<1> DEFINE A == /\ shown'.bytes >= shown.bytes
                /\ shown'.bytes <= Bytes(package, index' - 1) + body'.received
<1>1. Inv /\ [Next]_vars => [A]_vars
  BY ProgressStep DEF Inv, DiskInv, Reporting
<1>2. QED
  BY <1>1, StagingInvariance, PTL DEF Spec, ProgressIsHonest

\* A package becomes active with the files that were reviewed before its engine
\* ran and with the manifest of stage, whatever the archives held and whatever the
\* engine and the processes it leaves behind changed before the last of three
\* comparisons, and keeps them until somebody changes it, or a recovery takes a
\* directory in it for a staging directory (install.rs, stage and recover).
THEOREM StagedAsReviewed == Spec => []ActiveAsReviewed
<1>1. Inv => ActiveAsReviewed
  <2>1. ASSUME Inv, step = "active", ~touched
        PROVE  \/ /\ Snapshot = snapshot
                  /\ \E n \in TheManifest : ~n.dir /\ n.of = Manifest
               \/ Perishable
    <3>1. (Reviewable(disk) = snapshot /\ HasManifest(disk)) \/ Perishable
      BY <2>1 DEF Inv, ReviewedInv, StepInv
    <3>2. Snapshot = Reviewable(disk)
      BY <2>1, SnapshotIs DEF Inv, DiskInv
    <3>3. HasManifest(disk) => \E n \in TheManifest : ~n.dir /\ n.of = Manifest
      BY DEF HasManifest, TheManifest
    <3>4. QED
      BY <3>1, <3>2, <3>3
  <2>2. QED
    BY <2>1 DEF ActiveAsReviewed, Perishable
<1>2. QED
  BY <1>1, StagingInvariance, PTL

\* An installed Maia3 launcher starts exactly as long as what is below its root,
\* itself aside, is what was installed, and no directory is in the place of a
\* model: whatever was changed, one path at a time, and whatever a recovery removed
\* (uci-grabber-maia3-launcher.rs, run; install.rs, personalize_maia_launcher).
THEOREM LauncherTellsChanges == Spec => []LauncherTells
<1>1. Inv => LauncherTells
  <2>1. SUFFICES ASSUME Inv, step = "active", review # NoSnapshot, IsFile(executable)
                 PROVE  LauncherAccepts <=>
                          /\ Payload(Spelled(executable)) = Installed
                          /\ \A p \in Checkpoints : ~IsDirectory(PackageRoot \o p)
    BY DEF LauncherTells, Installed
  <2>2. DiskOK(disk) /\ LauncherInv /\ phase # "failed"
    BY <2>1 DEF Inv, DiskInv, StepInv
  <2>3. executable \in Executables /\ Reviewed /\ InPlace
    BY <2>1, <2>2 DEF LauncherInv, Late
  <2>4. executable \in AllPaths
    BY <2>3, StagingAssumption
  <2>5. \A n \in disk : ~n.dir /\ Slot(n.path) = Slot(executable) => Good(n.path)
    BY <2>3 DEF InPlace
  <2>6. QED
    BY <2>1, <2>2, <2>3, <2>4, <2>5, Launching
<1>2. QED
  BY <1>1, StagingInvariance, PTL
=============================================================================
