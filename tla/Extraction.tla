----------------------------- MODULE Extraction -----------------------------
(***************************************************************************)
(* extract.rs: the artifacts of a package, raw files or archives, are      *)
(* materialized one after the other in a staging directory, under one      *)
(* budget of entries and bytes.  Every path is checked against the paths   *)
(* before it, twice: against the archive's own (CollisionGuard) and        *)
(* against the package's (ExtractionBudget), before anything is created.   *)
(* Symbolic links of a tar archive wait until its other entries are done   *)
(* and then become copies of the regular files their chains end at.        *)
(*                                                                         *)
(* The staging directory also holds the directory .downloads, which the    *)
(* budget does not know and which has to be empty in the end (install.rs). *)
(*                                                                         *)
(* A path is a sequence of names.  Which names are one, the checks know    *)
(* from to_lowercase (Key), the file system from a folding of its own      *)
(* (Slot): APFS and NTFS have others, and names need not be ASCII.  A      *)
(* file's content is the entry that it was written from.  Staging puts the *)
(* steps together.                                                         *)
(***************************************************************************)
EXTENDS Naturals, Sequences, FiniteSets, SequencesExt

CONSTANTS
  Names,
  Fold,          \* Fold[name]: what to_lowercase makes of a name
  Spells,        \* Spells[folds][name]: what the file system takes a name for,
                 \* by whether the probe has found that it folds
  Downloads,     \* the name .downloads
  Paths,         \* paths that archive entries may have
  LinkTexts,     \* what link targets say: names, Here and Up
  Here, Up,      \* . and ..
  Destinations,  \* paths that artifacts may have
  Sizes,
  FileLimit,     \* MAX_ARCHIVE_ENTRY_BYTES, 1 GiB
  ByteLimit,     \* MAX_EXTRACTED_BYTES, 2 GiB
  EntryLimit,    \* MAX_ARCHIVE_ENTRIES, 40,000
  Artifacts      \* at most this many, 16 in a recipe

ASSUME ExtractionAssumption ==
  /\ Fold \in [Names -> Names]
  /\ Spells \in [BOOLEAN -> [Names -> Names]]
  /\ Paths # {} /\ Paths \cup Destinations \subseteq Seq(Names) \ {<<>>}
  /\ Downloads \in Names
  /\ Here \notin Names /\ Up \notin Names
  /\ LinkTexts \subseteq Seq(Names \cup {Here, Up})
  /\ {FileLimit, ByteLimit, EntryLimit, Artifacts} \cup Sizes \subseteq Nat

VARIABLES
  phase,
  failure,   \* why the package was refused
  budget,    \* ExtractionBudget
  archive,   \* the archive being extracted: what extract_tar keeps of it
  walk,      \* resolve_tar_link of the first pending link: where it is
  taken,     \* the folded destinations of the artifacts up to this one
  disk       \* what is in the staging directory

extractionVars == <<phase, failure, budget, archive, walk, taken, disk>>

AllPaths == Seq(Names) \ {<<>>}

\* A path and its parents.
Nodes == [p \in AllPaths |-> {SubSeq(p, 1, n) : n \in 1..Len(p)}]

Parents(p) == Nodes[p] \ {p}

FoldAll == [p \in Seq(Names) |-> [n \in DOMAIN p |-> Fold[p[n]]]]

\* portable_path: paths with the same key are one to the checks.
Key(p) == IF budget.folds THEN FoldAll[p] ELSE p

\* Paths with the same slot are one to the file system.
Slot(p) == [n \in DOMAIN p |-> Spells[budget.folds][p[n]]]

\* The file system takes for one two names that the checks keep apart.
Misjudged ==
  \E x, y \in Names : /\ Slot(<<x>>) = Slot(<<y>>)
                      /\ Key(<<x>>) # Key(<<y>>)

Known(nodes, p) == {n \in nodes : Key(n.path) = Key(p)}

OnDisk(p) == {n \in disk : Slot(n.path) = Slot(p)}

\* What they take up together.
Size(nodes) == MapThenSumSet(LAMBDA n : n.size, nodes)

Node == [path: AllPaths, dir: BOOLEAN]

Link == [from: Paths, to: Seq(Names)]

File == [path: Paths, size: Sizes]

Failures ==
  {"none", "collision", "limit", "link", "unresolved", "special", "exists",
   "downloads", "broken", "cancelled", "download", "executable", "launcher",
   "snapshot", "engine", "changed", "manifest"}

ExtractionTypeOK ==
  /\ phase \in {"package", "entries", "links", "done", "failed"}
  /\ failure \in Failures /\ (failure # "none" <=> phase = "failed")
  /\ budget \in [folds: BOOLEAN, nodes: SUBSET Node, entries: 0..EntryLimit,
                 bytes: 0..ByteLimit]
  /\ archive \in [destination: Destinations \cup {<<>>},
                  format: {"none", "zip", "tar"}, count: 0..EntryLimit,
                  named: SUBSET Seq(Names), nodes: SUBSET Node,
                  directories: SUBSET AllPaths,
                  files: SUBSET File, links: SUBSET Link,
                  pending: Seq(Paths)]
  /\ walk \in [at: Paths \cup {<<>>}, visited: SUBSET Paths]
  /\ Cardinality(taken) <= Artifacts
  /\ \A n \in disk : n.path \in AllPaths

NoArchive ==
  [destination |-> <<>>, format |-> "none", count |-> 0, named |-> {},
   nodes |-> {}, directories |-> {}, files |-> {}, links |-> {},
   pending |-> <<>>]

NoWalk == [at |-> <<>>, visited |-> {}]

EmptyBudget(folds) ==
  [folds |-> folds, nodes |-> {}, entries |-> 0, bytes |-> 0]

\* for_generation asks the file system whether it folds.
ExtractionInit ==
  /\ phase = "package" /\ failure = "none"
  /\ budget \in {EmptyBudget(folds) : folds \in BOOLEAN}
  /\ archive = NoArchive
  /\ walk = NoWalk
  /\ taken = {}
  /\ disk = {[path |-> <<Downloads>>, dir |-> TRUE, size |-> 0, of |-> <<>>]}

-----------------------------------------------------------------------------
(* Checks                                                                   *)

\* Mutant: parents are not looked at.
ClashesAtEnd(nodes, p, isDir) ==
  \E n \in Known(nodes, p) : n.path # p \/ ~n.dir \/ ~isDir

\* A file where there is anything, anything below a file, or a path that is
\* spelled otherwise than the one it is the same as.
Clashes(nodes, p, isDir) ==
  \E q \in Nodes[p] : \E n \in Known(nodes, q) :
    n.path # q \/ ~n.dir \/ (q = p /\ ~isDir)

\* Mutant: parents created on the way are not charged.
AddedAtEnd(nodes, p, isDir) ==
  {[path |-> q, dir |-> isDir] : q \in {r \in {p} : Known(nodes, r) = {}}}

Added(nodes, p, isDir) ==
  {[path |-> q, dir |-> q # p \/ isDir] :
     q \in {r \in Nodes[p] : Known(nodes, r) = {}}}

\* Mutant: the limits are those of one artifact.
BudgetUnbounded(p, isDir, size) ==
  IF Clashes(budget.nodes, p, isDir) THEN "collision"
  ELSE IF \/ Cardinality(Added(budget.nodes, p, isDir)) > EntryLimit
          \/ size > ByteLimit
       THEN "limit"
       ELSE "none"

\* reserve_path: the error, if any, and the budget after it.
BudgetError(p, isDir, size) ==
  IF Clashes(budget.nodes, p, isDir) THEN "collision"
  ELSE IF \/ budget.entries + Cardinality(Added(budget.nodes, p, isDir))
               > EntryLimit
          \/ budget.bytes + size > ByteLimit
       THEN "limit"
       ELSE "none"

Reserved(p, isDir, size) ==
  [budget EXCEPT !.nodes = @ \cup Added(@, p, isDir),
                 !.entries = @ + Cardinality(Added(budget.nodes, p, isDir)),
                 !.bytes = @ + size]

\* CollisionGuard::insert.
GuardError(p, isDir) ==
  IF Key(p) \in archive.named \/ Clashes(archive.nodes, p, isDir)
  THEN "collision" ELSE "none"

\* The archive with entry p counted, recorded and guarded.
Entered(p, isDir) ==
  [archive EXCEPT !.count = @ + 1,
                  !.named = @ \cup {Key(p)},
                  !.nodes = @ \cup Added(@, p, isDir),
                  !.directories = @ \cup Parents(p) \cup
                                    {q \in {p} : isDir}]

\* The first of several checks that fails.
First(errors) ==
  IF \A n \in DOMAIN errors : errors[n] = "none" THEN "none"
  ELSE errors[CHOOSE n \in DOMAIN errors :
                /\ errors[n] # "none"
                /\ \A k \in 1..(n - 1) : errors[k] = "none"]

TooLarge(size) == IF size > FileLimit THEN "limit" ELSE "none"

\* The variables of stage are gone.  So is the staging directory, unless it cannot
\* be removed: nobody looks at what remove_dir_all says.
Fail(error) ==
  /\ phase' = "failed"
  /\ failure' = error
  /\ budget' = EmptyBudget(budget.folds)
  /\ archive' = NoArchive
  /\ walk' = NoWalk
  /\ disk' \in {{}, disk}

Refuse(error) == Fail(error) /\ UNCHANGED taken

-----------------------------------------------------------------------------
(* The staging directory                                                    *)

\* p as it is spelled on disk: the directories that are there keep their names.
Located(p) ==
  LET there == UNION {OnDisk(q) : q \in Nodes[p]}
      last == CHOOSE n \in there : \A m \in there : Len(m.path) <= Len(n.path) IN
  IF there = {} THEN p
  ELSE last.path \o SubSeq(p, Len(last.path) + 1, Len(p))

\* create_dir_all, which takes directories that are there by any spelling and
\* fails at a file.
BelowFile(p) ==
  IF \E q \in Nodes[p] : \E n \in OnDisk(q) : ~n.dir
  THEN "exists" ELSE "none"

WithDirectories(paths) ==
  disk \cup {[path |-> Located(q), dir |-> TRUE, size |-> 0, of |-> <<>>] :
               q \in {r \in paths : OnDisk(r) = {}}}

\* create_dir_all for the parents, create_new for the file, and the copy.
Exists(p) == IF OnDisk(p) # {} THEN "exists" ELSE BelowFile(p)

WithFile(p, size, of) ==
  WithDirectories(Parents(p)) \cup
    {[path |-> Located(p), dir |-> FALSE, size |-> size, of |-> of]}

-----------------------------------------------------------------------------
(* Artifacts                                                                *)

\* validate_destination_collisions folds on every file system.
NextArtifact(p) ==
  /\ phase = "package"
  /\ Cardinality(taken) < Artifacts
  /\ FoldAll[p] \notin taken
  /\ taken' = taken \cup {FoldAll[p]}

\* copy_raw.
Raw(p, size) ==
  LET error == First(<<TooLarge(size), BudgetError(p, FALSE, size), Exists(p)>>)
  IN
  /\ NextArtifact(p)
  /\ \/ error # "none" /\ Fail(error)
     \/ /\ error = "none"
        /\ budget' = Reserved(p, FALSE, size)
        /\ disk' = WithFile(p, size, p)
        /\ UNCHANGED <<phase, failure, archive, walk>>

\* The start of extract_zip and extract_tar.
Open(p, format) ==
  LET error == First(<<BudgetError(p, TRUE, 0), BelowFile(p)>>) IN
  /\ NextArtifact(p)
  /\ \/ error # "none" /\ Fail(error)
     \/ /\ error = "none"
        /\ budget' = Reserved(p, TRUE, 0)
        /\ disk' = WithDirectories(Nodes[p])
        /\ phase' = "entries"
        /\ archive' = [NoArchive EXCEPT !.destination = p, !.format = format]
        /\ UNCHANGED <<failure, walk>>

InDownloads(n) == Slot(<<n.path[1]>>) = Slot(<<Downloads>>)

\* remove_dir of .downloads, which fails if something is in it.
Done ==
  /\ phase = "package"
  /\ taken # {}
  /\ \/ /\ \E n \in disk : InDownloads(n) /\ Len(n.path) > 1
        /\ Refuse("downloads")
     \/ /\ \A n \in disk : InDownloads(n) => Len(n.path) = 1
        /\ phase' = "done"
        /\ disk' = {n \in disk : ~InDownloads(n)}
        /\ UNCHANGED <<failure, budget, archive, walk, taken>>

-----------------------------------------------------------------------------
(* Entries of an archive                                                    *)

Output(p) == archive.destination \o p

\* A ZIP archive tells its number of entries before the first of them.
TooManyEntries ==
  /\ phase = "entries"
  /\ archive.count = IF archive.format = "tar" THEN EntryLimit ELSE 0
  /\ Refuse("limit")

NextEntry == phase = "entries" /\ archive.count < EntryLimit

DirectoryEntry(p) ==
  LET error == First(<<GuardError(p, TRUE), BudgetError(Output(p), TRUE, 0),
                       BelowFile(Output(p))>>) IN
  /\ NextEntry
  /\ \/ error # "none" /\ Refuse(error)
     \/ /\ error = "none"
        /\ archive' = Entered(p, TRUE)
        /\ budget' = Reserved(Output(p), TRUE, 0)
        /\ disk' = WithDirectories(Nodes[Output(p)])
        /\ UNCHANGED <<phase, failure, walk, taken>>

FileEntry(p, size) ==
  LET error == First(<<GuardError(p, FALSE), TooLarge(size),
                       BudgetError(Output(p), FALSE, size), Exists(Output(p))>>)
  IN
  /\ NextEntry
  /\ \/ error # "none" /\ Refuse(error)
     \/ /\ error = "none"
        /\ archive' = [Entered(p, FALSE) EXCEPT
             !.files = @ \cup {[path |-> p, size |-> size]}]
        /\ budget' = Reserved(Output(p), FALSE, size)
        /\ disk' = WithFile(Output(p), size, Output(p))
        /\ UNCHANGED <<phase, failure, walk, taken>>

\* safe_tar_link_target: where the text of a link at p leads, <<Up>> when it
\* leaves the archive on its way.
Resolved(p, text) ==
  LET After(at, name) ==
        IF at = <<Up>> \/ name = Here THEN at
        ELSE IF name # Up THEN Append(at, name)
        ELSE IF at = <<>> THEN <<Up>> ELSE Front(at)
      at[n \in 0..Len(text)] ==
        IF n = 0 THEN Front(p) ELSE After(at[n - 1], text[n])
  IN at[Len(text)]

\* The text <<>> stands for those that are refused as a whole: an absolute one,
\* one with an empty component, one with a name that is not portable.
TargetError(p, text) ==
  IF text = <<>> \/ Resolved(p, text) \in {<<>>, <<Up>>} THEN "link" ELSE "none"

\* A symbolic link: noted, in tar archives, and refused in ZIP archives.
LinkEntry(p, text) ==
  LET error == First(<<IF archive.format = "tar" THEN "none" ELSE "link",
                       GuardError(p, FALSE), TargetError(p, text)>>)
  IN
  /\ NextEntry
  /\ \/ error # "none" /\ Refuse(error)
     \/ /\ error = "none"
        /\ archive' = [Entered(p, FALSE) EXCEPT
             !.links = @ \cup {[from |-> p, to |-> Resolved(p, text)]},
             !.pending = Append(@, p)]
        /\ UNCHANGED <<phase, failure, budget, walk, taken, disk>>

\* A hard link, a device, a global PAX record other than a comment.
SpecialEntry == NextEntry /\ Refuse("special")

CommentEntry ==
  /\ NextEntry
  /\ archive.format = "tar"
  /\ archive' = [archive EXCEPT !.count = @ + 1]
  /\ UNCHANGED <<phase, failure, budget, walk, taken, disk>>

\* Mutant: all links share one set of visited links.
ResumeVisited(pending) ==
  IF pending = <<>>
  THEN phase' = "package" /\ walk' = NoWalk
  ELSE /\ phase' = "links"
       /\ walk' = [at |-> Head(pending),
                   visited |-> walk.visited \cup {walk.at}]

\* What comes after the entries, or after a link: the links still pending.
Resume(pending) ==
  IF pending = <<>>
  THEN phase' = "package" /\ walk' = NoWalk
  ELSE phase' = "links" /\ walk' = [at |-> Head(pending), visited |-> {}]

EndOfArchive ==
  /\ phase = "entries"
  /\ Resume(archive.pending)
  /\ UNCHANGED <<failure, budget, archive, taken, disk>>

-----------------------------------------------------------------------------
(* resolve_tar_link and the copy of what it finds                           *)

Target == (CHOOSE link \in archive.links : link.from = walk.at).to

\* Mutant: a chain is followed wherever it leads.
FollowAlways ==
  /\ phase = "links"
  /\ Target \notin archive.directories
  /\ \A file \in archive.files : file.path # Target
  /\ \E link \in archive.links : link.from = Target
  /\ walk' = [walk EXCEPT !.at = Target]
  /\ UNCHANGED <<phase, failure, budget, archive, taken, disk>>

Follow ==
  /\ phase = "links"
  /\ walk.at \notin walk.visited
  /\ Target \notin archive.directories
  /\ \A file \in archive.files : file.path # Target
  /\ \E link \in archive.links : link.from = Target
  /\ walk' = [at |-> Target, visited |-> walk.visited \cup {walk.at}]
  /\ UNCHANGED <<phase, failure, budget, archive, taken, disk>>

CopyTarget ==
  /\ phase = "links"
  /\ walk.at \notin walk.visited
  /\ Target \notin archive.directories
  /\ \E file \in archive.files :
       LET p == Output(Head(archive.pending))
           error == First(<<BudgetError(p, FALSE, file.size), Exists(p)>>) IN
       /\ file.path = Target
       /\ \/ error # "none" /\ Refuse(error)
          \/ /\ error = "none"
             /\ budget' = Reserved(p, FALSE, file.size)
             /\ disk' = WithFile(p, file.size, Output(file.path))
             /\ archive' = [archive EXCEPT !.pending = Tail(@)]
             /\ Resume(Tail(archive.pending))
             /\ UNCHANGED <<failure, taken>>

\* A cycle, a directory, or nothing in the archive.
LeadsNowhere ==
  \/ walk.at \in walk.visited
  \/ Target \in archive.directories
  \/ /\ \A file \in archive.files : file.path # Target
     /\ \A link \in archive.links : link.from # Target

\* Mutant: such a link is skipped.
Skipped ==
  /\ phase = "links"
  /\ LeadsNowhere
  /\ archive' = [archive EXCEPT !.pending = Tail(@)]
  /\ Resume(Tail(archive.pending))
  /\ UNCHANGED <<failure, budget, taken, disk>>

Unresolved ==
  /\ phase = "links"
  /\ LeadsNowhere
  /\ Refuse("unresolved")

-----------------------------------------------------------------------------
Entry ==
  \/ \E p \in Paths :
       \/ DirectoryEntry(p)
       \/ \E size \in Sizes : FileEntry(p, size)
       \/ \E text \in LinkTexts : LinkEntry(p, text)
  \/ TooManyEntries \/ SpecialEntry \/ CommentEntry \/ EndOfArchive
  \/ Follow \/ CopyTarget \/ Unresolved

-----------------------------------------------------------------------------
(* Properties                                                               *)

\* The chain of links that starts at p gets to q.
LinksTo(p, q) ==
  \A C \in SUBSET {link.to : link \in archive.links} :
    (\A link \in archive.links :
       link.from \in C \cup {p} => link.to \in C) => q \in C

\* "A contained relative tar symbolic link is flattened to a regular file only
\* when its complete target chain ends at a regular file" (docs/SECURITY.md:25):
\* a link that is done has become a copy of the file its chain ends at.
LinksAreTheirTargets ==
  phase \in {"links", "package"} =>
    \A link \in archive.links :
      \/ \E n \in DOMAIN archive.pending : archive.pending[n] = link.from
      \/ \E file \in archive.files, n \in disk :
           /\ LinksTo(link.from, file.path)
           /\ n \in OnDisk(Output(link.from)) /\ ~n.dir
           /\ n.of = Output(file.path) /\ n.size = file.size

\* The other way round: in whatever order the entries come, a link whose chain
\* ends at a regular file is never refused as cyclic or unresolved.
OnlyBadLinksAreRefused ==
  [][phase = "links" /\ failure' = "unresolved" =>
       \A file \in archive.files :
         ~LinksTo(Head(archive.pending), file.path)]_extractionVars
=============================================================================
