----------------------- MODULE InstalledEnginesProofs -----------------------
(***************************************************************************)
(* Proofs about InstalledEngines, for any sets of ids, packages and data   *)
(* roots.  The inductive invariant adds to the type invariant that a       *)
(* package and a record under one id below one root describe the same      *)
(* build: whatever is installed, removed, copied or repaired changes both, *)
(* what is lost is lost as a whole, and what is cut short between the two  *)
(* is kept count of.                                                       *)
(***************************************************************************)
EXTENDS InstalledEngines, TLAPS

Tree == [Roots -> [Ids -> Package \cup {Nothing}]]

Records == [Ids -> Record \cup {Nothing}]

FilesOK ==
  /\ packages \in Tree /\ registry \in [Roots -> Records]
  /\ unrecorded \in [Roots -> SUBSET Ids]
  /\ mishaps \in 0..MaxMishaps

\* The package and the record of an id are of one build, unless they were left
\* apart.
BuildsAgree ==
  \A r \in Roots, id \in Ids :
    id \notin unrecorded[r] /\ packages[r][id] # Nothing /\ registry[r][id] # Nothing =>
      packages[r][id].build = registry[r][id].build

\* The packages below r that nobody touched are recorded.
Recorded(r) ==
  \A id \in Ids \ unrecorded[r] :
    packages[r][id] # Nothing /\ packages[r][id].state = "whole" =>
      registry[r][id] # Nothing

\* The same below the root of the GUI, if it is portable.
WindowRecorded ==
  window # Nothing /\ window.root \in portable => Recorded(window.root)

-----------------------------------------------------------------------------
(* What a load returns                                                      *)

\* load has a record for the same ids, of the same builds, and those of a
\* portable root are at home there (rebase_portable_record).
LEMMA Loading ==
  ASSUME NEW records \in [Roots -> Records], NEW r \in Roots
  PROVE  /\ Load(records, r) \in Records
         /\ \A id \in Ids :
              /\ Load(records, r)[id] = Nothing <=> records[r][id] = Nothing
              /\ records[r][id] # Nothing =>
                   /\ Load(records, r)[id].build = records[r][id].build
                   /\ r \in portable => Load(records, r)[id].home = r
<1>1. ASSUME NEW id \in Ids, records[r][id] # Nothing
      PROVE  /\ Rebased(r, records[r][id]) \in Record
             /\ Rebased(r, records[r][id]).build = records[r][id].build
             /\ r \in portable => Rebased(r, records[r][id]).home = r
  <2>1. records[r][id] \in Record
    BY <1>1 DEF Records
  <2>2. QED
    BY <2>1 DEF Rebased, Record
<1>2. \A id \in Ids :
        Load(records, r)[id] = IF records[r][id] = Nothing THEN Nothing
                               ELSE Rebased(r, records[r][id])
  BY DEF Load
<1>3. ASSUME NEW id \in Ids, records[r][id] # Nothing
      PROVE  Load(records, r)[id] # Nothing
  BY <1>1, <1>2, <1>3, EnginesAssumption
<1>4. Load(records, r) \in Records
  BY <1>1, <1>2 DEF Load, Records
<1>5. QED
  BY <1>1, <1>2, <1>3, <1>4

\* integrity answers Verified only for a package that is whole and of the build
\* of the record.
LEMMA VerifiedMeansWhole ==
  ASSUME FilesOK, NEW id \in Ids, NEW record \in Record,
         Integrity(id, record) = "Verified"
  PROVE  /\ PackageOf(id, record) \in Package
         /\ PackageOf(id, record).state = "whole"
         /\ PackageOf(id, record).build = record.build
<1>1. record.home \in Roots
  BY DEF Record
<1>2. PackageOf(id, record) \in Package \cup {Nothing}
  BY <1>1 DEF FilesOK, Tree, PackageOf
<1>3. QED
  BY <1>2 DEF Integrity, HasExecutable

-----------------------------------------------------------------------------
(* What an operation does to the files                                      *)

\* The bound on mishaps holds.
LEMMA Counting ==
  ASSUME mishaps \in 0..MaxMishaps, UNCHANGED mishaps \/ OneMoreMishap
  PROVE  mishaps' \in 0..MaxMishaps
BY EnginesAssumption DEF OneMoreMishap

\* What every operation at r keeps.
OperationAt(r) ==
  /\ FilesOK' /\ BuildsAgree'
  /\ \A s \in Roots \ {r} :
       /\ packages'[s] = packages[s] /\ registry'[s] = registry[s]
       /\ unrecorded'[s] = unrecorded[s]
  /\ r \in portable /\ Recorded(r) => Recorded(r)'

\* What an operation does that leaves the records of r apart from how they
\* were loaded at one id only.
LEMMA Touching ==
  ASSUME FilesOK, BuildsAgree, FilesOK', NEW r \in Roots, NEW id \in Ids,
         NEW ids \in SUBSET Ids,
         unrecorded' = [unrecorded EXCEPT ![r] = ids],
         \A i \in Ids \ {id} : i \in ids <=> i \in unrecorded[r],
         \A s \in Roots \ {r} :
           packages'[s] = packages[s] /\ registry'[s] = registry[s],
         \A i \in Ids \ {id} :
           packages'[r][i] = packages[r][i]
           /\ (registry'[r][i] = Loaded(r)[i] \/ registry'[r][i] = registry[r][i]),
         id \in ids \/ packages'[r][id] = Nothing \/ registry'[r][id] = Nothing
           \/ packages'[r][id].build = registry'[r][id].build,
         r \in portable /\ Recorded(r) =>
           \/ id \in ids \/ packages'[r][id] = Nothing
           \/ packages'[r][id].state # "whole" \/ registry'[r][id] # Nothing
  PROVE  OperationAt(r)
<1>1. \A i \in Ids :
        /\ Loaded(r)[i] = Nothing <=> registry[r][i] = Nothing
        /\ registry[r][i] # Nothing => Loaded(r)[i].build = registry[r][i].build
  BY Loading DEF FilesOK, Loaded
<1>2. unrecorded'[r] = ids
      /\ \A s \in Roots \ {r} : unrecorded'[s] = unrecorded[s]
  BY DEF FilesOK
<1>3. BuildsAgree'
  <2> SUFFICES ASSUME NEW s \in Roots, NEW i \in Ids, i \notin unrecorded'[s],
                      packages'[s][i] # Nothing, registry'[s][i] # Nothing
               PROVE  packages'[s][i].build = registry'[s][i].build
    BY DEF BuildsAgree
  <2>1. CASE s # r
    BY <2>1, <1>2 DEF BuildsAgree
  <2>2. CASE s = r /\ i = id
    BY <2>2, <1>2
  <2>3. CASE s = r /\ i # id
    BY <2>3, <1>1, <1>2 DEF BuildsAgree
  <2>4. QED
    BY <2>1, <2>2, <2>3
<1>4. r \in portable /\ Recorded(r) => Recorded(r)'
  BY <1>1, <1>2 DEF Recorded
<1>5. QED
  BY <1>2, <1>3, <1>4 DEF OperationAt

\* install writes a package and a record of the same build, or only the package
\* and counts it.
LEMMA Installing ==
  ASSUME FilesOK, BuildsAgree, NEW r \in Roots, NEW id \in Ids,
         NEW build \in Builds,
         InstallNew(r, id, build) \/ InstallUnrecorded(r, id, build)
  PROVE  OperationAt(r)
<1> DEFINE record == [build |-> build, home |-> r]
           package == [build |-> build, home |-> r, state |-> "whole"]
<1>1. record \in Record /\ package \in Package /\ record # Nothing
  BY EnginesAssumption DEF Record, Package
<1>2. packages' = [packages EXCEPT ![r][id] = package]
  BY DEF InstallNew, InstallUnrecorded, Activate
<1>3. /\ packages' \in Tree /\ packages'[r][id] = package
      /\ \A i \in Ids \ {id} : packages'[r][i] = packages[r][i]
      /\ \A s \in Roots \ {r} : packages'[s] = packages[s]
  BY <1>1, <1>2 DEF FilesOK, Tree
<1>4. Loaded(r) \in Records
  BY Loading DEF FilesOK, Loaded
<1>5. CASE InstallNew(r, id, build)
  <2>1. /\ registry' = [registry EXCEPT ![r] = [Loaded(r) EXCEPT ![id] = record]]
        /\ unrecorded' = [unrecorded EXCEPT ![r] = unrecorded[r] \ {id}]
    BY <1>5 DEF InstallNew, Add, Save, Settled
  <2>2. FilesOK'
    BY <1>1, <1>3, <1>4, <1>5, <2>1, Counting DEF FilesOK, Records, InstallNew
  <2>3. /\ registry'[r][id] = record
        /\ \A i \in Ids \ {id} : registry'[r][i] = Loaded(r)[i]
        /\ \A s \in Roots \ {r} : registry'[s] = registry[s]
    BY <1>4, <2>1 DEF FilesOK, Records
  <2> DEFINE ids == unrecorded[r] \ {id}
  <2>4. ids \in SUBSET Ids /\ \A i \in Ids \ {id} : i \in ids <=> i \in unrecorded[r]
    BY DEF FilesOK
  <2>5. packages'[r][id].build = registry'[r][id].build /\ registry'[r][id] # Nothing
    BY <1>1, <1>3, <2>3
  <2> HIDE DEF ids, record, package
  <2>6. unrecorded' = [unrecorded EXCEPT ![r] = ids]
    BY <2>1 DEF ids
  <2>7. QED
    BY <1>3, <2>2, <2>3, <2>4, <2>5, <2>6, Touching
<1>6. CASE InstallUnrecorded(r, id, build)
  <2>1. /\ registry' = registry
        /\ unrecorded' = [unrecorded EXCEPT ![r] = unrecorded[r] \cup {id}]
    BY <1>6 DEF InstallUnrecorded, Apart
  <2>2. unrecorded[r] \cup {id} \in SUBSET Ids
    BY DEF FilesOK
  <2>3. FilesOK'
    BY <1>3, <1>6, <2>1, <2>2, Counting DEF FilesOK, InstallUnrecorded
  <2>4. QED
    BY <1>3, <2>1, <2>2, <2>3, Touching
<1>7. QED
  BY <1>5, <1>6

\* forget, with the package of the record or without it.
LEMMA Forgetting ==
  ASSUME FilesOK, BuildsAgree, NEW r \in Roots, NEW id \in Ids, Forget(r, id),
         Settled(r, {id}), UNCHANGED mishaps,
         \/ packages' = packages /\ (r \in portable => packages[r][id] = Nothing)
         \/ packages' = [packages EXCEPT ![r][id] = Nothing]
  PROVE  OperationAt(r)
<1>1. /\ registry' = [registry EXCEPT ![r] = [Loaded(r) EXCEPT ![id] = Nothing]]
      /\ unrecorded' = [unrecorded EXCEPT ![r] = unrecorded[r] \ {id}]
  BY DEF Forget, Save, Settled
<1>2. Loaded(r) \in Records /\ [Loaded(r) EXCEPT ![id] = Nothing] \in Records
  BY Loading DEF FilesOK, Loaded, Records
<1>3. /\ packages' \in Tree
      /\ r \in portable => packages'[r][id] = Nothing
      /\ \A i \in Ids \ {id} : packages'[r][i] = packages[r][i]
      /\ \A s \in Roots \ {r} : packages'[s] = packages[s]
  BY DEF FilesOK, Tree
<1> DEFINE ids == unrecorded[r] \ {id}
<1>4. ids \in SUBSET Ids /\ \A i \in Ids \ {id} : i \in ids <=> i \in unrecorded[r]
  BY DEF FilesOK
<1>5. FilesOK'
  BY <1>1, <1>2, <1>3, <1>4 DEF FilesOK
<1>6. /\ registry'[r][id] = Nothing
      /\ \A i \in Ids \ {id} : registry'[r][i] = Loaded(r)[i]
      /\ \A s \in Roots \ {r} : registry'[s] = registry[s]
  BY <1>1, <1>2 DEF FilesOK, Records
<1> HIDE DEF ids
<1>7. unrecorded' = [unrecorded EXCEPT ![r] = ids]
  BY <1>1 DEF ids
<1>8. QED
  BY <1>3, <1>4, <1>5, <1>6, <1>7, Touching

\* An operation that leaves all files alone.
LEMMA Resting ==
  ASSUME FilesOK, BuildsAgree, UNCHANGED <<files, unrecorded, mishaps>>, NEW r \in Roots
  PROVE  OperationAt(r)
BY DEF FilesOK, BuildsAgree, files, OperationAt, Recorded

\* A portable root has no record that leads elsewhere, so that remove forgets
\* only what is gone.
LEMMA Removing ==
  ASSUME FilesOK, BuildsAgree, NEW r \in Roots, NEW id \in Ids, Remove(r, id)
  PROVE  OperationAt(r)
<1>1. CASE RemoveMissing(r, id)
  <2>1. registry[r][id] # Nothing /\ PackageOf(id, Loaded(r)[id]) = Nothing
    BY <1>1, Loading DEF RemoveMissing, FilesOK, Loaded
  <2>2. r \in portable => packages[r][id] = Nothing
    BY <2>1, Loading DEF FilesOK, Loaded, PackageOf
  <2>3. QED
    BY <1>1, <2>2, Forgetting DEF RemoveMissing
<1>2. CASE RemoveOwn(r, id)
  BY <1>2, Forgetting DEF RemoveOwn
<1>3. CASE RemoveNothing(r, id)
  BY <1>3, Resting DEF RemoveNothing
<1>4. CASE RemoveUnforgotten(r, id)
  <2>1. /\ Loaded(r)[id] # Nothing /\ Loaded(r)[id].home = r
        /\ PackageOf(id, Loaded(r)[id]) # Nothing
        /\ UNCHANGED <<registry, unrecorded>>
    BY <1>4 DEF RemoveUnforgotten
  <2>2. packages[r][id] \in Package
    BY <2>1 DEF PackageOf, FilesOK, Tree
  <2>3. PICK p \in Package \cup {Nothing} :
          /\ packages' = [packages EXCEPT ![r][id] = p]
          /\ p # Nothing => /\ p.build = packages[r][id].build
                            /\ p.state # "whole"
    <3>1. CASE packages' = [packages EXCEPT ![r][id] = Nothing]
      BY <3>1
    <3>2. ASSUME NEW state \in {"changed", "headless"},
                 packages' = [packages EXCEPT ![r][id].state = state]
          PROVE  LET p == [packages[r][id] EXCEPT !.state = state] IN
                 /\ p \in Package /\ packages' = [packages EXCEPT ![r][id] = p]
                 /\ p.build = packages[r][id].build /\ p.state # "whole"
      BY <2>2, <3>2 DEF Package
    <3>3. QED
      BY <1>4, <3>1, <3>2 DEF RemoveUnforgotten
  <2>4. /\ packages' \in Tree /\ packages'[r][id] = p
        /\ \A i \in Ids \ {id} : packages'[r][i] = packages[r][i]
        /\ \A s \in Roots \ {r} : packages'[s] = packages[s]
    BY <2>3 DEF FilesOK, Tree
  <2>5. FilesOK' /\ unrecorded[r] \in SUBSET Ids
        /\ unrecorded' = [unrecorded EXCEPT ![r] = unrecorded[r]]
    BY <1>4, <2>1, <2>4, Counting DEF FilesOK, RemoveUnforgotten
  <2>6. registry'[r][id] = registry[r][id]
        /\ (id \notin unrecorded[r] /\ registry[r][id] # Nothing =>
              packages[r][id].build = registry[r][id].build)
    BY <2>1, <2>2, EnginesAssumption DEF BuildsAgree
  <2>7. \/ id \in unrecorded[r] \/ packages'[r][id] = Nothing
        \/ registry'[r][id] = Nothing
        \/ packages'[r][id].build = registry'[r][id].build
    BY <2>3, <2>4, <2>6
  <2>8. packages'[r][id] = Nothing \/ packages'[r][id].state # "whole"
    BY <2>3, <2>4
  <2>9. \A s \in Roots \ {r} : registry'[s] = registry[s]
    BY <2>1
  <2>10. \A i \in Ids \ {id} : registry'[r][i] = registry[r][i]
    BY <2>1
  <2>11. QED
    BY <2>4, <2>5, <2>7, <2>8, <2>9, <2>10, Touching
<1>5. QED
  BY <1>1, <1>2, <1>3, <1>4 DEF Remove

\* A recovery that comes to its end leaves every package recorded that nobody
\* touched.
LEMMA Recovering ==
  ASSUME FilesOK, BuildsAgree, NEW r \in Roots,
         NEW repaired \in SUBSET Repairs(r), Recover(r, repaired), UNCHANGED mishaps
  PROVE  OperationAt(r) /\ (repaired = Repairs(r) => Recorded(r)')
<1>1. /\ Loaded(r) \in Records
      /\ \A i \in Ids :
           /\ Loaded(r)[i] = Nothing <=> registry[r][i] = Nothing
           /\ registry[r][i] # Nothing =>
                Loaded(r)[i].build = registry[r][i].build
  BY Loading DEF FilesOK, Loaded
<1>2. ASSUME NEW i \in Ids, packages[r][i] # Nothing
      PROVE  /\ Manifest(r, i) \in Record
             /\ Manifest(r, i).build = packages[r][i].build
             /\ Manifest(r, i).home = r
             /\ packages[r][i].state # "headless"
  <2>1. packages[r][i] \in Package
    BY <1>2 DEF FilesOK, Tree
  <2>2. /\ Manifest(r, i).home = r
        /\ packages[r][i].state # "headless"
    BY <1>2 DEF Recover, Recoverable, HasExecutable
  <2>3. [build |-> packages[r][i].build, home |-> packages[r][i].home] \in Record
    BY <2>1 DEF Record, Package
  <2>4. /\ Manifest(r, i) \in Record
        /\ Manifest(r, i).build = packages[r][i].build
    BY <2>1, <2>3 DEF Manifest, Rebased, Record, Package
  <2>5. QED
    BY <2>2, <2>4
<1>3. packages' = packages
  BY DEF Recover
<1>4. \A i \in repaired : i \in Ids /\ packages[r][i] # Nothing
                            /\ registry[r][i] = Nothing
  BY <1>1 DEF Repairs
<1>5. /\ registry' \in [Roots -> Records]
      /\ \A s \in Roots \ {r} : registry'[s] = registry[s]
      /\ \A i \in Ids :
           \/ i \in repaired /\ registry'[r][i] = Manifest(r, i)
           \/ i \notin repaired /\ registry'[r][i] = Loaded(r)[i]
           \/ i \notin repaired /\ registry'[r][i] = registry[r][i]
  <2>1. CASE repaired = {}
    BY <2>1 DEF Recover, FilesOK
  <2>2. CASE repaired # {}
    <3> DEFINE new == [i \in Ids |-> IF i \in repaired THEN Manifest(r, i)
                                    ELSE Loaded(r)[i]]
    <3>1. registry' = [registry EXCEPT ![r] = new]
      BY <2>2 DEF Recover, Save
    <3>2. new \in Records
      BY <1>1, <1>2, <1>4 DEF Records
    <3>3. QED
      BY <3>1, <3>2 DEF FilesOK
  <2>3. QED
    BY <2>1, <2>2
<1>6. /\ unrecorded' \in [Roots -> SUBSET Ids]
      /\ unrecorded'[r] = unrecorded[r] \ repaired
      /\ \A s \in Roots \ {r} : unrecorded'[s] = unrecorded[s]
  BY DEF Recover, Settled, FilesOK
<1>7. FilesOK'
  BY <1>3, <1>5, <1>6 DEF FilesOK
<1>8. BuildsAgree'
  <2> SUFFICES ASSUME NEW s \in Roots, NEW i \in Ids, i \notin unrecorded'[s],
                      packages[s][i] # Nothing, registry'[s][i] # Nothing
               PROVE  packages[s][i].build = registry'[s][i].build
    BY <1>3 DEF BuildsAgree
  <2>1. CASE s # r
    BY <2>1, <1>5, <1>6 DEF BuildsAgree
  <2>2. CASE s = r
    BY <2>2, <1>1, <1>2, <1>5, <1>6 DEF BuildsAgree
  <2>3. QED
    BY <2>1, <2>2
<1>9. Recorded(r) => Recorded(r)'
  BY <1>1, <1>2, <1>3, <1>4, <1>5, <1>6, EnginesAssumption DEF Recorded
<1>10. repaired = Repairs(r) => Recorded(r)'
  <2> SUFFICES ASSUME repaired = Repairs(r), NEW i \in Ids,
                      packages[r][i] # Nothing, packages[r][i].state = "whole"
               PROVE  registry'[r][i] # Nothing
    BY <1>3 DEF Recorded
  <2>1. CASE i \in Repairs(r)
    BY <2>1, <1>2, <1>5, EnginesAssumption
  <2>2. CASE i \notin Repairs(r)
    <3>1. Integrity(i, Manifest(r, i)) = "Verified"
      BY <1>2 DEF Integrity, HasExecutable, PackageOf
    <3>2. Loaded(r)[i] # Nothing
      BY <2>2, <3>1 DEF Repairs
    <3>3. QED
      BY <2>2, <3>2, <1>1, <1>5
  <2>3. QED
    BY <2>1, <2>2
<1>11. QED
  BY <1>3, <1>5, <1>6, <1>7, <1>8, <1>9, <1>10 DEF OperationAt

-----------------------------------------------------------------------------
(* What an operation does to the files, one action at a time               *)

\* What the window and the job say, while the GUI is at r.
LEMMA WindowIs ==
  ASSUME TypeOK
  PROVE  /\ window # Nothing => window \in Window /\ window.root \in Roots
         /\ Working => /\ window # Nothing
                       /\ job.id \in Ids /\ job.build \in Builds
         /\ FilesOK
<1>1. FilesOK
  BY DEF TypeOK, FilesOK, Tree, Records
<1>2. window # Nothing => window \in Window /\ window.root \in Roots
  BY DEF TypeOK, Window
<1>3. Working => window # Nothing
  BY DEF TypeOK, Working
<1>4. Working => job.id \in Ids /\ job.build \in Builds
  BY DEF TypeOK, Working, Job
<1>5. QED
  BY <1>1, <1>2, <1>3, <1>4

\* Every operation of the GUI and of the commands at r keeps packages and
\* records together and what is below the other roots.
LEMMA Operating ==
  ASSUME TypeOK, BuildsAgree, NEW r \in Roots, Gui(r) \/ Command(r)
  PROVE  OperationAt(r)
<1>1. FilesOK
  BY WindowIs
<1>2. CASE UNCHANGED <<files, unrecorded, mishaps>>
  BY <1>1, <1>2, Resting
<1>3. CASE Launch(r)
  BY <1>1, <1>3, Recovering DEF Launch
<1>4. ASSUME window # Nothing, window.root = r, WorkerInstalls \/ WorkerFails
      PROVE  OperationAt(r)
  <2>1. job.id \in Ids /\ job.build \in Builds
    BY <1>4, WindowIs DEF WorkerInstalls, WorkerFails
  <2>2. \/ InstallNew(r, job.id, job.build)
        \/ InstallUnrecorded(r, job.id, job.build)
        \/ UNCHANGED <<files, unrecorded, mishaps>>
    BY <1>4 DEF WorkerInstalls, WorkerFails
  <2>3. QED
    BY <1>1, <1>2, <2>1, <2>2, Installing
<1>5. ASSUME window # Nothing, window.root = r, NEW id \in Ids,
             ConfirmRemove(id)
      PROVE  OperationAt(r)
  BY <1>1, <1>5, Removing DEF ConfirmRemove
<1>6. CASE Command(r)
  <2>1. CASE CommandRepairs(r)
    BY <1>1, <2>1, Recovering DEF CommandRepairs
  <2>2. ASSUME NEW id \in Ids, CommandOpens(r, id)
        PROVE  OperationAt(r)
    BY <1>2, <2>2 DEF CommandOpens
  <2>3. ASSUME NEW id \in Ids, CommandRemoves(r, id)
        PROVE  OperationAt(r)
    BY <1>1, <2>3, Removing DEF CommandRemoves
  <2>4. ASSUME NEW id \in Ids, NEW build \in Builds,
               CommandInstalls(r, id, build)
        PROVE  OperationAt(r)
    BY <1>1, <2>4, Installing DEF CommandInstalls
  <2>5. QED
    BY <1>6, <2>1, <2>2, <2>3, <2>4 DEF Command
<1>7. CASE Gui(r)
  <2>1. CASE Launch(r)
    BY <2>1, <1>3
  <2>2. CASE window # Nothing /\ window.root = r
    <3>1. ASSUME NEW id \in Ids,
                 \/ OpenRecent(id) \/ Dismiss(id) \/ OpenListed(id)
                 \/ Verify(id) \/ AskRemove(id) \/ CancelRemove(id)
          PROVE  UNCHANGED <<files, unrecorded, mishaps>>
      BY <3>1 DEF OpenRecent, Dismiss, OpenListed, Verify, AskRemove,
                  CancelRemove
    <3>2. ASSUME \/ \E id \in Ids, build \in Builds, fisheye \in BOOLEAN :
                      StartInstall(id, build, fisheye)
                 \/ PollInstalled \/ PollFailed \/ Quit
          PROVE  UNCHANGED <<files, unrecorded, mishaps>>
      BY <3>2 DEF StartInstall, PollInstalled, PollFailed, Quit
    <3>3. CASE \/ WorkerInstalls \/ WorkerFails
               \/ \E id \in Ids : ConfirmRemove(id)
      BY <2>2, <3>3, <1>4, <1>5
    <3>4. CASE UNCHANGED <<files, unrecorded, mishaps>>
      BY <3>4, <1>2
    <3>5. window = Nothing \/ ~Launch(r)
      BY DEF Launch
    <3>6. QED
      BY <1>7, <2>2, <3>1, <3>2, <3>3, <3>4, <3>5 DEF Gui
  <2>3. QED
    BY <1>7, <2>1, <2>2 DEF Gui
<1>8. QED
  BY <1>6, <1>7

\* Copies, moves, losses and damages keep a package and its record of one
\* build, and touch no record below the root of the window.
LEMMA Mishaps ==
  ASSUME TypeOK, BuildsAgree, Mishap
  PROVE  /\ FilesOK' /\ BuildsAgree'
         /\ WindowRecorded => WindowRecorded'
<1>1. FilesOK /\ mishaps' \in 0..MaxMishaps
  BY WindowIs, Counting DEF Mishap, FilesOK
<1>2. UNCHANGED <<window, portable>>
  BY DEF Mishap
<1>3. NoneOf \in Records /\ NoneOf \in [Ids -> Package \cup {Nothing}]
      /\ \A id \in Ids : NoneOf[id] = Nothing
  BY DEF NoneOf, Records
<1>4. ASSUME NEW r \in Roots, NEW s \in Roots, NEW kept \in BOOLEAN,
             Copied(r, s, kept)
      PROVE  /\ FilesOK' /\ BuildsAgree'
             /\ WindowRecorded => WindowRecorded'
  <2>1. /\ packages' = [packages EXCEPT ![s] = packages[r],
                          ![r] = IF kept THEN packages[r] ELSE NoneOf]
        /\ registry' = [registry EXCEPT ![s] = registry[r],
                          ![r] = IF kept THEN registry[r] ELSE NoneOf]
        /\ unrecorded' = [unrecorded EXCEPT ![s] = unrecorded[r],
                            ![r] = IF kept THEN unrecorded[r] ELSE {}]
        /\ r # s /\ ~Busy(s) /\ (kept \/ ~Busy(r))
    BY <1>4, <1>1 DEF Copied, FilesOK, Tree
  <2>2. packages' \in Tree
    BY <2>1, <1>1, <1>3 DEF FilesOK, Tree
  <2>3. registry' \in [Roots -> Records] /\ unrecorded' \in [Roots -> SUBSET Ids]
    BY <2>1, <1>1, <1>3 DEF FilesOK
  <2>4. \A q \in Roots :
          \/ /\ packages'[q] = packages[q] /\ registry'[q] = registry[q]
             /\ unrecorded'[q] = unrecorded[q]
          \/ /\ packages'[q] = packages[r] /\ registry'[q] = registry[r]
             /\ unrecorded'[q] = unrecorded[r] /\ ~Busy(q)
          \/ /\ packages'[q] = NoneOf /\ registry'[q] = NoneOf
             /\ ~Busy(q)
    BY <2>1, <1>1 DEF FilesOK, Tree
  <2>5. BuildsAgree'
    BY <2>4, <1>3 DEF BuildsAgree
  <2>6. WindowRecorded => WindowRecorded'
    BY <2>4, <1>2, WindowIs DEF WindowRecorded, Recorded, Busy
  <2>7. QED
    BY <1>1, <2>2, <2>3, <2>5, <2>6 DEF FilesOK
<1>5. ASSUME NEW r \in Roots, RegistryLost(r)
      PROVE  /\ FilesOK' /\ BuildsAgree'
             /\ WindowRecorded => WindowRecorded'
  <2>1. /\ registry' = [registry EXCEPT ![r] = NoneOf]
        /\ UNCHANGED <<packages, unrecorded>> /\ ~Busy(r)
    BY <1>5 DEF RegistryLost
  <2>2. FilesOK'
    BY <2>1, <1>1, <1>3 DEF FilesOK
  <2>3. BuildsAgree'
    BY <2>1, <1>1, <1>3 DEF FilesOK, BuildsAgree
  <2>4. WindowRecorded => WindowRecorded'
    BY <2>1, <1>1, <1>2, WindowIs DEF FilesOK, WindowRecorded, Recorded, Busy
  <2>5. QED
    BY <2>2, <2>3, <2>4
<1>6. ASSUME NEW r \in Roots, NEW id \in Ids, Damaged(r, id)
      PROVE  /\ FilesOK' /\ BuildsAgree'
             /\ WindowRecorded => WindowRecorded'
  <2>1. UNCHANGED <<registry, unrecorded>> /\ packages[r][id] \in Package
    BY <1>6, <1>1 DEF Damaged, FilesOK, Tree
  <2>2. PICK p \in Package \cup {Nothing} :
          /\ packages' = [packages EXCEPT ![r][id] = p]
          /\ p # Nothing => /\ p.build = packages[r][id].build
                            /\ p.state # "whole"
    <3>1. CASE packages' = [packages EXCEPT ![r][id] = Nothing]
      BY <3>1
    <3>2. ASSUME NEW state \in {"changed", "headless"},
                 packages' = [packages EXCEPT ![r][id].state = state]
          PROVE  LET p == [packages[r][id] EXCEPT !.state = state] IN
                 /\ p \in Package /\ packages' = [packages EXCEPT ![r][id] = p]
                 /\ p.build = packages[r][id].build /\ p.state # "whole"
      BY <2>1, <3>2 DEF Package
    <3>3. QED
      BY <1>6, <3>1, <3>2 DEF Damaged
  <2>3. packages' \in Tree
    BY <2>2, <1>1 DEF FilesOK, Tree
  <2>4. \A q \in Roots, i \in Ids :
          \/ packages'[q][i] = packages[q][i]
          \/ q = r /\ i = id /\ packages'[q][i] = p
    BY <2>2, <1>1 DEF FilesOK, Tree
  <2>5. BuildsAgree'
    BY <2>1, <2>2, <2>4, EnginesAssumption DEF BuildsAgree
  <2>6. WindowRecorded => WindowRecorded'
    BY <2>1, <2>2, <2>4, <1>2, WindowIs DEF WindowRecorded, Recorded
  <2>7. QED
    BY <2>1, <2>3, <2>5, <2>6, <1>1 DEF FilesOK
<1>7. ASSUME NEW r \in Roots, NEW id \in Ids, Overlapped(r, id)
      PROVE  /\ FilesOK' /\ BuildsAgree'
             /\ WindowRecorded => WindowRecorded'
  <2>1. PICK record \in Record \cup {Nothing} :
          registry' = [registry EXCEPT ![r][id] = record]
    BY <1>7 DEF Overlapped, Record
  <2>2. /\ unrecorded' = [unrecorded EXCEPT ![r] = unrecorded[r] \cup {id}]
        /\ packages' = packages
    BY <1>7 DEF Overlapped, Apart
  <2>3. FilesOK'
    BY <2>1, <2>2, <1>1 DEF FilesOK, Records
  <2>4. \A q \in Roots : \A i \in Ids \ unrecorded'[q] :
          i \notin unrecorded[q] /\ registry'[q][i] = registry[q][i]
    BY <2>1, <2>2, <1>1 DEF FilesOK, Records
  <2>5. BuildsAgree'
    BY <2>2, <2>4 DEF BuildsAgree
  <2>6. WindowRecorded => WindowRecorded'
    BY <2>2, <2>4, <1>2, WindowIs DEF WindowRecorded, Recorded
  <2>7. QED
    BY <2>3, <2>5, <2>6
<1>8. QED
  BY <1>4, <1>5, <1>6, <1>7 DEF Mishap

-----------------------------------------------------------------------------
(* What an operation does to the window and the job                         *)

\* A window whose labels belong to its records, and that says "Verified" only
\* of records that were verified.
Shown(w, looked) ==
  /\ w \in Window
  /\ \A id \in Ids :
       /\ w.installs[id] = Nothing <=> w.integrity[id] = Nothing
       /\ w.integrity[id] = "Verified" => looked[id] = w.installs[id]

WindowInv == window # Nothing => Shown(window, checked)

\* integrity_labels gives every record a label, and none "Verified".
LEMMA Labelling ==
  ASSUME NEW tree, NEW installs \in Records
  PROVE  /\ FirstLabels(tree, installs) \in [Ids -> Labels \cup {Nothing}]
         /\ \A id \in Ids :
              /\ installs[id] = Nothing
                   <=> FirstLabels(tree, installs)[id] = Nothing
              /\ FirstLabels(tree, installs)[id] # "Verified"
<1>1. "Not checked" # Nothing /\ "Missing" # Nothing /\ "Verified" # Nothing
  BY EnginesAssumption DEF Labels
<1>2. QED
  BY <1>1 DEF FirstLabels, Labels

\* reload_installs shows the records as they are loaded, none of them verified,
\* or leaves the window as it is.
LEMMA Reloading ==
  ASSUME FilesOK', NEW w, Shown(w, checked), Reload(w), UNCHANGED checked
  PROVE  Shown(window', checked') /\ window'.root = w.root
<1>1. CASE window' = w
  BY <1>1
<1>2. CASE window' # w
  <2> DEFINE installs == Load(registry', w.root)
             labels == FirstLabels(packages', installs)
  <2>1. w.root \in Roots
    BY DEF Shown, Window
  <2>2. installs \in Records
    BY <2>1, Loading DEF FilesOK
  <2>3. /\ labels \in [Ids -> Labels \cup {Nothing}]
        /\ \A id \in Ids : /\ installs[id] = Nothing <=> labels[id] = Nothing
                           /\ labels[id] # "Verified"
    BY <2>2, Labelling
  <2>4. window' = [w EXCEPT !.installs = installs, !.integrity = labels]
    BY <1>2 DEF Reload, Reloads
  <2> HIDE DEF installs, labels
  <2>5. QED
    BY <2>2, <2>3, <2>4 DEF Shown, Window, Records
<1>3. QED
  BY <1>1, <1>2

\* The rest of the invariant.
Rest ==
  /\ portable \subseteq Roots
  /\ job \in Job \cup {Nothing}
  /\ job # Nothing => window # Nothing
  /\ opening \in Opening \cup {Nothing}
  /\ checked \in Records

ScreenInv == WindowInv /\ Rest

\* Together they are the type invariant and the rule about labels.
LEMMA Parts ==
  FilesOK /\ ScreenInv <=> TypeOK /\ VerifiedIsOfTheRecord
<1>1. FilesOK <=>
        /\ packages \in [Roots -> [Ids -> Package \cup {Nothing}]]
        /\ registry \in [Roots -> [Ids -> Record \cup {Nothing}]]
        /\ unrecorded \in [Roots -> SUBSET Ids]
        /\ mishaps \in 0..MaxMishaps
  BY DEF FilesOK, Tree, Records
<1>2. QED
  BY <1>1, EnginesAssumption
     DEF TypeOK, VerifiedIsOfTheRecord, ScreenInv, WindowInv, Rest,
         Shown, Records

\* The actions of the GUI, one at a time.
LEMMA GuiStep ==
  ASSUME FilesOK, FilesOK', ScreenInv, NEW r \in Roots, Gui(r)
  PROVE  ScreenInv'
<1> USE DEF ScreenInv
<1>1. CASE Launch(r)
  <2> DEFINE installs == Load(registry', r)
             labels == FirstLabels(packages', installs)
             opened == [root |-> r, installs |-> installs,
                        integrity |-> labels,
                        confirm |-> Nothing, recent |-> Nothing]
  <2>1. installs \in Records
    BY Loading DEF FilesOK
  <2>2. /\ labels \in [Ids -> Labels \cup {Nothing}]
        /\ \A id \in Ids : /\ installs[id] = Nothing <=> labels[id] = Nothing
                           /\ labels[id] # "Verified"
    BY <2>1, Labelling
  <2>3. /\ window' = opened /\ checked' = NoneOf
        /\ UNCHANGED <<job, opening, portable>>
    BY <1>1 DEF Launch
  <2>4. NoneOf \in Records
    BY DEF NoneOf, Records
  <2> HIDE DEF installs, labels
  <2>5. Shown(opened, NoneOf)
    BY <2>1, <2>2 DEF Shown, Window, Records
  <2>6. opened # Nothing
    BY <2>5, EnginesAssumption DEF Shown
  <2>7. QED
    BY <2>3, <2>4, <2>5, <2>6 DEF WindowInv, Rest
<1>2. CASE window # Nothing
  <2>1. Shown(window, checked) /\ window \in Window
    BY <1>2 DEF WindowInv, Shown
  <2>2. ASSUME NEW id \in Ids, NEW build \in Builds, NEW fisheye \in BOOLEAN,
               StartInstall(id, build, fisheye)
        PROVE  ScreenInv'
    <3>1. job' \in Job
      BY <2>2 DEF StartInstall, Job
    <3>2. QED
      BY <2>2, <3>1 DEF StartInstall, files, WindowInv, Rest
  <2>3. CASE WorkerInstalls
    <3>1. /\ Working
          /\ UNCHANGED <<window, opening, portable, checked>>
      BY <2>3 DEF WorkerInstalls
    <3>2. job \in Job /\ job.id \in Ids /\ job.build \in Builds
          /\ job.fisheye \in BOOLEAN /\ window.root \in Roots
      BY <2>1, <3>1 DEF Working, Rest, Job, Window
    <3>3. PICK record : Return(record) /\ record \in Record
      <4>1. CASE Return([build |-> job.build, home |-> window.root])
        BY <4>1, <3>2 DEF Record
      <4>2. CASE /\ Answers(window.root, job.id, job.build)
                 /\ Return(Loaded(window.root)[job.id])
        <5>1. Loaded(window.root)[job.id] \in Record
          BY <4>2, <3>2, Loading DEF Answers, Loaded, FilesOK, Records
        <5>2. QED
          BY <4>2, <5>1
      <4>3. QED
        BY <2>3, <4>1, <4>2 DEF WorkerInstalls
    <3>4. job' \in Job
      BY <3>2, <3>3 DEF Return, Job
    <3>5. QED
      BY <1>2, <3>1, <3>4 DEF WindowInv, Rest
  <2>4. CASE WorkerFails
    <3>1. job' \in Job
      BY <2>4 DEF WorkerFails, Job
    <3>2. QED
      BY <1>2, <2>4, <3>1 DEF WorkerFails, files, WindowInv, Rest
  <2>5. CASE PollInstalled
    <3>1. job.id \in Ids /\ job.record \in Record
      BY <2>5 DEF PollInstalled, Rest, Job
    <3>2. Shown([window EXCEPT !.recent = job.id], checked)
      BY <2>1, <3>1 DEF Shown, Window
    <3>3. Shown(window', checked')
      BY <2>5, <3>2, Reloading DEF PollInstalled
    <3>4. opening' \in Opening \cup {Nothing}
      BY <2>5, <3>1 DEF PollInstalled, StartOpening, Opening, Rest
    <3>5. window' # Nothing
      BY <3>3, EnginesAssumption DEF Shown
    <3>6. QED
      BY <2>5, <3>3, <3>4, <3>5 DEF PollInstalled, WindowInv, Rest
  <2>6. CASE PollFailed
    BY <2>6 DEF PollFailed, files, WindowInv, Rest
  <2>7. CASE Quit
    <3>1. NoneOf \in Records
      BY DEF NoneOf, Records
    <3>2. QED
      BY <2>7, <3>1 DEF Quit, WindowInv, Rest
  <2>8. ASSUME NEW id \in Ids, OpenRecent(id) \/ OpenListed(id)
        PROVE  ScreenInv'
    <3>1. window.installs[id] \in Record
      BY <2>1, <2>8 DEF OpenRecent, OpenListed, Listed, Window
    <3>2. opening' \in Opening \cup {Nothing}
      BY <2>8, <3>1 DEF OpenRecent, OpenListed, StartOpening, Opening
    <3>3. UNCHANGED <<window, job, portable, checked>>
      BY <2>8 DEF OpenRecent, OpenListed
    <3>4. QED
      BY <3>2, <3>3 DEF WindowInv, Rest
  <2>9. ASSUME NEW id \in Ids, Dismiss(id) \/ AskRemove(id) \/ CancelRemove(id)
        PROVE  ScreenInv'
    <3>1. /\ UNCHANGED <<job, opening, portable, checked>>
          /\ \/ window' = [window EXCEPT !.recent = Nothing]
             \/ window' = [window EXCEPT !.confirm = id]
             \/ window' = [window EXCEPT !.confirm = Nothing]
      BY <2>9 DEF Dismiss, AskRemove, CancelRemove
    <3>2. Shown(window', checked)
      BY <2>1, <3>1 DEF Shown, Window
    <3>3. window' # Nothing
      BY <3>2, EnginesAssumption DEF Shown
    <3>4. QED
      BY <3>1, <3>2, <3>3 DEF WindowInv, Rest
  <2>10. ASSUME NEW id \in Ids, Verify(id)
         PROVE  ScreenInv'
    <3>1. /\ window.installs[id] # Nothing
          /\ window' = [window EXCEPT !.integrity[id] =
                          Integrity(id, window.installs[id])]
          /\ checked' = [checked EXCEPT ![id] = window.installs[id]]
          /\ UNCHANGED <<job, opening, portable>>
      BY <2>10 DEF Verify, Listed
    <3>2. Integrity(id, window.installs[id]) \in Labels
      BY DEF Integrity, Labels
    <3>3. checked \in Records /\ checked' \in Records
      BY <2>1, <3>1 DEF Rest, Records, Window
    <3>4. Shown(window', checked')
      BY <2>1, <3>1, <3>2, <3>3, EnginesAssumption DEF Shown, Window, Records
    <3>5. window' # Nothing
      BY <3>4, EnginesAssumption DEF Shown
    <3>6. QED
      BY <3>1, <3>3, <3>4, <3>5 DEF WindowInv, Rest
  <2>11. ASSUME NEW id \in Ids, ConfirmRemove(id)
         PROVE  ScreenInv'
    <3> DEFINE w == [window EXCEPT !.confirm = Nothing,
                                   !.recent = IF @ = id THEN Nothing ELSE @]
    <3>1. Shown(w, checked)
      BY <2>1 DEF Shown, Window
    <3>2. Reload(w) /\ UNCHANGED <<job, opening, portable, checked>>
      BY <2>11 DEF ConfirmRemove
    <3> HIDE DEF w
    <3>3. Shown(window', checked')
      BY <3>1, <3>2, Reloading
    <3>4. window' # Nothing
      BY <3>3, EnginesAssumption DEF Shown
    <3>5. QED
      BY <3>2, <3>3, <3>4 DEF WindowInv, Rest
  <2>12. ~Launch(r)
    BY <1>2 DEF Launch
  <2>13. QED
    BY <2>2, <2>3, <2>4, <2>5, <2>6, <2>7, <2>8, <2>9, <2>10, <2>11, <2>12
       DEF Gui
<1>3. QED
  BY <1>1, <1>2 DEF Gui

\* The commands leave the window alone.
LEMMA CommandStep ==
  ASSUME FilesOK, ScreenInv, NEW r \in Roots, Command(r)
  PROVE  ScreenInv'
<1>1. UNCHANGED <<window, job, portable, checked>>
  BY DEF Command
<1>2. ASSUME NEW id \in Ids, CommandOpens(r, id)
      PROVE  opening' \in Opening \cup {Nothing}
  <2>1. Loaded(r)[id] \in Record
    BY <1>2, Loading DEF CommandOpens, Loaded, FilesOK, Records
  <2>2. QED
    BY <1>2, <2>1 DEF CommandOpens, StartOpening, Opening
<1>3. opening' \in Opening \cup {Nothing}
  BY <1>2 DEF Command, CommandRepairs, CommandRemoves, CommandInstalls,
              ScreenInv, Rest
<1>4. QED
  BY <1>1, <1>3 DEF ScreenInv, WindowInv, Rest

\* What users do to the folders leaves the window alone, and so does the end of
\* a handoff.
LEMMA MishapStep ==
  ASSUME ScreenInv, Mishap \/ HandOver \/ HandsNothingOver
  PROVE  ScreenInv'
BY DEF Mishap, HandOver, HandsNothingOver, ScreenInv, WindowInv, Rest

-----------------------------------------------------------------------------
(* Theorems                                                                 *)

Inv == FilesOK /\ BuildsAgree /\ WindowRecorded /\ ScreenInv

\* Without engines nothing is shown or handed over.
LEMMA Initially ==
  ASSUME Init
  PROVE  Inv
<1>1. NoneOf \in Records /\ NoneOf \in [Ids -> Package \cup {Nothing}]
      /\ \A id \in Ids : NoneOf[id] = Nothing
  BY DEF NoneOf, Records
<1>2. FilesOK /\ BuildsAgree /\ WindowRecorded
  BY <1>1, EnginesAssumption
     DEF Init, FilesOK, Tree, BuildsAgree, WindowRecorded
<1>3. ScreenInv
  BY <1>1, EnginesAssumption
     DEF Init, ScreenInv, WindowInv, Rest
<1>4. QED
  BY <1>2, <1>3 DEF Inv

\* A step of the GUI or of a command at any root keeps the records of the root
\* of the window.
LEMMA Recording ==
  ASSUME Inv, NEW r \in Roots, Gui(r) \/ Command(r), OperationAt(r)
  PROVE  WindowRecorded'
<1>1. CASE Launch(r)
  BY <1>1, Recovering DEF Inv, Launch, WindowRecorded
<1>2. CASE window' # Nothing /\ window # Nothing
  <2>1. window'.root = window.root /\ portable' = portable
    <3>1. CASE Command(r)
      BY <3>1 DEF Command
    <3>2. ASSUME NEW w, Shown(w, checked), w.root = window.root, Reload(w),
                 UNCHANGED checked
          PROVE  window'.root = window.root
      BY <3>2, Reloading DEF OperationAt
    <3>3. CASE Gui(r)
      <4>1. Shown(window, checked) /\ window \in Window
        BY <1>2 DEF Inv, ScreenInv, WindowInv, Shown
      <4>2. CASE PollInstalled
        <5>1. job.id \in Ids
          BY <4>2 DEF PollInstalled, Inv, ScreenInv, Rest, Job
        <5>2. /\ Shown([window EXCEPT !.recent = job.id], checked)
              /\ [window EXCEPT !.recent = job.id].root = window.root
          BY <4>1, <5>1 DEF Shown, Window
        <5>3. QED
          BY <4>2, <5>2, <3>2 DEF PollInstalled
      <4>3. ASSUME NEW id \in Ids, ConfirmRemove(id)
            PROVE  window'.root = window.root /\ portable' = portable
        <5> DEFINE w == [window EXCEPT !.confirm = Nothing,
                                  !.recent = IF @ = id THEN Nothing ELSE @]
        <5>1. Shown(w, checked) /\ w.root = window.root
          BY <4>1 DEF Shown, Window
        <5>2. Reload(w) /\ UNCHANGED <<checked, portable>>
          BY <4>3 DEF ConfirmRemove
        <5> HIDE DEF w
        <5>3. QED
          BY <5>1, <5>2, <3>2
      <4>4. ASSUME NEW id \in Ids,
                   Dismiss(id) \/ AskRemove(id) \/ CancelRemove(id) \/ Verify(id)
            PROVE  window'.root = window.root /\ portable' = portable
        BY <4>1, <4>4 DEF Dismiss, AskRemove, CancelRemove, Verify, Window
      <4>5. ASSUME \/ \E id \in Ids, build \in Builds, fisheye \in BOOLEAN :
                        StartInstall(id, build, fisheye)
                   \/ WorkerInstalls \/ WorkerFails \/ PollFailed
                   \/ \E id \in Ids : OpenRecent(id) \/ OpenListed(id)
            PROVE  window' = window /\ portable' = portable
        BY <4>5 DEF StartInstall, WorkerInstalls, WorkerFails, PollFailed,
                    OpenRecent, OpenListed, files
      <4>6. ~Launch(r) /\ ~Quit
        BY <1>2 DEF Launch, Quit
      <4>7. QED
        BY <3>3, <4>2, <4>3, <4>4, <4>5, <4>6 DEF Gui
    <3>4. QED
      BY <3>1, <3>3
  <2>2. PICK s \in Roots : s = window.root
    BY <1>2 DEF Inv, ScreenInv, WindowInv, Shown, Window
  <2>3. s \in portable /\ Recorded(s) => Recorded(s)'
    BY DEF OperationAt, Recorded
  <2>4. window'.root = s /\ (s \in portable => Recorded(s))
    BY <1>2, <2>1, <2>2 DEF Inv, WindowRecorded
  <2>5. QED
    BY <2>1, <2>3, <2>4 DEF WindowRecorded, Recorded
<1>3. CASE window' = Nothing
  BY <1>3 DEF WindowRecorded
<1>4. window = Nothing => Launch(r) \/ window' = Nothing
  BY DEF Gui, Command
<1>5. QED
  BY <1>1, <1>2, <1>3, <1>4

\* Inv is inductive.
LEMMA Inductive ==
  ASSUME Inv, [Next]_vars
  PROVE  Inv'
<1>1. TypeOK
  BY Parts DEF Inv
<1>2. ASSUME NEW r \in Roots, Gui(r) \/ Command(r)
      PROVE  Inv'
  <2>1. OperationAt(r)
    BY <1>1, <1>2, Operating DEF Inv
  <2>2. FilesOK' /\ BuildsAgree'
    BY <2>1 DEF OperationAt
  <2>3. WindowRecorded'
    BY <1>2, <2>1, Recording
  <2>4. ScreenInv'
    BY <1>2, <2>2, GuiStep, CommandStep DEF Inv
  <2>5. QED
    BY <2>2, <2>3, <2>4 DEF Inv
<1>6. CASE HandOver \/ HandsNothingOver
  <2>1. UNCHANGED <<packages, registry, unrecorded, mishaps, window, portable>>
    BY <1>6 DEF HandOver, HandsNothingOver, files
  <2>2. FilesOK' /\ BuildsAgree' /\ WindowRecorded'
    BY <2>1 DEF Inv, FilesOK, BuildsAgree, WindowRecorded, Recorded
  <2>3. QED
    BY <1>6, <2>2, MishapStep DEF Inv
<1>3. CASE Mishap
  BY <1>1, <1>3, Mishaps, MishapStep DEF Inv
<1>4. CASE UNCHANGED vars
  BY <1>4 DEF vars, files, Inv, FilesOK, BuildsAgree, WindowRecorded, Recorded,
              ScreenInv, WindowInv, Rest, Shown
<1>5. QED
  BY <1>2, <1>3, <1>4, <1>6 DEF Next

\* Inv holds in every reachable state.
LEMMA Invariance == Spec => []Inv
<1>1. Init => Inv
  BY Initially
<1>2. Inv /\ [Next]_vars => Inv'
  BY Inductive
<1>3. QED
  BY <1>1, <1>2, PTL DEF Spec

\* The variables of the installed engines have their types.
THEOREM EnginesTyped == Spec => []TypeOK
<1>1. Inv => TypeOK
  BY Parts DEF Inv
<1>2. QED
  BY <1>1, Invariance, PTL

\* Whatever happens to the folders meanwhile, the window calls a record
\* verified only if it verified that record.
THEOREM Checked == Spec => []VerifiedIsOfTheRecord
<1>1. Inv => VerifiedIsOfTheRecord
  BY Parts DEF Inv
<1>2. QED
  BY <1>1, Invariance, PTL

\* While a portable GUI runs, every package below its root that nobody touched
\* has a record that verifies, but for the ids at which an install was cut short
\* or saves overlapped and that no later operation put right.
THEOREM Kept == Spec => []EnginesAreKept
<1>1. ASSUME Inv
      PROVE  EnginesAreKept
  <2> SUFFICES ASSUME window # Nothing, window.root \in portable,
                      NEW id \in Ids \ unrecorded[window.root],
                      packages[window.root][id] # Nothing,
                      packages[window.root][id].state = "whole"
               PROVE  /\ Loaded(window.root)[id] # Nothing
                      /\ Integrity(id, Loaded(window.root)[id]) = "Verified"
    BY DEF EnginesAreKept
  <2>1. window.root \in Roots
    BY <1>1 DEF Inv, ScreenInv, WindowInv, Shown, Window
  <2>2. registry[window.root][id] # Nothing
    BY <1>1 DEF Inv, WindowRecorded, Recorded
  <2>3. /\ Loaded(window.root)[id] # Nothing
        /\ Loaded(window.root)[id].build = registry[window.root][id].build
        /\ Loaded(window.root)[id].home = window.root
    BY <1>1, <2>1, <2>2, Loading DEF Inv, FilesOK, Loaded
  <2>4. packages[window.root][id].build = registry[window.root][id].build
    BY <1>1, <2>1, <2>2 DEF Inv, BuildsAgree
  <2>5. QED
    BY <2>3, <2>4 DEF Integrity, HasExecutable, PackageOf
<1>2. QED
  BY <1>1, Invariance, PTL

\* No operation at one root changes what is below another one.
THEOREM Rooted == Spec => StepsStayInTheirRoot
<1>1. ASSUME Inv
      PROVE  \A r \in Roots : Gui(r) \/ Command(r) =>
               \A s \in Roots \ {r} :
                 packages'[s] = packages[s] /\ registry'[s] = registry[s]
  BY <1>1, Parts, Operating DEF Inv, OperationAt
<1>2. QED
  BY <1>1, Invariance, PTL DEF StepsStayInTheirRoot
=============================================================================
