--------------------------- MODULE InstallProofs ----------------------------
(***************************************************************************)
(* The inductive invariant of InstallLifecycle, and what follows from it   *)
(* about registry.json and about the immutability of generations; then     *)
(* what the operations of a thread that works alone promise on return.     *)
(***************************************************************************)
EXTENDS InstallDiskProofs

USE DEF At, Here, Staging

-----------------------------------------------------------------------------
(* Records                                                                  *)

LEMMA RestCarries == Carries(Rest)
  BY Blanks DEF Carries, GoodRecord, Unregistered

\* One thread goes on, and leaves a good registry.json.
LEMMA RecordsSave ==
  ASSUME TypeInv, RecordsInv, NEW a \in Actors, NEW t, Continue(a, t),
         Carries(t), \A id \in Ids : GoodRecord(registry'[id], id)
  PROVE  RecordsInv'
<1>1. \A b \in Actors : task'[b] = IF b = a THEN t ELSE task[b]
  BY Frame
<1>2. ASSUME NEW b \in Actors
      PROVE  Carries(task'[b])
  BY <1>1 DEF RecordsInv
<1>3. RecordsAreWhole'
  BY DEF RecordsAreWhole, GoodRecord
<1> QED
  BY <1>2, <1>3 DEF RecordsInv, Carries

LEMMA RecordsStep ==
  ASSUME TypeInv, RecordsInv, NEW a \in Actors, NEW t, Continue(a, t),
         Carries(t), registry' = registry
  PROVE  RecordsInv'
  BY RecordsSave DEF RecordsInv, RecordsAreWhole, GoodRecord

LEMMA RecordsReturn ==
  ASSUME TypeInv, RecordsInv, NEW a \in Actors, NEW r, Return(a, r),
         registry' = registry
  PROVE  RecordsInv'
  BY RestCarries, RecordsStep DEF Return

\* A step that touches neither registry.json nor a thread.
LEMMA RecordsKept ==
  ASSUME RecordsInv, UNCHANGED <<registry, task>>
  PROVE  RecordsInv'
  BY DEF RecordsInv, RecordsAreWhole, Carries, GoodRecord

\* What add and forget save: no record under another id, none of a package
\* that was not staged to the end, even from an outdated registry.
LEMMA SavedRecordsGood ==
  ASSUME TypeInv, RecordsInv, NEW a \in Actors
  PROVE  /\ At(a, "addSave") =>
              \A r \in Saves(a, Added(a)), id \in Ids : GoodRecord(r[id], id)
         /\ \A r \in Saves(a, Forgotten(a)), id \in Ids : GoodRecord(r[id], id)
<1>1. task[a].loaded \in [Ids -> MaybeRecord] /\ Carries(task[a])
  BY DEF TypeInv, TypeOK, Task, Registry, RecordsInv
<1>2. /\ At(a, "addSave") => \A id \in Ids : GoodRecord(Added(a)[id], id)
      /\ \A id \in Ids : GoodRecord(Forgotten(a)[id], id)
  BY <1>1 DEF Added, Forgotten, Carries, GoodRecord
<1>3. \A r \in BeingSaved(a), id \in Ids : GoodRecord(r[id], id)
  BY DEF BeingSaved, RecordsInv, Carries
<1>4. \A id \in Ids : GoodRecord(Unregistered[id], id)
  BY DEF Unregistered, GoodRecord
<1> QED
  BY <1>2, <1>3, <1>4 DEF Saves

LEMMA RecordsInit == Init => RecordsInv
<1> SUFFICES ASSUME Init
             PROVE  RecordsInv
  OBVIOUS
<1>1. \A a \in Actors : task[a] = Rest
  BY DEF Init
<1>2. RecordsAreWhole
  BY DEF Init, RecordsAreWhole, Unregistered
<1> QED
  BY <1>1, <1>2, RestCarries DEF RecordsInv

LEMMA RecordsBegin ==
  ASSUME TypeInv, RecordsInv, NEW a \in Actors, Begin(a)
  PROVE  RecordsInv'
<1> USE DEF TypeInv, TypeOK
<1>1. ASSUME NEW id \in Ids, NEW recipe \in Recipes, NEW source \in Sources,
             InstallExisting(a, id, recipe, source)
      PROVE  RecordsInv'
  <2> DEFINE t == [Rest EXCEPT !.op = "install", !.pc = "lookup",
                     !.rec = [id |-> id, recipe |-> recipe, source |-> source,
                                files |-> {}]]
  <2>1. Continue(a, t) /\ registry' = registry
    BY <1>1 DEF InstallExisting
  <2>2. Carries(t)
    BY <1>1, Blanks, RestCarries DEF InstallExisting, Task, Carries, RecordsInv
  <2> HIDE DEF t
  <2> QED
    BY <2>1, <2>2, RecordsStep
<1>2. ASSUME NEW id \in Ids, NEW recipe \in Recipes, NEW source \in Sources,
             NEW d \in Dirs, InstallNew(a, id, recipe, source, d)
      PROVE  RecordsInv'
  <2> DEFINE t == [Rest EXCEPT !.op = "install", !.pc = "fetch", !.dir = d,
                     !.todo = Payload,
                     !.rec = [id |-> id, recipe |-> recipe, source |-> source,
                                files |-> {}]]
  <2>1. Continue(a, t) /\ registry' = registry
    BY <1>2 DEF InstallNew
  <2>2. Carries(t)
    BY <1>2, Blanks, RestCarries DEF InstallNew, Task, Carries, RecordsInv
  <2> HIDE DEF t
  <2> QED
    BY <2>1, <2>2, RecordsStep
<1>3. ASSUME NEW id \in Ids, RemoveUnknown(a, id)
      PROVE  RecordsInv'
  BY <1>3, RecordsReturn DEF RemoveUnknown
<1>4. ASSUME NEW id \in Ids, RemoveKnown(a, id)
      PROVE  RecordsInv'
  <2> DEFINE t == [Rest EXCEPT !.op = "remove", !.pc = "open",
                     !.rec = registry[id]]
  <2>1. Continue(a, t) /\ registry' = registry
    BY <1>4 DEF RemoveKnown
  <2>2. Carries(t)
    BY <1>4, Blanks, RestCarries DEF RemoveKnown, Task, Carries, RecordsInv
  <2> HIDE DEF t
  <2> QED
    BY <2>1, <2>2, RecordsStep
<1>5. CASE RecoverStart(a)
  <2> DEFINE t == [Rest EXCEPT !.op = "recover", !.pc = "scan",
                     !.due = {<<d, dirs[d].name>> :
                                d \in {e \in Dirs : dirs[e].name # "none"}}]
  <2>1. Continue(a, t) /\ registry' = registry
    BY <1>5 DEF RecoverStart
  <2>2. Carries(t)
    BY <1>5, Blanks, RestCarries DEF RecoverStart, Task, Carries, RecordsInv
  <2> HIDE DEF t
  <2> QED
    BY <2>1, <2>2, RecordsStep
<1> QED
  BY <1>1, <1>2, <1>3, <1>4, <1>5 DEF Begin

LEMMA RecordsInstall ==
  ASSUME TypeInv, DiskInv, RecordsInv, NEW a \in Actors, InstallStep(a)
  PROVE  RecordsInv'
<1> USE DEF TypeInv, TypeOK
<1>1. CASE LookupRefuses(a)
  BY <1>1, RecordsReturn DEF LookupRefuses
<1>2. CASE Lookup(a)
  <2> DEFINE t == [task[a] EXCEPT !.pc = "verify",
                                  !.rec = registry[task[a].rec.id]]
  <2>1. Continue(a, t) /\ registry' = registry
    BY <1>2 DEF Lookup
  <2>2. Carries(t)
    BY <1>2, Blanks, RestCarries DEF Lookup, Task, Carries, RecordsInv
  <2> HIDE DEF t
  <2> QED
    BY <2>1, <2>2, RecordsStep
<1>3. CASE VerifyExisting(a)
  BY <1>3, RecordsReturn DEF VerifyExisting
<1>4. ASSUME NEW f \in Payload, Fetch(a, f)
      PROVE  RecordsInv'
  <2> DEFINE t == [task[a] EXCEPT !.todo = @ \ {f}]
  <2>1. Continue(a, t) /\ registry' = registry
    BY <1>4 DEF Fetch
  <2>2. Carries(t)
    BY <1>4, Blanks, RestCarries DEF Fetch, Task, Carries, RecordsInv
  <2> HIDE DEF t
  <2> QED
    BY <2>1, <2>2, RecordsStep
<1>5. CASE Snapshot(a)
  <2> DEFINE r == [task[a].rec EXCEPT !.files = Here(a).files \ {Downloads}]
             t == [task[a] EXCEPT !.pc = "check", !.rec = r]
  <2>1. Continue(a, t) /\ registry' = registry
    BY <1>5 DEF Snapshot
  <2>2. t.pc = "check" /\ t.loaded = task[a].loaded /\ t.found = task[a].found
    <3> HIDE DEF r
    <3> QED
      BY DEF Task
  <2> HIDE DEF t
  <2> QED
    BY <2>1, <2>2, RecordsStep DEF RecordsInv, Carries
<1>6. CASE EngineWrites(a)
  BY <1>6, RecordsKept DEF EngineWrites
<1>7. CASE Seal(a)
  <2> DEFINE t == [task[a] EXCEPT !.pc = "activate"]
  <2>1. Continue(a, t) /\ registry' = registry
    BY <1>7 DEF Seal
  <2>2. Carries(t)
    BY <1>7, Blanks, RestCarries DEF Seal, Task, Carries, RecordsInv
  <2> HIDE DEF t
  <2> QED
    BY <2>1, <2>2, RecordsStep
<1>8. CASE Activate(a)
  <2> DEFINE t == [task[a] EXCEPT !.pc = "addLoad", !.dir = NoDir]
  <2>1. Continue(a, t) /\ registry' = registry
    BY <1>8 DEF Activate
  <2>2. Carries(t)
    BY <1>8, Blanks, RestCarries
       DEF Activate, Task, Carries, RecordsInv, DiskInv, Staged
  <2> HIDE DEF t
  <2> QED
    BY <2>1, <2>2, RecordsStep
<1>9. CASE InstallFails(a)
  BY <1>9, RecordsReturn DEF InstallFails
<1> QED
  BY <1>1, <1>2, <1>3, <1>4, <1>5, <1>6, <1>7, <1>8, <1>9 DEF InstallStep

LEMMA RecordsRegistry ==
  ASSUME TypeInv, RecordsInv, NEW a \in Actors, RegistryStep(a)
  PROVE  RecordsInv'
<1> USE DEF TypeInv, TypeOK
<1>1. CASE AddLoad(a)
  <2> PICK loaded \in Loads(a) :
             Continue(a, [task[a] EXCEPT !.pc = "addSave", !.loaded = loaded])
    BY <1>1 DEF AddLoad
  <2> DEFINE t == [task[a] EXCEPT !.pc = "addSave", !.loaded = loaded]
  <2>1. Continue(a, t) /\ registry' = registry
    BY <1>1 DEF AddLoad
  <2>2. \A id \in Ids : GoodRecord(loaded[id], id)
    BY DEF Loads, Unregistered, RecordsInv, RecordsAreWhole, GoodRecord
  <2>3. Carries(t)
    BY <1>1, <2>2 DEF AddLoad, Task, Carries, RecordsInv
  <2> HIDE DEF t
  <2> QED
    BY <2>1, <2>3, RecordsStep
<1>2. CASE AddSave(a)
  <2> DEFINE t == [task[a] EXCEPT !.pc = "repair", !.rec = NoRecord,
                                  !.loaded = Unregistered]
  <2>1. Continue(a, Rest) \/ Continue(a, t)
    BY <1>2 DEF AddSave, Return
  <2>2. Carries(t)
    BY Blanks, RestCarries DEF Task, Carries, RecordsInv
  <2>3. \A id \in Ids : GoodRecord(registry'[id], id)
    BY <1>2, SavedRecordsGood DEF AddSave
  <2> HIDE DEF t
  <2> QED
    BY <2>1, <2>2, <2>3, RestCarries, RecordsSave
<1>3. CASE ForgetNothing(a)
  BY <1>3, RecordsReturn DEF ForgetNothing
<1>4. CASE ForgetLoad(a)
  <2> DEFINE t == [task[a] EXCEPT !.pc = "forgetSave", !.loaded = registry]
  <2>1. Continue(a, t) /\ registry' = registry
    BY <1>4 DEF ForgetLoad
  <2>2. Carries(t)
    BY <1>4, Blanks, RestCarries
       DEF ForgetLoad, Task, Carries, RecordsInv, RecordsAreWhole, GoodRecord
  <2> HIDE DEF t
  <2> QED
    BY <2>1, <2>2, RecordsStep
<1>5. CASE ForgetSave(a)
  BY <1>5, SavedRecordsGood, RestCarries, RecordsSave DEF ForgetSave, Return
<1>6. CASE RegistryFails(a)
  <2>1. \A id \in Ids : GoodRecord(registry'[id], id)
    BY <1>6, SavedRecordsGood
       DEF RegistryFails, RecordsInv, RecordsAreWhole, GoodRecord
  <2> QED
    BY <1>6, <2>1, RestCarries, RecordsSave DEF RegistryFails, Return
<1> QED
  BY <1>1, <1>2, <1>3, <1>4, <1>5, <1>6 DEF RegistryStep

LEMMA RecordsRemove ==
  ASSUME TypeInv, RecordsInv, NEW a \in Actors, RemoveStep(a)
  PROVE  RecordsInv'
<1> USE DEF TypeInv, TypeOK
<1>1. CASE RemoveMissing(a)
  <2> DEFINE t == [task[a] EXCEPT !.pc = "forgetLoad"]
  <2>1. Continue(a, t) /\ registry' = registry
    BY <1>1 DEF RemoveMissing
  <2>2. Carries(t)
    BY <1>1, Blanks, RestCarries DEF RemoveMissing, Task, Carries, RecordsInv
  <2> HIDE DEF t
  <2> QED
    BY <2>1, <2>2, RecordsStep
<1>2. CASE RemoveOpen(a)
  <2> PICK d \in Generation(task[a].rec.id) :
             Continue(a, [task[a] EXCEPT !.pc = "delete", !.dir = d])
    BY <1>2 DEF RemoveOpen
  <2> DEFINE t == [task[a] EXCEPT !.pc = "delete", !.dir = d]
  <2>1. Carries(t)
    BY DEF Task, Carries, RecordsInv
  <2> HIDE DEF t
  <2> QED
    BY <1>2, <2>1, RecordsStep DEF RemoveOpen, t
<1>3. ASSUME NEW f \in Files, DeleteFile(a, f)
      PROVE  RecordsInv'
  BY <1>3, RecordsKept DEF DeleteFile
<1>4. CASE DeleteManifest(a)
  BY <1>4, RecordsKept DEF DeleteManifest
<1>5. CASE DeleteDirectory(a)
  <2> DEFINE t == [task[a] EXCEPT !.dir = NoDir,
                                  !.pc = IF task[a].op = "remove"
                                         THEN "forgetLoad" ELSE "scan"]
  <2>1. Continue(a, t) /\ registry' = registry
    BY <1>5 DEF DeleteDirectory
  <2>2. Carries(t)
    BY <1>5, Blanks, RestCarries DEF DeleteDirectory, Task, Carries, RecordsInv
  <2> HIDE DEF t
  <2> QED
    BY <2>1, <2>2, RecordsStep
<1>6. CASE DeleteFails(a)
  BY <1>6, RecordsReturn DEF DeleteFails
<1> QED
  BY <1>1, <1>2, <1>3, <1>4, <1>5, <1>6 DEF RemoveStep

LEMMA RecordsRecover ==
  ASSUME TypeInv, DiskInv, RecordsInv, NEW a \in Actors, RecoverStep(a)
  PROVE  RecordsInv'
<1> USE DEF TypeInv, TypeOK
<1>1. ASSUME NEW d \in Dirs, ScanStaging(a, d)
      PROVE  RecordsInv'
  <2> DEFINE t == [task[a] EXCEPT !.pc = "delete", !.dir = d,
                                  !.due = @ \ {<<d, "staging">>}]
  <2>1. Continue(a, t) /\ registry' = registry
    BY <1>1 DEF ScanStaging
  <2>2. Carries(t)
    BY <1>1, Blanks, RestCarries DEF ScanStaging, Task, Carries, RecordsInv
  <2> HIDE DEF t
  <2> QED
    BY <2>1, <2>2, RecordsStep
<1>2. ASSUME NEW d \in Dirs, ScanGeneration(a, d)
      PROVE  RecordsInv'
  <2> DEFINE due == task[a].due \ {<<d, "generation">>}
             found == task[a].found \cup ({dirs[d].manifest} \ {NoRecord})
             t == [task[a] EXCEPT !.due = due, !.found = found]
  <2>1. /\ Continue(a, t) /\ registry' = registry
        /\ task[a].pc = "scan"
    BY <1>2 DEF ScanGeneration
  <2>2. t.pc = task[a].pc /\ t.loaded = task[a].loaded /\ t.found = found
    <3> HIDE DEF due, found
    <3> QED
      BY DEF Task
  <2>3. \A r \in found : r.files = Payload
    BY DEF RecordsInv, Carries, DiskInv
  <2> HIDE DEF t, found
  <2>4. Carries(t)
    BY <2>1, <2>2, <2>3 DEF RecordsInv, Carries
  <2> QED
    BY <2>1, <2>4, RecordsStep
<1>3. ASSUME NEW d \in Dirs, ScanBlocked(a, d)
      PROVE  RecordsInv'
  BY <1>3, RecordsReturn DEF ScanBlocked
<1>4. CASE ScanDone(a)
  <2> PICK loaded \in Loads(a) :
             Continue(a, [task[a] EXCEPT !.pc = "repair", !.due = {},
                            !.known = {id \in Ids : loaded[id] # NoRecord}])
    BY <1>4 DEF ScanDone
  <2> DEFINE known == {id \in Ids : loaded[id] # NoRecord}
             t == [task[a] EXCEPT !.pc = "repair", !.due = {}, !.known = known]
  <2>1. Continue(a, t) /\ registry' = registry
    BY <1>4 DEF ScanDone
  <2>2. Carries(t)
    BY <1>4 DEF ScanDone, Task, Carries, RecordsInv
  <2> HIDE DEF t
  <2> QED
    BY <2>1, <2>2, RecordsStep
<1>5. CASE RecoverDone(a)
  BY <1>5, RecordsReturn DEF RecoverDone
<1>6. ASSUME NEW r \in task[a].found, Repair(a, r)
      PROVE  RecordsInv'
  <2> DEFINE t == [task[a] EXCEPT !.pc = "addLoad", !.rec = r,
                                  !.found = @ \ {r}]
             u == [task[a] EXCEPT !.found = @ \ {r}]
  <2>1. Continue(a, t) \/ Continue(a, u)
    BY <1>6 DEF Repair
  <2>2. Carries(t) /\ Carries(u)
    BY DEF Task, Carries, RecordsInv
  <2>3. registry' = registry
    BY <1>6 DEF Repair
  <2> HIDE DEF t, u
  <2> QED
    BY <2>1, <2>2, <2>3, RecordsStep
<1> QED
  BY <1>1, <1>2, <1>3, <1>4, <1>5, <1>6 DEF RecoverStep

LEMMA RecordsReadFails ==
  ASSUME TypeInv, RecordsInv, NEW a \in Actors, ReadFails(a)
  PROVE  RecordsInv'
  BY RecordsReturn DEF ReadFails

LEMMA RecordsEnvironment ==
  ASSUME TypeInv, RecordsInv,
         \/ \E p \in Processes : Crash(p)
         \/ \E d \in Dirs : EngineUsed(d)
  PROVE  RecordsInv'
<1>1. ASSUME NEW p \in Processes, Crash(p)
      PROVE  RecordsInv'
  <2>1. \A b \in Actors : task'[b] = Rest \/ task'[b] = task[b]
    BY <1>1 DEF Crash
  <2>2. \A b \in Actors : Carries(task'[b])
    BY <2>1, RestCarries DEF RecordsInv
  <2>3. registry' = registry
    BY <1>1 DEF Crash
  <2> QED
    BY <2>2, <2>3 DEF RecordsInv, RecordsAreWhole, Carries
<1>2. ASSUME NEW d \in Dirs, EngineUsed(d)
      PROVE  RecordsInv'
  BY <1>2, RecordsKept DEF EngineUsed
<1> QED
  BY <1>1, <1>2

LEMMA RecordsNext ==
  ASSUME TypeInv, DiskInv, RecordsInv, [Next]_vars
  PROVE  RecordsInv'
<1>1. CASE UNCHANGED vars
  BY <1>1, RecordsKept DEF vars
<1>2. CASE Next
  BY <1>2, RecordsBegin, RecordsInstall, RecordsRegistry, RecordsRemove,
     RecordsRecover, RecordsReadFails, RecordsEnvironment DEF Next, Step
<1> QED
  BY <1>1, <1>2

\* The inductive invariant holds for any number of threads and processes.
THEOREM Invariance ==
  ASSUME Isolated
  PROVE  Spec => []IInv
<1>1. Init => IInv
  BY TypeInit, DiskInit, RecordsInit DEF IInv
<1>2. IInv /\ [Next]_vars => IInv'
  BY TypeNext, DiskNext, RecordsNext DEF IInv
<1> QED
  BY <1>1, <1>2, PTL DEF Spec

\* registry.json never holds a record of a package that was not staged to the
\* end, nor one under the id of another package, although add and forget save
\* whatever they loaded before: lost updates lose records, they make none up.
THEOREM RegistryIsWhole ==
  ASSUME Isolated
  PROVE  Spec => []RecordsAreWhole
<1>1. IInv => RecordsAreWhole
  BY DEF IInv, RecordsInv
<1> QED
  BY <1>1, Invariance, PTL

-----------------------------------------------------------------------------
(* Immutability                                                             *)

\* A directory that a step leaves alone, or only adds files to, is kept.
LEMMA KeptIfUntouched ==
  ASSUME NEW d \in Dirs,
         \/ dirs'[d] = dirs[d]
         \/ /\ dirs'[d].name = dirs[d].name
            /\ dirs'[d].manifest = dirs[d].manifest
            /\ dirs[d].files \subseteq dirs'[d].files
  PROVE  Kept(d)
  BY DEF Kept

\* The directories an install or a removal works in are not generations that
\* anybody relies on.
LEMMA OwnDirectory ==
  ASSUME TypeInv, DiskInv, NEW a \in Actors,
         task[a].pc \in Staging \cup {"delete"}
  PROVE  /\ task[a].dir \in Dirs
         /\ Kept(task[a].dir)
<1>1. task[a].dir \in Dirs
  BY DEF TypeInv, Wired, WiredTask
<1>2. Here(a).name # "generation" \/ task[a].dir \in condemned
  BY DEF DiskInv, Staged, Deletes
<1> QED
  BY <1>1, <1>2 DEF Kept

LEMMA OwnStep ==
  ASSUME TypeInv, DiskInv, NEW a \in Actors,
         task[a].pc \in Staging \cup {"delete"},
         NEW e, dirs' = [dirs EXCEPT ![task[a].dir] = e]
  PROVE  \A d \in Dirs : Kept(d)
<1>1. ASSUME NEW d \in Dirs, d # task[a].dir
      PROVE  Kept(d)
  <2>1. dirs'[d] = dirs[d]
    BY <1>1, OwnDirectory DEF TypeInv, TypeOK
  <2> QED
    BY <2>1 DEF Kept
<1> QED
  BY <1>1, OwnDirectory

LEMMA KeptIfUnchanged ==
  ASSUME UNCHANGED dirs
  PROVE  \A d \in Dirs : Kept(d)
  BY DEF Kept

LEMMA InstallKeeps ==
  ASSUME TypeInv, DiskInv, NEW a \in Actors, Begin(a) \/ InstallStep(a)
  PROVE  \A d \in Dirs : Kept(d)
<1>1. ASSUME NEW id \in Ids, NEW recipe \in Recipes, NEW source \in Sources,
             NEW e \in Dirs, InstallNew(a, id, recipe, source, e)
      PROVE  \A d \in Dirs : Kept(d)
  <2>1. \A d \in Dirs : d # e => dirs'[d] = dirs[d]
    BY <1>1 DEF InstallNew, TypeInv, TypeOK
  <2>2. dirs[e].name = "none"
    BY <1>1 DEF InstallNew, Fresh
  <2> QED
    BY <2>1, <2>2 DEF Kept
<1>2. ASSUME NEW f \in Payload, Fetch(a, f)
      PROVE  \A d \in Dirs : Kept(d)
  BY <1>2, OwnStep DEF Fetch
<1>3. CASE Snapshot(a)
  BY <1>3, OwnStep DEF Snapshot
<1>4. CASE EngineWrites(a)
  BY <1>4, OwnStep DEF EngineWrites
<1>5. CASE Seal(a)
  BY <1>5, OwnStep DEF Seal
<1>6. CASE Activate(a)
  <2>1. task[a].dir \in Dirs /\ Kept(task[a].dir)
    BY <1>6, OwnDirectory DEF Activate
  <2>2. ASSUME NEW d \in Dirs, d # task[a].dir
        PROVE  Kept(d)
    <3>1. CASE d \in Generation(task[a].rec.id)
      <4>1. Hollow(d)
        BY <1>6, <3>1 DEF Activate, Vacant
      <4>2. dirs[d].name = "generation" /\ d \notin condemned =>
              dirs[d].manifest # NoRecord
        BY DEF DiskInv, WholeUnlessCondemned, Whole
      <4> QED
        BY <4>1, <4>2 DEF Hollow, Kept
    <3>2. CASE d \notin Generation(task[a].rec.id)
      <4>1. dirs'[d] = dirs[d]
        BY <1>6, <2>2, <3>2 DEF Activate
      <4> QED
        BY <4>1 DEF Kept
    <3> QED
      BY <3>1, <3>2
  <2> QED
    BY <2>1, <2>2
<1>7. CASE InstallFails(a)
  BY <1>7, OwnStep, KeptIfUnchanged DEF InstallFails
<1>8. CASE \/ LookupRefuses(a) \/ Lookup(a) \/ VerifyExisting(a)
           \/ \E id \in Ids : RemoveUnknown(a, id) \/ RemoveKnown(a, id)
           \/ RecoverStart(a)
  BY <1>8, KeptIfUnchanged DEF LookupRefuses, Lookup, VerifyExisting,
     RemoveUnknown, RemoveKnown, RecoverStart
<1>9. ASSUME NEW id \in Ids, NEW recipe \in Recipes, NEW source \in Sources,
             InstallExisting(a, id, recipe, source)
      PROVE  \A d \in Dirs : Kept(d)
  BY <1>9, KeptIfUnchanged DEF InstallExisting
<1> QED
  BY <1>1, <1>2, <1>3, <1>4, <1>5, <1>6, <1>7, <1>8, <1>9
     DEF Begin, InstallStep

LEMMA RemovalKeeps ==
  ASSUME TypeInv, DiskInv, NEW a \in Actors,
         RegistryStep(a) \/ RemoveStep(a) \/ RecoverStep(a) \/ ReadFails(a)
  PROVE  \A d \in Dirs : Kept(d)
<1>1. CASE RegistryStep(a)
  <2>1. UNCHANGED dirs
    BY <1>1 DEF RegistryStep, AddLoad, AddSave, ForgetNothing, ForgetLoad,
       ForgetSave, RegistryFails
  <2> QED
    BY <2>1, KeptIfUnchanged
<1>2. CASE RecoverStep(a)
  <2>1. UNCHANGED dirs
    BY <1>2 DEF RecoverStep, ScanStaging, ScanGeneration, ScanBlocked,
       ScanDone, RecoverDone, Repair
  <2> QED
    BY <2>1, KeptIfUnchanged
<1>3. ASSUME NEW f \in Files, DeleteFile(a, f)
      PROVE  \A d \in Dirs : Kept(d)
  BY <1>3, OwnStep DEF DeleteFile
<1>4. CASE DeleteManifest(a)
  BY <1>4, OwnStep DEF DeleteManifest
<1>5. CASE DeleteDirectory(a)
  BY <1>5, OwnStep DEF DeleteDirectory
<1>6. CASE RemoveMissing(a) \/ RemoveOpen(a) \/ DeleteFails(a) \/ ReadFails(a)
  <2>1. UNCHANGED dirs
    BY <1>6 DEF RemoveMissing, RemoveOpen, DeleteFails, ReadFails
  <2> QED
    BY <2>1, KeptIfUnchanged
<1> QED
  BY <1>1, <1>2, <1>3, <1>4, <1>5, <1>6 DEF RemoveStep

LEMMA NextKeeps ==
  ASSUME TypeInv, DiskInv, [Next]_vars
  PROVE  \A d \in Dirs : Kept(d)
<1>1. CASE UNCHANGED vars
  BY <1>1, KeptIfUnchanged DEF vars
<1>2. ASSUME NEW e \in Dirs, EngineUsed(e)
      PROVE  \A d \in Dirs : Kept(d)
  <2>1. /\ \A d \in Dirs : d # e => dirs'[d] = dirs[d]
        /\ dirs'[e] = [dirs[e] EXCEPT !.files = @ \cup {Stray}]
    BY <1>2 DEF EngineUsed, TypeInv, TypeOK
  <2>2. /\ dirs'[e].name = dirs[e].name
        /\ dirs'[e].manifest = dirs[e].manifest
        /\ dirs[e].files \subseteq dirs'[e].files
    BY <2>1 DEF Directory, TypeInv, TypeOK
  <2> QED
    BY <2>1, <2>2, KeptIfUntouched
<1>3. ASSUME NEW p \in Processes, Crash(p)
      PROVE  \A d \in Dirs : Kept(d)
  BY <1>3, KeptIfUnchanged DEF Crash
<1>4. ASSUME NEW a \in Actors, Begin(a) \/ Step(a)
      PROVE  \A d \in Dirs : Kept(d)
  BY <1>4, InstallKeeps, RemovalKeeps DEF Step
<1> QED
  BY <1>1, <1>2, <1>3, <1>4 DEF Next

\* An activated generation is never replaced, emptied or rewritten by another
\* install, a failure, a crash or a recovery: only a removal that somebody
\* asked for takes it away.
THEOREM GenerationsAreImmutable ==
  ASSUME Isolated
  PROVE  Spec => OnlyRemovalTakesAway
<1>1. IInv /\ [Next]_vars => [\A d \in Dirs : Kept(d)]_vars
  BY NextKeeps DEF IInv
<1> QED
  BY <1>1, Invariance, PTL DEF Spec, OnlyRemovalTakesAway

-----------------------------------------------------------------------------
(* One thread: what an operation promises when it returns                   *)

\* No other thread is saving: load and save do what they say.
LEMMA Alone ==
  ASSUME Single, NEW a \in Actors
  PROVE  /\ Loads(a) = {registry}
         /\ \A written : Saves(a, written) = {written}
<1>1. BeingSaved(a) = {}
  BY DEF BeingSaved, Single
<1> QED
  BY <1>1 DEF Loads, Saves

\* A step that activates nothing.
LEMMA PathsStep ==
  ASSUME PathsInv,
         \A d \in Dirs : dirs'[d].name = "generation" =>
           /\ dirs[d].name = "generation"
           /\ dirs'[d].id = dirs[d].id
           /\ dirs'[d].manifest \in {dirs[d].manifest, NoRecord}
  PROVE  PathsInv'
  BY DEF PathsInv

LEMMA PathsInstall ==
  ASSUME TypeInv, DiskInv, PathsInv, NEW a \in Actors, InstallStep(a)
  PROVE  PathsInv'
<1> USE DEF TypeInv, TypeOK
<1>0. task[a].pc \in Staging => task[a].dir \in Dirs /\ Staged(a)
  BY DEF Wired, WiredTask, DiskInv
<1>1. CASE UNCHANGED dirs
  BY <1>1 DEF PathsInv
<1>2. ASSUME NEW f \in Payload, Fetch(a, f)
      PROVE  PathsInv'
  <2>1. \A d \in Dirs : d # task[a].dir => dirs'[d] = dirs[d]
    BY <1>2 DEF Fetch
  <2>2. dirs'[task[a].dir].name = "staging"
    BY <1>0, <1>2 DEF Fetch, Staged, Directory
  <2> QED
    BY <2>1, <2>2, PathsStep
<1>3. CASE Snapshot(a)
  <2>1. \A d \in Dirs : d # task[a].dir => dirs'[d] = dirs[d]
    BY <1>3 DEF Snapshot
  <2>2. dirs'[task[a].dir].name = "staging"
    BY <1>0, <1>3 DEF Snapshot, Staged, Directory
  <2> QED
    BY <2>1, <2>2, PathsStep
<1>4. CASE EngineWrites(a)
  <2>1. \A d \in Dirs : d # task[a].dir => dirs'[d] = dirs[d]
    BY <1>4 DEF EngineWrites
  <2>2. dirs'[task[a].dir].name = "staging"
    BY <1>0, <1>4 DEF EngineWrites, Staged, Directory
  <2> QED
    BY <2>1, <2>2, PathsStep
<1>5. CASE Seal(a)
  <2>1. \A d \in Dirs : d # task[a].dir => dirs'[d] = dirs[d]
    BY <1>5 DEF Seal
  <2>2. dirs'[task[a].dir].name = "staging"
    BY <1>0, <1>5 DEF Seal, Staged, Directory
  <2> QED
    BY <2>1, <2>2, PathsStep
<1>6. CASE Activate(a)
  <2> DEFINE id == task[a].rec.id
  <2>1. /\ task[a].dir \in Dirs
        /\ Here(a).id = id
        /\ Here(a).manifest = task[a].rec
    BY <1>0, <1>6 DEF Activate, Staged
  <2>2. dirs'[task[a].dir] = [Here(a) EXCEPT !.name = "generation"]
    BY <1>6, <2>1 DEF Activate
  <2>3. /\ dirs'[task[a].dir].id = id
        /\ dirs'[task[a].dir].manifest = task[a].rec
    BY <2>1, <2>2 DEF Directory
  <2>4. ASSUME NEW d \in Dirs, d # task[a].dir, dirs'[d].name = "generation"
        PROVE  dirs'[d] = dirs[d] /\ dirs[d].id # id
    BY <1>6, <2>4, Blanks DEF Activate, Generation, Nothing
  <2> HIDE DEF id
  <2> QED
    BY <2>1, <2>3, <2>4 DEF PathsInv, id
<1>7. CASE InstallFails(a)
  <2>1. \A d \in Dirs : dirs'[d] = dirs[d] \/ dirs'[d] = Nothing
    BY <1>7 DEF InstallFails
  <2>2. Nothing.name = "none"
    BY DEF Nothing
  <2> QED
    BY <2>1, <2>2, PathsStep
<1> QED
  BY <1>1, <1>2, <1>3, <1>4, <1>5, <1>6, <1>7
     DEF InstallStep, LookupRefuses, Lookup, VerifyExisting

LEMMA PathsRemove ==
  ASSUME TypeInv, PathsInv, NEW a \in Actors, RemoveStep(a)
  PROVE  PathsInv'
<1> USE DEF TypeInv, TypeOK
<1>0. At(a, "delete") => task[a].dir \in Dirs
  BY DEF Wired, WiredTask
<1>1. CASE UNCHANGED dirs
  BY <1>1 DEF PathsInv
<1>2. ASSUME NEW f \in Files, DeleteFile(a, f)
      PROVE  PathsInv'
  <2>1. \A d \in Dirs : /\ dirs'[d].name = dirs[d].name
                        /\ dirs'[d].id = dirs[d].id
                        /\ dirs'[d].manifest = dirs[d].manifest
    BY <1>0, <1>2 DEF DeleteFile, Directory
  <2> QED
    BY <2>1, PathsStep
<1>3. CASE DeleteManifest(a)
  <2>1. \A d \in Dirs : /\ dirs'[d].name = dirs[d].name
                        /\ dirs'[d].id = dirs[d].id
                        /\ dirs'[d].manifest \in {dirs[d].manifest, NoRecord}
    BY <1>0, <1>3 DEF DeleteManifest, Directory
  <2> QED
    BY <2>1, PathsStep
<1>4. CASE DeleteDirectory(a)
  <2>1. \A d \in Dirs : dirs'[d] = dirs[d] \/ dirs'[d] = Nothing
    BY <1>4 DEF DeleteDirectory
  <2>2. Nothing.name = "none"
    BY DEF Nothing
  <2> QED
    BY <2>1, <2>2, PathsStep
<1> QED
  BY <1>1, <1>2, <1>3, <1>4
     DEF RemoveStep, RemoveMissing, RemoveOpen, DeleteFails

LEMMA PathsNext ==
  ASSUME TypeInv, DiskInv, PathsInv, [Next]_vars
  PROVE  PathsInv'
<1> USE DEF TypeInv, TypeOK
<1>1. CASE UNCHANGED dirs
  BY <1>1 DEF PathsInv
<1>2. ASSUME NEW a \in Actors, InstallStep(a) \/ RemoveStep(a)
      PROVE  PathsInv'
  BY <1>2, PathsInstall, PathsRemove
<1>3. ASSUME NEW a \in Actors, NEW id \in Ids, NEW recipe \in Recipes,
             NEW source \in Sources, NEW d \in Dirs,
             InstallNew(a, id, recipe, source, d)
      PROVE  PathsInv'
  <2>1. \A e \in Dirs : e # d => dirs'[e] = dirs[e]
    BY <1>3 DEF InstallNew
  <2>2. dirs'[d].name = "staging"
    BY <1>3 DEF InstallNew
  <2> QED
    BY <2>1, <2>2, PathsStep
<1>4. ASSUME NEW d \in Dirs, EngineUsed(d)
      PROVE  PathsInv'
  <2>1. \A e \in Dirs : /\ dirs'[e].name = dirs[e].name
                        /\ dirs'[e].id = dirs[e].id
                        /\ dirs'[e].manifest = dirs[e].manifest
    BY <1>4 DEF EngineUsed, Directory
  <2> QED
    BY <2>1, PathsStep
<1>5. ASSUME NEW a \in Actors, RegistryStep(a) \/ RecoverStep(a) \/ ReadFails(a)
      PROVE  UNCHANGED dirs
  BY <1>5 DEF RegistryStep, AddLoad, AddSave, ForgetNothing, ForgetLoad,
     ForgetSave, RegistryFails, RecoverStep, ScanStaging, ScanGeneration,
     ScanBlocked, ScanDone, RecoverDone, Repair, ReadFails
<1>6. ASSUME NEW a \in Actors, Begin(a)
      PROVE  \/ UNCHANGED dirs
             \/ \E id \in Ids, recipe \in Recipes, source \in Sources,
                   d \in Dirs : InstallNew(a, id, recipe, source, d)
  BY <1>6 DEF Begin, InstallExisting, RemoveUnknown, RemoveKnown, RecoverStart
<1>7. ASSUME NEW p \in Processes, Crash(p)
      PROVE  UNCHANGED dirs
  BY <1>7 DEF Crash
<1>8. CASE UNCHANGED vars
  BY <1>1, <1>8 DEF vars
<1> QED
  BY <1>1, <1>2, <1>3, <1>4, <1>5, <1>6, <1>7, <1>8 DEF Next, Step

-----------------------------------------------------------------------------

LEMMA NothingKnown ==
  ASSUME NEW a \in Actors, task'[a] = Rest
  PROVE  Knows(a)'
  BY Blanks DEF Knows, InstallKnows, RemoveKnows, RecoverKnows

LEMMA KnowsReturn ==
  ASSUME TypeInv, NEW a \in Actors, NEW r, Return(a, r)
  PROVE  Knows(a)'
  BY FrameReturn, NothingKnown

LEMMA KnowsBegin ==
  ASSUME TypeInv, NEW a \in Actors, Begin(a)
  PROVE  Knows(a)'
<1> USE DEF TypeInv, TypeOK
<1>1. ASSUME NEW id \in Ids, NEW recipe \in Recipes, NEW source \in Sources,
             InstallExisting(a, id, recipe, source)
      PROVE  Knows(a)'
  <2> DEFINE r == [id |-> id, recipe |-> recipe, source |-> source,
                   files |-> {}]
  <2>0. task'[a] = [Rest EXCEPT !.op = "install", !.pc = "lookup", !.rec = r]
    BY <1>1, Frame DEF InstallExisting
  <2> HIDE DEF r
  <2>1. task'[a].op = "install" /\ task'[a].pc = "lookup"
    BY <2>0, Blanks DEF Task
  <2> QED
    BY <2>1 DEF Knows, InstallKnows, RemoveKnows, RecoverKnows
<1>2. ASSUME NEW id \in Ids, NEW recipe \in Recipes, NEW source \in Sources,
             NEW d \in Dirs, InstallNew(a, id, recipe, source, d)
      PROVE  Knows(a)'
  <2> DEFINE r == [id |-> id, recipe |-> recipe, source |-> source,
                   files |-> {}]
  <2>0. task'[a] = [Rest EXCEPT !.op = "install", !.pc = "fetch", !.dir = d,
                                !.todo = Payload, !.rec = r]
    BY <1>2, Frame DEF InstallNew
  <2> HIDE DEF r
  <2>1. task'[a].op = "install" /\ task'[a].pc = "fetch"
    BY <2>0, Blanks DEF Task
  <2> QED
    BY <2>1 DEF Knows, InstallKnows, RemoveKnows, RecoverKnows
<1>3. ASSUME NEW id \in Ids, RemoveUnknown(a, id)
      PROVE  Knows(a)'
  BY <1>3, KnowsReturn DEF RemoveUnknown
<1>4. ASSUME NEW id \in Ids, RemoveKnown(a, id)
      PROVE  Knows(a)'
  <2>0. task'[a] = [Rest EXCEPT !.op = "remove", !.pc = "open",
                                !.rec = registry[id]]
    BY <1>4, Frame DEF RemoveKnown
  <2>1. task'[a].op = "remove" /\ task'[a].pc = "open"
    BY <2>0, Blanks DEF Task
  <2> QED
    BY <2>1 DEF Knows, InstallKnows, RemoveKnows, RecoverKnows
<1>5. CASE RecoverStart(a)
  <2> DEFINE visits == {<<d, dirs[d].name>> :
                          d \in {e \in Dirs : dirs[e].name # "none"}}
  <2>0. task'[a] = [Rest EXCEPT !.op = "recover", !.pc = "scan",
                                !.due = visits]
    BY <1>5, Frame DEF RecoverStart
  <2> HIDE DEF visits
  <2>1. /\ task'[a].op = "recover" /\ task'[a].pc = "scan"
        /\ task'[a].due = visits
    BY <2>0, Blanks DEF Task
  <2>2. dirs' = dirs
    BY <1>5 DEF RecoverStart
  <2>3. ScanKnows(a)'
    BY <2>1, <2>2 DEF ScanKnows, visits
  <2> QED
    BY <2>1, <2>3 DEF Knows, InstallKnows, RemoveKnows, RecoverKnows
<1> QED
  BY <1>1, <1>2, <1>3, <1>4, <1>5 DEF Begin

LEMMA KnowsInstall ==
  ASSUME Single, TypeInv, DiskInv, RecordsInv, SoloInv, NEW a \in Actors,
         InstallStep(a)
  PROVE  Knows(a)'
<1> USE DEF TypeInv, TypeOK
<1>0. task[a].pc \in Staging => task[a].dir \in Dirs /\ Staged(a)
  BY DEF Wired, WiredTask, DiskInv
<1>1. CASE LookupRefuses(a) \/ VerifyExisting(a) \/ InstallFails(a)
  BY <1>1, KnowsReturn DEF LookupRefuses, VerifyExisting, InstallFails
<1>2. CASE Lookup(a)
  <2>1. /\ task[a].op = "install" /\ task[a].rec \in InstallRecord
        /\ registry[task[a].rec.id] # NoRecord
    BY <1>2 DEF Lookup, Matches, Wired, WiredTask
  <2> DEFINE r == registry[task[a].rec.id]
  <2>4. task'[a] = [task[a] EXCEPT !.pc = "verify", !.rec = r]
    BY <1>2, Frame DEF Lookup
  <2> HIDE DEF r
  <2>2. /\ task'[a].op = "install" /\ task'[a].pc = "verify"
        /\ task'[a].rec = r
    BY <2>1, <2>4 DEF Task
  <2>3. registry[task[a].rec.id].id = task[a].rec.id /\ registry' = registry
    BY <1>2, <2>1 DEF Lookup, InstallRecord, RecordsInv, RecordsAreWhole
  <2> QED
    BY <2>2, <2>3 DEF r, Knows, InstallKnows, RemoveKnows, RecoverKnows
<1>3. CASE /\ task[a].pc \in Staging /\ task'[a].op = "install"
           /\ task'[a].pc \in Staging
  BY <1>3 DEF Knows, InstallKnows, RemoveKnows, RecoverKnows
<1>4. task[a].pc \in Staging => task[a].op = "install"
  BY DEF Wired, WiredTask
<1>5. ASSUME NEW f \in Payload, Fetch(a, f)
      PROVE  Knows(a)'
  <2>1. task'[a].op = "install" /\ task'[a].pc \in Staging
    BY <1>4, <1>5, Frame DEF Fetch, Task
  <2> QED
    BY <1>3, <1>5, <2>1 DEF Fetch
<1>6. CASE Snapshot(a)
  <2> DEFINE r == [task[a].rec EXCEPT !.files = Here(a).files \ {Downloads}]
  <2>1. task'[a] = [task[a] EXCEPT !.pc = "check", !.rec = r]
    BY <1>6, Frame DEF Snapshot
  <2> HIDE DEF r
  <2>2. task'[a].op = "install" /\ task'[a].pc = "check"
    BY <1>4, <1>6, <2>1 DEF Snapshot, Task
  <2> QED
    BY <1>3, <1>6, <2>2 DEF Snapshot
<1>7. CASE EngineWrites(a)
  BY <1>3, <1>4, <1>7 DEF EngineWrites
<1>8. CASE Seal(a)
  <2>1. task'[a].op = "install" /\ task'[a].pc \in Staging
    BY <1>4, <1>8, Frame DEF Seal, Task
  <2> QED
    BY <1>3, <1>8, <2>1 DEF Seal
<1>9. CASE Activate(a)
  <2>0. task'[a] = [task[a] EXCEPT !.pc = "addLoad", !.dir = NoDir]
    BY <1>9, Frame DEF Activate
  <2>1. /\ task'[a].op = "install" /\ task'[a].pc = "addLoad"
        /\ task'[a].rec = task[a].rec
    BY <1>4, <1>9, <2>0 DEF Activate, Task
  <2>2. /\ task[a].dir \in Dirs
        /\ Here(a).id = task[a].rec.id
        /\ Here(a).recipe = task[a].rec.recipe
        /\ Payload \subseteq Here(a).files
    BY <1>0, <1>9 DEF Activate, Staged
  <2>3. dirs'[task[a].dir] = [Here(a) EXCEPT !.name = "generation"]
    BY <1>9, <2>2 DEF Activate
  <2>4. /\ dirs'[task[a].dir].name = "generation"
        /\ dirs'[task[a].dir].id = task[a].rec.id
        /\ dirs'[task[a].dir].recipe = task[a].rec.recipe
        /\ Payload \subseteq dirs'[task[a].dir].files
    BY <2>2, <2>3 DEF Directory
  <2>5. Usable(task[a].rec)'
    BY <2>1, <2>2, <2>4 DEF Usable, Generation
  <2> QED
    BY <2>1, <2>5 DEF Knows, InstallKnows, RemoveKnows, RecoverKnows
<1> QED
  BY <1>1, <1>2, <1>5, <1>6, <1>7, <1>8, <1>9 DEF InstallStep

LEMMA KnowsRegistry ==
  ASSUME Single, TypeInv, DiskInv, RecordsInv, SoloInv, NEW a \in Actors,
         RegistryStep(a)
  PROVE  Knows(a)'
<1> USE DEF TypeInv, TypeOK
<1>0. Knows(a) /\ Loads(a) = {registry} /\ Wired(a)
      /\ \A written : Saves(a, written) = {written}
  BY Alone DEF SoloInv
<1>1. CASE AddLoad(a)
  <2>1. task'[a] = [task[a] EXCEPT !.pc = "addSave", !.loaded = registry]
    BY <1>0, <1>1, Frame DEF AddLoad
  <2>2. /\ task'[a].pc = "addSave" /\ task'[a].loaded = registry
        /\ task'[a].op = task[a].op /\ task'[a].rec = task[a].rec
        /\ task'[a].found = task[a].found /\ task'[a].known = task[a].known
    BY <2>1 DEF Task
  <2>3. UNCHANGED <<dirs, registry>> /\ task[a].pc = "addLoad"
    BY <1>1 DEF AddLoad
  <2>4. InstallKnows(a)' /\ RemoveKnows(a)'
    BY <1>0, <2>2, <2>3
       DEF Knows, InstallKnows, RemoveKnows, Usable, Generation
  <2>5. RecoverKnows(a)'
    BY <1>0, <2>2, <2>3
       DEF Knows, RecoverKnows, RepairKnows, Verified, Generation
  <2> QED
    BY <2>4, <2>5 DEF Knows
<1>2. CASE AddSave(a)
  <2>1. CASE Return(a, "ready")
    BY <2>1, KnowsReturn
  <2>2. CASE /\ task[a].op = "recover"
             /\ Continue(a, [task[a] EXCEPT !.pc = "repair", !.rec = NoRecord,
                                            !.loaded = Unregistered])
    <3>1. task'[a] = [task[a] EXCEPT !.pc = "repair", !.rec = NoRecord,
                                     !.loaded = Unregistered]
      BY <2>2, Frame
    <3>2. /\ task'[a].pc = "repair" /\ task'[a].op = "recover"
          /\ task'[a].found = task[a].found /\ task'[a].known = task[a].known
      BY <2>2, <3>1 DEF Task
    <3>3. /\ task[a].pc = "addSave" /\ task[a].loaded = registry
          /\ RepairKnows(a) /\ dirs' = dirs /\ task[a].rec \in InstallRecord
      BY <1>0, <1>2, <2>2
         DEF AddSave, Knows, InstallKnows, RecoverKnows, WiredTask, Wired
    <3>4. registry' = [registry EXCEPT ![task[a].rec.id] = task[a].rec]
      BY <1>0, <1>2, <3>3 DEF AddSave, Added
    <3>5. /\ registry \in [Ids -> MaybeRecord] /\ task[a].rec.id \in Ids
          /\ task[a].rec # NoRecord
      BY <3>3, AbsentAssumption DEF Registry, InstallRecord
    <3>6. /\ registry'[task[a].rec.id] # NoRecord
          /\ \A id \in Ids : registry[id] # NoRecord => registry'[id] # NoRecord
      BY <3>4, <3>5
    <3>7. task[a].known \subseteq Ids
      BY DEF Task
    <3>8. \A d \in Dirs : dirs[d].id \in Ids
      BY DEF Directory
    <3>9. RepairKnows(a)'
      BY <3>2, <3>3, <3>6, <3>7, <3>8
         DEF RepairKnows, Verified, Generation, SoloInv, PathsInv
    <3> QED
      BY <3>2, <3>9 DEF Knows, InstallKnows, RemoveKnows, RecoverKnows
  <2> QED
    BY <1>2, <2>1, <2>2 DEF AddSave
<1>3. CASE ForgetNothing(a) \/ ForgetSave(a) \/ RegistryFails(a)
  BY <1>3, KnowsReturn DEF ForgetNothing, ForgetSave, RegistryFails
<1>4. CASE ForgetLoad(a)
  <2>1. task'[a] = [task[a] EXCEPT !.pc = "forgetSave", !.loaded = registry]
    BY <1>4, Frame DEF ForgetLoad
  <2>2. /\ task'[a].pc = "forgetSave" /\ task'[a].loaded = registry
        /\ task'[a].op = task[a].op /\ task'[a].rec = task[a].rec
    BY <2>1 DEF Task
  <2>3. /\ UNCHANGED <<dirs, registry>> /\ task[a].pc = "forgetLoad"
        /\ task[a].op = "remove"
    BY <1>0, <1>4 DEF ForgetLoad, Wired, WiredTask
  <2> QED
    BY <1>0, <2>2, <2>3
       DEF Knows, InstallKnows, RemoveKnows, RecoverKnows, Generation
<1> QED
  BY <1>1, <1>2, <1>3, <1>4 DEF RegistryStep

LEMMA KnowsRemove ==
  ASSUME Single, TypeInv, DiskInv, RecordsInv, SoloInv, NEW a \in Actors,
         RemoveStep(a)
  PROVE  Knows(a)'
<1> USE DEF TypeInv, TypeOK
<1>0. Knows(a) /\ PathsInv /\ Wired(a)
  BY DEF SoloInv
<1>1. CASE RemoveMissing(a)
  <2>1. task'[a] = [task[a] EXCEPT !.pc = "forgetLoad"]
    BY <1>1, Frame DEF RemoveMissing
  <2>2. /\ task'[a].pc = "forgetLoad" /\ task'[a].op = "remove"
        /\ task'[a].rec = task[a].rec
    BY <1>0, <1>1, <2>1 DEF RemoveMissing, Task, Wired, WiredTask
  <2>3. dirs' = dirs /\ Generation(task[a].rec.id) = {}
    BY <1>1 DEF RemoveMissing
  <2> QED
    BY <2>2, <2>3
       DEF Knows, InstallKnows, RemoveKnows, RecoverKnows, Generation
<1>2. CASE RemoveOpen(a)
  <2> PICK d \in Generation(task[a].rec.id) :
             Continue(a, [task[a] EXCEPT !.pc = "delete", !.dir = d])
    BY <1>2 DEF RemoveOpen
  <2>1. task'[a] = [task[a] EXCEPT !.pc = "delete", !.dir = d]
    BY Frame
  <2>2. /\ task'[a].pc = "delete" /\ task'[a].op = "remove"
        /\ task'[a].rec = task[a].rec /\ task'[a].dir = d
    BY <1>0, <1>2, <2>1 DEF RemoveOpen, Task, Wired, WiredTask
  <2>3. dirs' = dirs
    BY <1>2 DEF RemoveOpen
  <2> QED
    BY <2>2, <2>3
       DEF Knows, InstallKnows, RemoveKnows, RecoverKnows, Generation
<1>3. ASSUME At(a, "delete"), task' = task, registry' = registry,
             \A d \in Dirs :
               /\ dirs'[d].name = dirs[d].name /\ dirs'[d].id = dirs[d].id
               /\ dirs'[d].manifest \in {dirs[d].manifest, NoRecord}
      PROVE  Knows(a)'
  <2>1. InstallKnows(a)'
    BY <1>3 DEF InstallKnows
  <2>2. RemoveKnows(a)'
    BY <1>0, <1>3 DEF Knows, RemoveKnows, Generation
  <2>3. RecoverKnows(a)'
    BY <1>0, <1>3 DEF Knows, RecoverKnows, ScanKnows
  <2> QED
    BY <2>1, <2>2, <2>3 DEF Knows
<1>4. ASSUME NEW f \in Files, DeleteFile(a, f)
      PROVE  Knows(a)'
  <2>1. \A d \in Dirs : /\ dirs'[d].name = dirs[d].name
                        /\ dirs'[d].id = dirs[d].id
                        /\ dirs'[d].manifest = dirs[d].manifest
    BY <1>0, <1>4 DEF DeleteFile, Directory
  <2> QED
    BY <1>3, <1>4, <2>1 DEF DeleteFile
<1>5. CASE DeleteManifest(a)
  <2>1. \A d \in Dirs : /\ dirs'[d].name = dirs[d].name
                        /\ dirs'[d].id = dirs[d].id
                        /\ dirs'[d].manifest \in {dirs[d].manifest, NoRecord}
    BY <1>0, <1>5 DEF DeleteManifest, Directory
  <2> QED
    BY <1>3, <1>5, <2>1 DEF DeleteManifest
<1>6. CASE DeleteDirectory(a)
  <2>1. task'[a] = [task[a] EXCEPT !.dir = NoDir,
                            !.pc = IF task[a].op = "remove"
                                   THEN "forgetLoad" ELSE "scan"]
    BY <1>6, Frame DEF DeleteDirectory
  <2>2. /\ task'[a].op = task[a].op /\ task'[a].rec = task[a].rec
        /\ task'[a].due = task[a].due /\ task'[a].found = task[a].found
        /\ task'[a].pc = IF task[a].op = "remove" THEN "forgetLoad" ELSE "scan"
    BY <2>1 DEF Task
  <2>3. /\ task[a].dir \in Dirs
        /\ dirs' = [dirs EXCEPT ![task[a].dir] = Nothing]
        /\ At(a, "delete") /\ task[a].op \in {"remove", "recover"}
    BY <1>0, <1>6 DEF DeleteDirectory, Wired, WiredTask
  <2>4. Nothing.name = "none"
    BY DEF Nothing
  <2>5. CASE task[a].op = "remove"
    <3>1. task[a].dir \in Generation(task[a].rec.id)
      BY <1>0, <2>3, <2>5 DEF Knows, RemoveKnows
    <3>2. \A d \in Generation(task[a].rec.id) : d = task[a].dir
      BY <1>0, <3>1 DEF PathsInv, Generation
    <3>3. Generation(task[a].rec.id)' = {}
      BY <2>2, <2>3, <2>4, <3>2 DEF Generation
    <3> QED
      BY <2>2, <2>5, <3>3 DEF Knows, InstallKnows, RemoveKnows, RecoverKnows
  <2>6. CASE task[a].op = "recover"
    <3>1. ScanKnows(a)
      BY <1>0, <2>3, <2>6 DEF Knows, RecoverKnows
    <3>2. ScanKnows(a)'
      BY <2>2, <2>3, <2>4, <3>1 DEF ScanKnows
    <3> QED
      BY <2>2, <2>6, <3>2 DEF Knows, InstallKnows, RemoveKnows, RecoverKnows
  <2> QED
    BY <2>3, <2>5, <2>6
<1>7. CASE DeleteFails(a)
  BY <1>7, KnowsReturn DEF DeleteFails
<1> QED
  BY <1>1, <1>2, <1>4, <1>5, <1>6, <1>7 DEF RemoveStep

LEMMA KnowsRecover ==
  ASSUME Single, TypeInv, DiskInv, RecordsInv, SoloInv, NEW a \in Actors,
         RecoverStep(a)
  PROVE  Knows(a)'
<1> USE DEF TypeInv, TypeOK
<1>0. Knows(a) /\ PathsInv /\ Wired(a) /\ Loads(a) = {registry}
  BY Alone DEF SoloInv
<1>1. ASSUME NEW d \in Dirs, ScanStaging(a, d)
      PROVE  Knows(a)'
  <2> DEFINE rest == task[a].due \ {<<d, "staging">>}
  <2>1. task'[a] = [task[a] EXCEPT !.pc = "delete", !.dir = d, !.due = rest]
    BY <1>1, Frame DEF ScanStaging
  <2> HIDE DEF rest
  <2>2. /\ task'[a].pc = "delete" /\ task'[a].op = "recover"
        /\ task'[a].dir = d /\ task'[a].due = rest
        /\ task'[a].found = task[a].found
    BY <1>0, <1>1, <2>1 DEF ScanStaging, Task, Wired, WiredTask
  <2>3. dirs' = dirs /\ ScanKnows(a) /\ At(a, "scan")
    BY <1>0, <1>1 DEF ScanStaging, Knows, RecoverKnows, Wired, WiredTask
  <2>4. ScanKnows(a)'
    BY <2>2, <2>3 DEF ScanKnows, rest
  <2> QED
    BY <2>2, <2>4 DEF Knows, InstallKnows, RemoveKnows, RecoverKnows
<1>2. ASSUME NEW d \in Dirs, ScanGeneration(a, d)
      PROVE  Knows(a)'
  <2> DEFINE rest == task[a].due \ {<<d, "generation">>}
             more == task[a].found \cup ({dirs[d].manifest} \ {NoRecord})
  <2>1. task'[a] = [task[a] EXCEPT !.due = rest, !.found = more]
    BY <1>2, Frame DEF ScanGeneration
  <2> HIDE DEF rest, more
  <2>2. /\ task'[a].pc = "scan" /\ task'[a].op = "recover"
        /\ task'[a].due = rest /\ task'[a].found = more
    BY <1>0, <1>2, <2>1 DEF ScanGeneration, Task, Wired, WiredTask
  <2>3. dirs' = dirs /\ ScanKnows(a) /\ At(a, "scan")
    BY <1>0, <1>2 DEF ScanGeneration, Knows, RecoverKnows, Wired, WiredTask
  <2>4. ScanKnows(a)'
    BY <2>2, <2>3 DEF ScanKnows, rest, more
  <2> QED
    BY <2>2, <2>4 DEF Knows, InstallKnows, RemoveKnows, RecoverKnows
<1>3. CASE ScanDone(a)
  <2> DEFINE known == {id \in Ids : registry[id] # NoRecord}
  <2>1. task'[a] = [task[a] EXCEPT !.pc = "repair", !.due = {},
                                   !.known = known]
    BY <1>0, <1>3, Frame DEF ScanDone
  <2> HIDE DEF known
  <2>2. /\ task'[a].pc = "repair" /\ task'[a].op = "recover"
        /\ task'[a].known = known /\ task'[a].found = task[a].found
    BY <1>0, <1>3, <2>1 DEF ScanDone, Task, Wired, WiredTask
  <2>3. UNCHANGED <<dirs, registry>> /\ ScanKnows(a) /\ At(a, "scan")
    BY <1>0, <1>3 DEF ScanDone, Knows, RecoverKnows, Wired, WiredTask
  <2>4. \A d \in Dirs : /\ <<d, "staging">> \in task[a].due =>
                             dirs[d].name # "staging"
                        /\ <<d, "generation">> \in task[a].due =>
                             dirs[d].name # "generation"
    BY <1>3 DEF ScanDone
  <2>5. RepairKnows(a)'
    BY <2>2, <2>3, <2>4 DEF ScanKnows, RepairKnows, known
  <2> QED
    BY <2>2, <2>5 DEF Knows, InstallKnows, RemoveKnows, RecoverKnows
<1>4. ASSUME NEW r \in task[a].found, Repair(a, r)
      PROVE  Knows(a)'
  <2> DEFINE rest == task[a].found \ {r}
  <2>1. /\ UNCHANGED <<dirs, registry>> /\ RepairKnows(a) /\ At(a, "repair")
        /\ task[a].op = "recover" /\ r.id \in Ids
    BY <1>0, <1>4
       DEF Repair, Knows, RecoverKnows, Wired, WiredTask, Task, InstallRecord
  <2>2. CASE NeedsRepair(a, r)
    <3>1. task'[a] = [task[a] EXCEPT !.pc = "addLoad", !.rec = r,
                                     !.found = rest]
      BY <1>4, <2>2, Frame DEF Repair
    <3> HIDE DEF rest
    <3>2. /\ task'[a].pc = "addLoad" /\ task'[a].op = "recover"
          /\ task'[a].rec = r /\ task'[a].found = rest
          /\ task'[a].known = task[a].known
      BY <2>1, <3>1 DEF Task
    <3>3. RepairKnows(a)'
      BY <2>1, <3>2 DEF RepairKnows, Verified, Generation, rest
    <3> QED
      BY <3>2, <3>3 DEF Knows, InstallKnows, RemoveKnows, RecoverKnows
  <2>3. CASE ~NeedsRepair(a, r)
    <3>1. task'[a] = [task[a] EXCEPT !.found = rest]
      BY <1>4, <2>3, Frame DEF Repair
    <3> HIDE DEF rest
    <3>2. /\ task'[a].pc = "repair" /\ task'[a].op = "recover"
          /\ task'[a].found = rest /\ task'[a].known = task[a].known
      BY <2>1, <3>1 DEF Task
    <3>3. registry[r.id] # NoRecord \/ ~Verified(r)
      BY <2>1, <2>3 DEF NeedsRepair, RepairKnows
    <3>4. \A d \in Dirs :
            dirs[d].name = "generation" /\ dirs[d].manifest # NoRecord =>
              dirs[d].manifest.id = dirs[d].id
      BY <1>0 DEF PathsInv
    <3>5. RepairKnows(a)'
      BY <2>1, <3>2, <3>3, <3>4 DEF RepairKnows, Verified, Generation, rest
    <3> QED
      BY <3>2, <3>5 DEF Knows, InstallKnows, RemoveKnows, RecoverKnows
  <2> QED
    BY <2>2, <2>3
<1>5. CASE (\E d \in Dirs : ScanBlocked(a, d)) \/ RecoverDone(a)
  BY <1>5, KnowsReturn DEF ScanBlocked, RecoverDone
<1> QED
  BY <1>1, <1>2, <1>3, <1>4, <1>5 DEF RecoverStep

\* An engine that writes into a registered generation only ever makes it fail
\* its integrity check.
LEMMA KnowsEngineUsed ==
  ASSUME TypeInv, DiskInv, SoloInv, NEW a \in Actors, NEW e \in Dirs,
         EngineUsed(e)
  PROVE  Knows(a)'
<1> USE DEF TypeInv, TypeOK
<1>0. Knows(a) /\ PathsInv
  BY DEF SoloInv
<1>1. /\ task' = task /\ registry' = registry
      /\ registry[dirs[e].id] # NoRecord /\ dirs[e].name = "generation"
      /\ \A d \in Dirs : d # e => dirs'[d] = dirs[d]
      /\ dirs'[e] = [dirs[e] EXCEPT !.files = @ \cup {Stray}]
  BY DEF EngineUsed
<1>2. /\ dirs'[e].name = dirs[e].name /\ dirs'[e].id = dirs[e].id
      /\ dirs'[e].recipe = dirs[e].recipe
      /\ dirs'[e].manifest = dirs[e].manifest
      /\ dirs[e].files \subseteq dirs'[e].files
  BY <1>1 DEF Directory
<1>3. \A d \in Dirs : /\ dirs'[d].name = dirs[d].name
                      /\ dirs'[d].id = dirs[d].id
                      /\ dirs'[d].recipe = dirs[d].recipe
                      /\ dirs'[d].manifest = dirs[d].manifest
                      /\ dirs[d].files \subseteq dirs'[d].files
  BY <1>1, <1>2
<1>4. \A id : Generation(id)' = Generation(id)
  BY <1>3 DEF Generation
<1>5. InstallKnows(a)'
  <2>1. \A r : Usable(r) => Usable(r)'
    <3>1. \A r : Generation(r.id) \subseteq Dirs
      BY DEF Generation
    <3> QED
      BY <1>3, <1>4, <3>1 DEF Usable
  <2> QED
    BY <1>0, <1>1, <2>1 DEF Knows, InstallKnows
<1>6. RemoveKnows(a)'
  BY <1>0, <1>1, <1>4 DEF Knows, RemoveKnows
<1>7. ASSUME ScanKnows(a)
      PROVE  ScanKnows(a)'
  BY <1>1, <1>3, <1>7 DEF ScanKnows
<1>8. ASSUME RepairKnows(a)
      PROVE  RepairKnows(a)'
  <2>1. ASSUME NEW d \in Dirs, dirs[d].name = "generation",
               dirs[d].manifest # NoRecord, ~Verified(dirs[d].manifest),
               dirs[d].id # dirs[e].id
        PROVE  ~Verified(dirs[d].manifest)'
    <3>1. dirs[d].manifest.id = dirs[d].id
      BY <1>0, <2>1 DEF PathsInv
    <3>2. \A g \in Generation(dirs[d].id) : g # e /\ dirs'[g] = dirs[g]
      BY <1>1, <2>1 DEF Generation
    <3>3. dirs'[d].manifest = dirs[d].manifest
      BY <1>3
    <3> QED
      BY <1>4, <2>1, <3>1, <3>2, <3>3 DEF Verified
  <2> QED
    BY <1>1, <1>3, <1>8, <2>1 DEF RepairKnows
<1> QED
  BY <1>0, <1>1, <1>5, <1>6, <1>7, <1>8 DEF Knows, RecoverKnows

LEMMA SoloNext ==
  ASSUME Single, IInv, SoloInv, [Next]_vars
  PROVE  SoloInv'
<1> USE DEF IInv
<1>0. PathsInv'
  BY PathsNext DEF SoloInv
<1>1. CASE UNCHANGED vars
  <2>1. ASSUME NEW a \in Actors
        PROVE  Knows(a)'
    <3>1. Knows(a)
      BY DEF SoloInv
    <3> QED
      BY <1>1, <3>1
         DEF vars, Knows, InstallKnows, RemoveKnows, RecoverKnows, ScanKnows,
             RepairKnows, Usable, Verified, Generation
  <2> QED
    BY <1>0, <2>1 DEF SoloInv
<1>2. ASSUME NEW a \in Actors, Begin(a) \/ Step(a)
      PROVE  SoloInv'
  <2>1. Knows(a)'
    BY <1>2, KnowsBegin, KnowsInstall, KnowsRegistry, KnowsRemove,
       KnowsRecover, KnowsReturn DEF Step, ReadFails
  <2> QED
    BY <1>0, <2>1 DEF Single, SoloInv
<1>3. ASSUME NEW p \in Processes, Crash(p)
      PROVE  SoloInv'
  <2>1. ASSUME NEW a \in Actors
        PROVE  Knows(a)'
    <3>1. CASE task'[a] = Rest
      BY <3>1, NothingKnown
    <3>2. CASE task'[a] = task[a]
      <4>1. Knows(a) /\ UNCHANGED <<dirs, registry>>
        BY <1>3 DEF SoloInv, Crash
      <4> QED
        BY <3>2, <4>1
           DEF Knows, InstallKnows, RemoveKnows, RecoverKnows, ScanKnows,
               RepairKnows, Usable, Verified, Generation
    <3> QED
      BY <1>3, <3>1, <3>2 DEF Crash
  <2> QED
    BY <1>0, <2>1 DEF SoloInv
<1>4. ASSUME NEW e \in Dirs, EngineUsed(e)
      PROVE  SoloInv'
  BY <1>0, <1>4, KnowsEngineUsed DEF SoloInv
<1> QED
  BY <1>1, <1>2, <1>3, <1>4 DEF Next

LEMMA SoloInit == Init => SoloInv
  BY Blanks
     DEF Init, SoloInv, PathsInv, Knows, InstallKnows, RemoveKnows,
         RecoverKnows, Nothing

THEOREM SoloInvariance ==
  ASSUME Single
  PROVE  Spec => [](IInv /\ SoloInv)
<1>1. Isolated
  BY DEF Single, Isolated
<1>2. IInv /\ SoloInv /\ [Next]_vars => SoloInv'
  BY SoloNext
<1>3. Init => SoloInv
  BY SoloInit
<1> QED
  BY <1>1, <1>2, <1>3, Invariance, PTL DEF Spec

-----------------------------------------------------------------------------

\* What the steps of a thread do to the results.
Answers(b) ==
  \/ result' = result
  \/ result' = [result EXCEPT ![b] = "none"]
  \/ Return(b, "absent") \/ Return(b, "blocked") \/ Return(b, "error")
  \/ Return(b, "ready") /\ VerifyExisting(b) /\ Verified(task[b].rec)
  \/ Return(b, "ready") /\ AddSave(b) /\ task[b].op = "install"
  \/ Return(b, "removed") /\ (ForgetNothing(b) \/ ForgetSave(b))
  \/ Return(b, "recovered") /\ RecoverDone(b)

LEMMA EveryStepAnswers ==
  ASSUME NEW b \in Actors, Begin(b) \/ Step(b)
  PROVE  Answers(b)
<1>1. CASE Begin(b)
  BY <1>1 DEF Answers, Begin, InstallExisting, InstallNew, RemoveUnknown,
     RemoveKnown, RecoverStart
<1>2. CASE InstallStep(b)
  <2>1. CASE VerifyExisting(b)
    BY <2>1 DEF Answers, VerifyExisting
  <2> QED
    BY <1>2, <2>1
       DEF Answers, InstallStep, LookupRefuses, Lookup, Fetch, Snapshot,
           EngineWrites, Seal, Activate, InstallFails
<1>3. CASE RegistryStep(b)
  <2>1. CASE AddSave(b)
    BY <2>1 DEF Answers, AddSave
  <2> QED
    BY <1>3, <2>1
       DEF Answers, RegistryStep, AddLoad, ForgetNothing, ForgetLoad,
           ForgetSave, RegistryFails
<1>4. CASE RemoveStep(b)
  BY <1>4 DEF Answers, RemoveStep, RemoveMissing, RemoveOpen, DeleteFile,
     DeleteManifest, DeleteDirectory, DeleteFails
<1>5. CASE RecoverStep(b) \/ ReadFails(b)
  BY <1>5 DEF Answers, RecoverStep, ScanStaging, ScanGeneration, ScanBlocked,
     ScanDone, RecoverDone, Repair, ReadFails
<1> QED
  BY <1>1, <1>2, <1>3, <1>4, <1>5 DEF Step

\* Success is answered by a thread's own step, and by these.
LEMMA AnswersItself ==
  ASSUME TypeInv, [Next]_vars, NEW a \in Actors, NEW r, Returns(a, r)
  PROVE  /\ r = "ready" =>
              \/ VerifyExisting(a) /\ Verified(task[a].rec)
              \/ AddSave(a) /\ task[a].op = "install"
         /\ r = "removed" => ForgetNothing(a) \/ ForgetSave(a)
         /\ r = "recovered" => RecoverDone(a)
<1> USE DEF TypeInv, TypeOK
<1> SUFFICES ASSUME r \in {"ready", "removed", "recovered"}
             PROVE  /\ r = "ready" =>
                         \/ VerifyExisting(a) /\ Verified(task[a].rec)
                         \/ AddSave(a) /\ task[a].op = "install"
                    /\ r = "removed" => ForgetNothing(a) \/ ForgetSave(a)
                    /\ r = "recovered" => RecoverDone(a)
  OBVIOUS
<1>1. result'[a] # result[a] /\ result'[a] = r
  BY DEF Returns
<1>2. \A p \in Processes : ~Crash(p)
  BY <1>1 DEF Crash
<1>3. PICK b \in Actors : Begin(b) \/ Step(b)
  BY <1>1, <1>2 DEF Next, vars, EngineUsed
<1>4. Answers(b)
  BY <1>3, EveryStepAnswers
<1>5. \A q : Return(b, q) => b = a /\ q = r
  BY <1>1 DEF Return
<1>6. result' # result /\ result' # [result EXCEPT ![b] = "none"]
  BY <1>1
<1> QED
  BY <1>4, <1>5, <1>6 DEF Answers

\* A thread that works alone, with crashes between any two of its steps and
\* engines in use: install answers Ready only when the registry holds the
\* record it returns and the complete package of it is at its path.
THEOREM ReadyIsUsable ==
  ASSUME Single
  PROVE  Spec => ReadyMeansUsable
<1> DEFINE Promise(a) ==
             Returns(a, "ready") =>
               LET r == task[a].rec IN
               /\ registry'[r.id] = r
               /\ \E d \in Generation(r.id) :
                    Payload \subseteq dirs[d].files /\ dirs[d].recipe = r.recipe
<1>1. ASSUME IInv, SoloInv, [Next]_vars, NEW a \in Actors, Returns(a, "ready")
      PROVE  registry'[task[a].rec.id] = task[a].rec /\ Usable(task[a].rec)
  <2> USE DEF IInv, TypeInv, TypeOK
  <2>1. \/ VerifyExisting(a) /\ Verified(task[a].rec)
        \/ AddSave(a) /\ task[a].op = "install"
    BY <1>1, AnswersItself
  <2>2. Knows(a) /\ Wired(a)
    BY <1>1 DEF SoloInv
  <2>3. CASE VerifyExisting(a) /\ Verified(task[a].rec)
    <3>1. /\ task[a].rec = registry[task[a].rec.id] /\ registry' = registry
          /\ task[a].rec \in InstallRecord
      BY <2>2, <2>3
         DEF VerifyExisting, Knows, InstallKnows, Wired, WiredTask
    <3>2. task[a].rec.files = Payload
      BY <3>1, <1>1, AbsentAssumption
         DEF RecordsInv, RecordsAreWhole, InstallRecord
    <3> QED
      BY <2>3, <3>1, <3>2 DEF Verified, Usable
  <2>4. CASE AddSave(a) /\ task[a].op = "install"
    <3>1. registry' = Added(a) /\ task[a].loaded = registry
      BY <1>1, <2>2, <2>4, Alone DEF AddSave, Knows, InstallKnows
    <3>2. task[a].rec \in InstallRecord /\ Usable(task[a].rec)
      BY <2>2, <2>4 DEF AddSave, Knows, InstallKnows, Wired, WiredTask
    <3> QED
      BY <1>1, <3>1, <3>2 DEF Added, Registry, InstallRecord
  <2> QED
    BY <2>1, <2>3, <2>4
<1>2. ASSUME IInv, SoloInv, [Next]_vars, NEW a \in Actors
      PROVE  Promise(a)
  BY <1>1, <1>2 DEF Usable
<1>3. IInv /\ SoloInv /\ [Next]_vars => [\A a \in Actors : Promise(a)]_vars
  BY <1>2
<1> QED
  BY <1>3, SoloInvariance, PTL DEF Spec, ReadyMeansUsable

\* A thread that works alone: remove answers true only when neither the
\* generation nor its record is left.
THEOREM RemovedIsGone ==
  ASSUME Single
  PROVE  Spec => RemovedMeansGone
<1> DEFINE Promise(a) ==
             Returns(a, "removed") =>
               LET id == task[a].rec.id IN
               Generation(id) = {} /\ registry'[id] = NoRecord
<1>1. ASSUME IInv, SoloInv, [Next]_vars, NEW a \in Actors
      PROVE  Promise(a)
  <2> USE DEF IInv, TypeInv, TypeOK
  <2>1. SUFFICES ASSUME Returns(a, "removed")
                 PROVE  /\ Generation(task[a].rec.id) = {}
                        /\ registry'[task[a].rec.id] = NoRecord
    OBVIOUS
  <2>2. ForgetNothing(a) \/ ForgetSave(a)
    BY <1>1, <2>1, AnswersItself
  <2>3. Knows(a) /\ Wired(a)
    BY <1>1 DEF SoloInv
  <2>4. Generation(task[a].rec.id) = {} /\ task[a].rec.id \in Ids
    BY <2>2, <2>3
       DEF ForgetNothing, ForgetSave, Knows, RemoveKnows, Wired, WiredTask,
           InstallRecord
  <2>5. CASE ForgetNothing(a)
    BY <1>1, <2>4, <2>5, Alone DEF ForgetNothing
  <2>6. CASE ForgetSave(a)
    <3>1. registry' = Forgotten(a) /\ task[a].loaded = registry
      BY <1>1, <2>3, <2>6, Alone DEF ForgetSave, Knows, InstallKnows
    <3> QED
      BY <1>1, <2>4, <3>1 DEF Forgotten, Registry
  <2> QED
    BY <2>2, <2>4, <2>5, <2>6
<1>2. IInv /\ SoloInv /\ [Next]_vars => [\A a \in Actors : Promise(a)]_vars
  BY <1>1
<1> QED
  BY <1>2, SoloInvariance, PTL DEF Spec, RemovedMeansGone

\* A thread that works alone, whatever was interrupted before: recover answers
\* Ok only when no staging directory is left over and every generation that
\* verifies against its own manifest has a record.
THEOREM RecoveredIsRepaired ==
  ASSUME Single
  PROVE  Spec => RecoveredMeansRepaired
<1> DEFINE Promise(a) ==
             Returns(a, "recovered") =>
               \A d \in Dirs :
                 /\ dirs[d].name # "staging"
                 /\ (/\ dirs[d].name = "generation"
                     /\ dirs[d].manifest # NoRecord
                     /\ Verified(dirs[d].manifest))
                    => registry[dirs[d].id] # NoRecord
<1>1. ASSUME IInv, SoloInv, [Next]_vars, NEW a \in Actors
      PROVE  Promise(a)
  <2>1. SUFFICES ASSUME Returns(a, "recovered")
                 PROVE  \A d \in Dirs :
                          /\ dirs[d].name # "staging"
                          /\ (/\ dirs[d].name = "generation"
                              /\ dirs[d].manifest # NoRecord
                              /\ Verified(dirs[d].manifest))
                             => registry[dirs[d].id] # NoRecord
    OBVIOUS
  <2>2. RecoverDone(a)
    BY <1>1, <2>1, AnswersItself DEF IInv
  <2>3. Knows(a) /\ Wired(a)
    BY <1>1 DEF SoloInv, IInv, TypeInv
  <2>4. RepairKnows(a)
    BY <2>2, <2>3 DEF RecoverDone, Knows, RecoverKnows, Wired, WiredTask
  <2> QED
    BY <2>2, <2>4 DEF RecoverDone, RepairKnows
<1>2. IInv /\ SoloInv /\ [Next]_vars => [\A a \in Actors : Promise(a)]_vars
  BY <1>1
<1> QED
  BY <1>2, SoloInvariance, PTL DEF Spec, RecoveredMeansRepaired
=============================================================================
