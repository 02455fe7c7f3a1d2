------------------------- MODULE InstallDiskProofs --------------------------
(***************************************************************************)
(* InstallLifecycle, for every set of threads, processes, ids, recipes,    *)
(* files and directories.  First its types and control; then what is on    *)
(* disk: staging directories, removals, generations.  A step of an install *)
(* disturbs its own staging directory only (StagingStep), one of a         *)
(* remove_dir_all the directory it holds (DeletingStep), and most steps no *)
(* directory at all (QuietStep).                                           *)
(***************************************************************************)
EXTENDS InstallInvariant, TLAPS

USE DEF At, Here, Staging

-----------------------------------------------------------------------------
(* Types and control                                                        *)

\* The directory no path names, the empty registry and the local variables of
\* an idle thread have their types.
LEMMA Blanks ==
  /\ Nothing \in Directory
  /\ Unregistered \in Registry
  /\ Rest \in Task
  /\ Rest.op = "none" /\ Rest.pc = "idle" /\ Rest.rec = NoRecord
  /\ Rest.dir = NoDir /\ Rest.todo = {} /\ Rest.loaded = Unregistered
  /\ Rest.due = {} /\ Rest.found = {} /\ Rest.known = {}
  /\ Nothing.name = "none" /\ Nothing.files = {} /\ Nothing.manifest = NoRecord
<1>1. (CHOOSE id \in Ids : TRUE) \in Ids
  BY InputsAssumption
<1>2. (CHOOSE recipe \in Recipes : TRUE) \in Recipes
  BY InputsAssumption
<1>3. Nothing \in Directory
  BY <1>1, <1>2 DEF Nothing, Directory, Names, MaybeRecord
<1>4. Unregistered \in Registry
  BY DEF Unregistered, Registry, MaybeRecord
<1>5. Rest \in Task
  BY <1>4 DEF Rest, Task, MaybeRecord, ProgramCounters
<1> QED
  BY <1>3, <1>4, <1>5 DEF Rest, Nothing

LEMMA TypeInit == Init => TypeInv
  BY Blanks DEF Init, TypeInv, TypeOK, Wired, WiredTask, RecoveryAlone, Results


\* One thread goes on; the others keep their local variables.
LEMMA ContinueKeepsTypes ==
  ASSUME TypeInv, NEW a \in Actors, NEW t \in Task, Continue(a, t),
         WiredTask(a, t), t.op \in {task[a].op, "none"}
  PROVE  /\ task' \in [Actors -> Task]
         /\ \A b \in Actors : Wired(b)'
         /\ RecoveryAlone'
<1>1. task' = [task EXCEPT ![a] = t] /\ task \in [Actors -> Task]
  BY DEF Continue, TypeInv, TypeOK
<1>2. task' \in [Actors -> Task]
  BY <1>1
<1>3. \A b \in Actors : task'[b] = IF b = a THEN t ELSE task[b]
  BY <1>1
<1>4. \A b \in Actors : WiredTask(b, task'[b])
  BY <1>3 DEF TypeInv, Wired
<1>5. RecoveryAlone'
  BY <1>3 DEF TypeInv, RecoveryAlone
<1> QED
  BY <1>2, <1>4, <1>5 DEF Wired

LEMMA ReturnKeepsTypes ==
  ASSUME TypeInv, NEW a \in Actors, NEW r \in Results, Return(a, r)
  PROVE  /\ task' \in [Actors -> Task]
         /\ result' \in [Actors -> Results]
         /\ \A b \in Actors : Wired(b)'
         /\ RecoveryAlone'
<1>1. WiredTask(a, Rest)
  BY Blanks DEF WiredTask
<1>2. Continue(a, Rest) /\ result' = [result EXCEPT ![a] = r]
  BY DEF Return
<1> QED
  BY <1>1, <1>2, ContinueKeepsTypes, Blanks DEF TypeInv, TypeOK

\* A new operation starts in a process that is not recovering, a recovery in
\* one where nothing else runs.
LEMMA StartKeepsTypes ==
  ASSUME TypeInv, NEW a \in Actors, NEW t \in Task, Continue(a, t),
         WiredTask(a, t), CanStart(a, t.op),
         t.op = "recover" => ~Busy(Proc[a]),
         result' = [result EXCEPT ![a] = "none"]
  PROVE  /\ task' \in [Actors -> Task]
         /\ result' \in [Actors -> Results]
         /\ \A b \in Actors : Wired(b)'
         /\ RecoveryAlone'
<1>1. task' = [task EXCEPT ![a] = t] /\ task \in [Actors -> Task]
  BY DEF Continue, TypeInv, TypeOK
<1>2. task' \in [Actors -> Task] /\ result' \in [Actors -> Results]
  BY <1>1 DEF TypeInv, TypeOK, Results
<1>3. \A b \in Actors : task'[b] = IF b = a THEN t ELSE task[b]
  BY <1>1
<1>4. \A b \in Actors : WiredTask(b, task'[b])
  BY <1>3 DEF TypeInv, Wired
<1>5. \A b \in Actors : Proc[b] = Proc[a] => task[b].op # "recover"
  BY DEF CanStart, Recovering
<1>6. t.op = "recover" =>
        \A b \in Actors : Proc[b] = Proc[a] => task[b].op = "none"
  BY DEF Busy, TypeInv, Wired, WiredTask
<1>7. RecoveryAlone'
  BY <1>3, <1>5, <1>6 DEF TypeInv, RecoveryAlone
<1> QED
  BY <1>2, <1>4, <1>7 DEF Wired

LEMMA TypeBegin ==
  ASSUME TypeInv, NEW a \in Actors, Begin(a)
  PROVE  TypeInv'
<1> USE DEF TypeInv, TypeOK
<1>1. ASSUME NEW id \in Ids, NEW recipe \in Recipes, NEW source \in Sources,
             InstallExisting(a, id, recipe, source)
      PROVE  TypeInv'
  <2> DEFINE t == [Rest EXCEPT !.op = "install", !.pc = "lookup",
                     !.rec = [id |-> id, recipe |-> recipe, source |-> source,
                                files |-> {}]]
  <2>1. Continue(a, t)
    BY <1>1 DEF InstallExisting
  <2>2. t \in Task /\ WiredTask(a, t)
    BY ZenonT(60), <1>1, Blanks
       DEF InstallExisting, Task, Wired, WiredTask, ProgramCounters,
       CanStart, MaybeRecord, InstallRecord, Operations
  <2>3. CanStart(a, t.op) /\ (t.op = "recover" => ~Busy(Proc[a]))
    BY <1>1, Blanks DEF InstallExisting, Task, Operations
  <2> HIDE DEF t
  <2>4. dirs' \in [Dirs -> Directory] /\ registry' \in Registry
        /\ condemned' \in SUBSET Dirs
    BY <1>1 DEF InstallExisting
  <2>5. result' = [result EXCEPT ![a] = "none"]
    BY <1>1 DEF InstallExisting
  <2> QED
    BY <2>1, <2>2, <2>3, <2>4, <2>5, StartKeepsTypes
<1>2. ASSUME NEW id \in Ids, NEW recipe \in Recipes, NEW source \in Sources,
             NEW d \in Dirs, InstallNew(a, id, recipe, source, d)
      PROVE  TypeInv'
  <2> DEFINE t == [Rest EXCEPT !.op = "install", !.pc = "fetch", !.dir = d,
                     !.todo = Payload,
                     !.rec = [id |-> id, recipe |-> recipe, source |-> source,
                                files |-> {}]]
  <2>1. Continue(a, t)
    BY <1>2 DEF InstallNew
  <2>2. t \in Task /\ WiredTask(a, t)
    BY ZenonT(60), <1>2, Blanks
       DEF InstallNew, Task, Wired, WiredTask, ProgramCounters, CanStart,
       MaybeRecord, InstallRecord, Operations
  <2>3. CanStart(a, t.op) /\ (t.op = "recover" => ~Busy(Proc[a]))
    BY <1>2, Blanks DEF InstallNew, Task, Operations
  <2> HIDE DEF t
  <2>4. dirs' \in [Dirs -> Directory] /\ registry' \in Registry
        /\ condemned' \in SUBSET Dirs
    BY <1>2 DEF InstallNew, Directory, Names, Files, MaybeRecord
  <2>5. result' = [result EXCEPT ![a] = "none"]
    BY <1>2 DEF InstallNew
  <2> QED
    BY <2>1, <2>2, <2>3, <2>4, <2>5, StartKeepsTypes
<1>3. ASSUME NEW id \in Ids, RemoveUnknown(a, id)
      PROVE  TypeInv'
  BY <1>3, ReturnKeepsTypes DEF RemoveUnknown, Results
<1>4. ASSUME NEW id \in Ids, RemoveKnown(a, id)
      PROVE  TypeInv'
  <2> DEFINE t == [Rest EXCEPT !.op = "remove", !.pc = "open",
                     !.rec = registry[id]]
  <2>1. Continue(a, t)
    BY <1>4 DEF RemoveKnown
  <2>2. t \in Task /\ WiredTask(a, t)
    BY ZenonT(60), <1>4, Blanks
       DEF RemoveKnown, Task, Wired, WiredTask, ProgramCounters, CanStart,
       MaybeRecord, Registry, Operations
  <2>3. CanStart(a, t.op) /\ (t.op = "recover" => ~Busy(Proc[a]))
    BY <1>4, Blanks DEF RemoveKnown, Task, Operations
  <2> HIDE DEF t
  <2>4. dirs' \in [Dirs -> Directory] /\ registry' \in Registry
        /\ condemned' \in SUBSET Dirs
    BY <1>4 DEF RemoveKnown
  <2>5. result' = [result EXCEPT ![a] = "none"]
    BY <1>4 DEF RemoveKnown
  <2> QED
    BY <2>1, <2>2, <2>3, <2>4, <2>5, StartKeepsTypes
<1>5. CASE RecoverStart(a)
  <2> DEFINE t == [Rest EXCEPT !.op = "recover", !.pc = "scan",
                     !.due = {<<d, dirs[d].name>> :
                                d \in {e \in Dirs : dirs[e].name # "none"}}]
  <2>1. Continue(a, t)
    BY <1>5 DEF RecoverStart
  <2>2. t \in Task /\ WiredTask(a, t)
    <3>1. {<<d, dirs[d].name>> : d \in {e \in Dirs : dirs[e].name # "none"}}
            \subseteq Dirs \X Names
      BY DEF Directory
    <3>2. "recover" \in Does[a]
      BY <1>5 DEF RecoverStart, CanStart
    <3> QED
      BY <3>1, <3>2, Blanks DEF Task, WiredTask, ProgramCounters, Operations
  <2>3. CanStart(a, t.op) /\ (t.op = "recover" => ~Busy(Proc[a]))
    BY <1>5, Blanks DEF RecoverStart, Task, Operations
  <2> HIDE DEF t
  <2>4. dirs' \in [Dirs -> Directory] /\ registry' \in Registry
        /\ condemned' \in SUBSET Dirs
    BY <1>5 DEF RecoverStart
  <2>5. result' = [result EXCEPT ![a] = "none"]
    BY <1>5 DEF RecoverStart
  <2> QED
    BY <2>1, <2>2, <2>3, <2>4, <2>5, StartKeepsTypes
<1> QED
  BY <1>1, <1>2, <1>3, <1>4, <1>5 DEF Begin

LEMMA TypeInstall ==
  ASSUME TypeInv, NEW a \in Actors, InstallStep(a)
  PROVE  TypeInv'
<1> USE DEF TypeInv, TypeOK
<1>1. CASE LookupRefuses(a)
  BY <1>1, ReturnKeepsTypes DEF LookupRefuses, Results
<1>2. CASE Lookup(a)
  <2> DEFINE t == [task[a] EXCEPT !.pc = "verify",
                        !.rec = registry[task[a].rec.id]]
  <2>1. Continue(a, t)
    BY <1>2 DEF Lookup
  <2>2. t \in Task /\ WiredTask(a, t)
    <3>1. /\ task[a].op = "install" /\ "install" \in Does[a]
          /\ task[a].rec \in InstallRecord
      BY <1>2 DEF Lookup, Wired, WiredTask
    <3>2. task[a].rec.id \in Ids
      BY <3>1 DEF InstallRecord
    <3>3. /\ registry[task[a].rec.id] \in InstallRecord
          /\ registry[task[a].rec.id] \in MaybeRecord
      BY <1>2, <3>2 DEF Lookup, Matches, Registry, MaybeRecord
    <3> QED
      BY ZenonT(60), <3>1, <3>3 DEF Task, WiredTask, ProgramCounters
  <2>3. t.op = task[a].op
    BY DEF Task
  <2> HIDE DEF t
  <2>4. /\ dirs' \in [Dirs -> Directory] /\ registry' \in Registry
        /\ condemned' \in SUBSET Dirs /\ result' \in [Actors -> Results]
    BY <1>2, Blanks DEF Lookup
  <2> QED
    BY <2>1, <2>2, <2>3, <2>4, ContinueKeepsTypes
<1>3. CASE VerifyExisting(a)
  BY <1>3, ReturnKeepsTypes DEF VerifyExisting, Results
<1>4. ASSUME NEW f \in Payload, Fetch(a, f)
      PROVE  TypeInv'
  <2> DEFINE t == [task[a] EXCEPT !.todo = @ \ {f}]
  <2>1. Continue(a, t)
    BY <1>4 DEF Fetch
  <2>2. t \in Task /\ WiredTask(a, t)
    BY ZenonT(60), <1>4, Blanks
       DEF Fetch, Task, Wired, WiredTask, ProgramCounters
  <2>3. t.op = task[a].op
    BY DEF Task
  <2> HIDE DEF t
  <2>4. /\ dirs' \in [Dirs -> Directory] /\ registry' \in Registry
        /\ condemned' \in SUBSET Dirs /\ result' \in [Actors -> Results]
    BY <1>4, Blanks DEF Fetch, Directory, Files
  <2> QED
    BY <2>1, <2>2, <2>3, <2>4, ContinueKeepsTypes
<1>5. CASE Snapshot(a)
  <2> DEFINE t == [task[a] EXCEPT !.pc = "check",
                        !.rec.files = Here(a).files \ {Downloads}]
  <2>1. Continue(a, t)
    BY <1>5 DEF Snapshot
  <2>2. t \in Task /\ WiredTask(a, t)
    <3>1. /\ task[a].op = "install" /\ "install" \in Does[a]
          /\ task[a].rec \in InstallRecord /\ task[a].dir \in Dirs
      BY <1>5 DEF Snapshot, Wired, WiredTask
    <3>2. Here(a).files \ {Downloads} \in SUBSET Files
      BY <3>1 DEF Directory
    <3>3. [task[a].rec EXCEPT !.files = Here(a).files \ {Downloads}]
            \in InstallRecord
      BY <3>1, <3>2 DEF InstallRecord
    <3>4. t = [[task[a] EXCEPT !.pc = "check"] EXCEPT !.rec =
                 [task[a].rec EXCEPT !.files = Here(a).files \ {Downloads}]]
      OBVIOUS
    <3>5. /\ t \in Task /\ t.op = task[a].op /\ t.pc = "check"
          /\ t.rec \in InstallRecord /\ t.dir = task[a].dir
      <4>1. task[a] \in Task
        OBVIOUS
      <4> DEFINE r == [task[a].rec EXCEPT
                         !.files = Here(a).files \ {Downloads}]
      <4>2. t = [task[a] EXCEPT !.pc = "check", !.rec = r]
        BY <3>4
      <4>3. r \in InstallRecord
        BY <3>3
      <4> HIDE DEF t, r
      <4> QED
        BY <4>1, <4>2, <4>3 DEF Task, MaybeRecord, ProgramCounters
    <3> HIDE DEF t
    <3> QED
      BY <3>1, <3>5 DEF WiredTask
  <2>3. t.op = task[a].op
    BY DEF Task
  <2> HIDE DEF t
  <2>4. /\ dirs' \in [Dirs -> Directory] /\ registry' \in Registry
        /\ condemned' \in SUBSET Dirs /\ result' \in [Actors -> Results]
    BY <1>5, Blanks DEF Snapshot, Directory
  <2> QED
    BY <2>1, <2>2, <2>3, <2>4, ContinueKeepsTypes
<1>6. CASE EngineWrites(a)
  BY <1>6 DEF EngineWrites, Wired, RecoveryAlone, Directory, Files
<1>7. CASE Seal(a)
  <2> DEFINE t == [task[a] EXCEPT !.pc = "activate"]
  <2>1. Continue(a, t)
    BY <1>7 DEF Seal
  <2>2. t \in Task /\ WiredTask(a, t)
    BY ZenonT(60), <1>7, Blanks
       DEF Seal, Task, Wired, WiredTask, ProgramCounters
  <2>3. t.op = task[a].op
    BY DEF Task
  <2> HIDE DEF t
  <2>4. /\ dirs' \in [Dirs -> Directory] /\ registry' \in Registry
        /\ condemned' \in SUBSET Dirs /\ result' \in [Actors -> Results]
    BY <1>7, Blanks DEF Seal, Directory, Task
  <2> QED
    BY <2>1, <2>2, <2>3, <2>4, ContinueKeepsTypes
<1>8. CASE Activate(a)
  <2> DEFINE t == [task[a] EXCEPT !.pc = "addLoad", !.dir = NoDir]
  <2>1. Continue(a, t)
    BY <1>8 DEF Activate
  <2>2. t \in Task /\ WiredTask(a, t)
    BY ZenonT(60), <1>8, Blanks
       DEF Activate, Task, Wired, WiredTask, ProgramCounters
  <2>3. t.op = task[a].op
    BY DEF Task
  <2> HIDE DEF t
  <2>4. /\ dirs' \in [Dirs -> Directory] /\ registry' \in Registry
        /\ condemned' \in SUBSET Dirs /\ result' \in [Actors -> Results]
    BY <1>8, Blanks DEF Activate, Directory, Names
  <2> QED
    BY <2>1, <2>2, <2>3, <2>4, ContinueKeepsTypes
<1>9. CASE InstallFails(a)
  BY <1>9, Blanks, ReturnKeepsTypes DEF InstallFails, Results
<1> QED
  BY <1>1, <1>2, <1>3, <1>4, <1>5, <1>6, <1>7, <1>8, <1>9 DEF InstallStep

LEMMA TypeRegistry ==
  ASSUME TypeInv, NEW a \in Actors, RegistryStep(a)
  PROVE  TypeInv'
<1> USE DEF TypeInv, TypeOK
<1>0. Saves(a, Added(a)) \cup Saves(a, Forgotten(a)) \subseteq Registry
  <2>1. Added(a) \in Registry /\ Forgotten(a) \in Registry
    BY DEF Added, Forgotten, Registry, Task, MaybeRecord
  <2>2. BeingSaved(a) \subseteq Registry
    BY DEF BeingSaved, Task
  <2> QED
    BY <2>1, <2>2, Blanks DEF Saves
<1>1. CASE AddLoad(a)
  <2> PICK loaded \in Loads(a) :
             Continue(a, [task[a] EXCEPT !.pc = "addSave", !.loaded = loaded])
    BY <1>1 DEF AddLoad
  <2> DEFINE t == [task[a] EXCEPT !.pc = "addSave", !.loaded = loaded]
  <2>0. loaded \in Registry
    BY Blanks DEF Loads
  <2>1. Continue(a, t)
    OBVIOUS
  <2>2. t \in Task /\ WiredTask(a, t)
    BY ZenonT(60), <1>1, <2>0, Blanks
       DEF AddLoad, Task, Wired, WiredTask, ProgramCounters
  <2>3. t.op = task[a].op
    BY DEF Task
  <2> HIDE DEF t
  <2>4. /\ dirs' \in [Dirs -> Directory] /\ registry' \in Registry
        /\ condemned' \in SUBSET Dirs /\ result' \in [Actors -> Results]
    BY <1>1, Blanks DEF AddLoad
  <2> QED
    BY <2>1, <2>2, <2>3, <2>4, ContinueKeepsTypes
<1>2. CASE AddSave(a)
  <2> DEFINE t == [task[a] EXCEPT !.pc = "repair", !.rec = NoRecord,
                        !.loaded = Unregistered]
  <2>1. registry' \in Registry /\ UNCHANGED <<dirs, condemned>>
    BY <1>2, <1>0 DEF AddSave
  <2>2. CASE Return(a, "ready")
    BY <2>1, <2>2, ReturnKeepsTypes DEF Results
  <2>3. CASE task[a].op = "recover" /\ Continue(a, t) /\ UNCHANGED result
    <3>1. t \in Task /\ WiredTask(a, t) /\ t.op = task[a].op
      BY ZenonT(60), <2>3, Blanks
         DEF Task, Wired, WiredTask, ProgramCounters, MaybeRecord
    <3> HIDE DEF t
    <3> QED
      BY <2>1, <2>3, <3>1, ContinueKeepsTypes
  <2> QED
    BY <1>2, <2>2, <2>3 DEF AddSave
<1>3. CASE ForgetNothing(a)
  BY <1>3, ReturnKeepsTypes DEF ForgetNothing, Results
<1>4. CASE ForgetLoad(a)
  <2> DEFINE t == [task[a] EXCEPT !.pc = "forgetSave", !.loaded = registry]
  <2>1. Continue(a, t)
    BY <1>4 DEF ForgetLoad
  <2>2. t \in Task /\ WiredTask(a, t)
    BY ZenonT(60), <1>4, Blanks
       DEF ForgetLoad, Task, Wired, WiredTask, ProgramCounters
  <2>3. t.op = task[a].op
    BY DEF Task
  <2> HIDE DEF t
  <2>4. /\ dirs' \in [Dirs -> Directory] /\ registry' \in Registry
        /\ condemned' \in SUBSET Dirs /\ result' \in [Actors -> Results]
    BY <1>4, Blanks DEF ForgetLoad
  <2> QED
    BY <2>1, <2>2, <2>3, <2>4, ContinueKeepsTypes
<1>5. CASE ForgetSave(a)
  BY <1>5, <1>0, ReturnKeepsTypes DEF ForgetSave, Results
<1>6. CASE RegistryFails(a)
  BY <1>6, <1>0, ReturnKeepsTypes DEF RegistryFails, Results
<1> QED
  BY <1>1, <1>2, <1>3, <1>4, <1>5, <1>6 DEF RegistryStep

LEMMA TypeRemove ==
  ASSUME TypeInv, NEW a \in Actors, RemoveStep(a)
  PROVE  TypeInv'
<1> USE DEF TypeInv, TypeOK
<1>1. CASE RemoveMissing(a)
  <2> DEFINE t == [task[a] EXCEPT !.pc = "forgetLoad"]
  <2>1. Continue(a, t)
    BY <1>1 DEF RemoveMissing
  <2>2. t \in Task /\ WiredTask(a, t)
    BY <1>1, Blanks DEF RemoveMissing, Task, Wired, WiredTask, ProgramCounters
  <2>3. t.op = task[a].op
    BY DEF Task
  <2> HIDE DEF t
  <2>4. /\ dirs' \in [Dirs -> Directory] /\ registry' \in Registry
        /\ condemned' \in SUBSET Dirs /\ result' \in [Actors -> Results]
    BY <1>1, Blanks DEF RemoveMissing
  <2> QED
    BY <2>1, <2>2, <2>3, <2>4, ContinueKeepsTypes
<1>2. CASE RemoveOpen(a)
  <2> PICK d \in Generation(task[a].rec.id) :
             /\ Continue(a, [task[a] EXCEPT !.pc = "delete", !.dir = d])
             /\ condemned' = condemned \cup {d}
    BY <1>2 DEF RemoveOpen
  <2> DEFINE t == [task[a] EXCEPT !.pc = "delete", !.dir = d]
  <2>1. d \in Dirs
    BY DEF Generation
  <2>2. t \in Task /\ WiredTask(a, t) /\ t.op = task[a].op
    <3>1. task[a].op = "remove" /\ "remove" \in Does[a]
          /\ task[a].rec \in InstallRecord
      BY <1>2 DEF RemoveOpen, Wired, WiredTask
    <3> QED
      BY ZenonT(60), <2>1, <3>1 DEF Task, WiredTask, ProgramCounters
  <2> HIDE DEF t
  <2> QED
    BY <1>2, <2>1, <2>2, ContinueKeepsTypes DEF RemoveOpen, t
<1>3. ASSUME NEW f \in Files, DeleteFile(a, f)
      PROVE  TypeInv'
  BY <1>3 DEF DeleteFile, Wired, RecoveryAlone, Directory
<1>4. CASE DeleteManifest(a)
  BY <1>4 DEF DeleteManifest, Wired, RecoveryAlone, Directory, MaybeRecord
<1>5. CASE DeleteDirectory(a)
  <2> DEFINE t == [task[a] EXCEPT !.dir = NoDir,
                        !.pc = IF task[a].op = "remove"
                               THEN "forgetLoad" ELSE "scan"]
  <2>1. Continue(a, t)
    BY <1>5 DEF DeleteDirectory
  <2>2. t \in Task /\ WiredTask(a, t)
    BY ZenonT(60), <1>5, Blanks
       DEF DeleteDirectory, Task, Wired, WiredTask, ProgramCounters
  <2>3. t.op = task[a].op
    BY DEF Task
  <2> HIDE DEF t
  <2>4. /\ dirs' \in [Dirs -> Directory] /\ registry' \in Registry
        /\ condemned' \in SUBSET Dirs /\ result' \in [Actors -> Results]
    BY <1>5, Blanks DEF DeleteDirectory
  <2> QED
    BY <2>1, <2>2, <2>3, <2>4, ContinueKeepsTypes
<1>6. CASE DeleteFails(a)
  BY <1>6, ReturnKeepsTypes DEF DeleteFails, Results
<1> QED
  BY <1>1, <1>2, <1>3, <1>4, <1>5, <1>6 DEF RemoveStep

LEMMA TypeRecover ==
  ASSUME TypeInv, NEW a \in Actors, RecoverStep(a)
  PROVE  TypeInv'
<1> USE DEF TypeInv, TypeOK
<1>1. ASSUME NEW d \in Dirs, ScanStaging(a, d)
      PROVE  TypeInv'
  <2> DEFINE t == [task[a] EXCEPT !.pc = "delete", !.dir = d,
                        !.due = @ \ {<<d, "staging">>}]
  <2>1. Continue(a, t)
    BY <1>1 DEF ScanStaging
  <2>2. t \in Task /\ WiredTask(a, t)
    BY ZenonT(60), <1>1, Blanks
       DEF ScanStaging, Task, Wired, WiredTask, ProgramCounters
  <2>3. t.op = task[a].op
    BY DEF Task
  <2> HIDE DEF t
  <2>4. /\ dirs' \in [Dirs -> Directory] /\ registry' \in Registry
        /\ condemned' \in SUBSET Dirs /\ result' \in [Actors -> Results]
    BY <1>1, Blanks DEF ScanStaging
  <2> QED
    BY <2>1, <2>2, <2>3, <2>4, ContinueKeepsTypes
<1>2. ASSUME NEW d \in Dirs, ScanGeneration(a, d)
      PROVE  TypeInv'
  <2> DEFINE t == [task[a] EXCEPT !.due = @ \ {<<d, "generation">>},
                        !.found = @ \cup ({dirs[d].manifest} \ {NoRecord})]
  <2>1. Continue(a, t)
    BY <1>2 DEF ScanGeneration
  <2>2. t \in Task /\ WiredTask(a, t)
    <3>1. {dirs[d].manifest} \ {NoRecord} \subseteq InstallRecord
      BY DEF Directory, MaybeRecord
    <3>2. task[a].op = "recover" /\ "recover" \in Does[a] /\ At(a, "scan")
      BY <1>2 DEF ScanGeneration, Wired, WiredTask
    <3> DEFINE due == task[a].due \ {<<d, "generation">>}
               found == task[a].found \cup ({dirs[d].manifest} \ {NoRecord})
    <3>3. /\ task[a] \in Task
          /\ due \in SUBSET (Dirs \X Names)
          /\ found \in SUBSET InstallRecord
      BY <3>1 DEF Task
    <3>4. /\ t \in Task /\ t.op = task[a].op /\ t.pc = task[a].pc
          /\ t.rec = task[a].rec /\ t.dir = task[a].dir
      <4> HIDE DEF due, found
      <4>1. t = [task[a] EXCEPT !.due = due, !.found = found]
        BY DEF due, found
      <4> HIDE DEF t
      <4> QED
        BY <3>3, <4>1 DEF Task
    <3> HIDE DEF t
    <3> QED
      BY <3>2, <3>4 DEF WiredTask
  <2>3. t.op = task[a].op
    BY DEF Task
  <2> HIDE DEF t
  <2>4. /\ dirs' \in [Dirs -> Directory] /\ registry' \in Registry
        /\ condemned' \in SUBSET Dirs /\ result' \in [Actors -> Results]
    BY <1>2, Blanks DEF ScanGeneration
  <2> QED
    BY <2>1, <2>2, <2>3, <2>4, ContinueKeepsTypes
<1>3. ASSUME NEW d \in Dirs, ScanBlocked(a, d)
      PROVE  TypeInv'
  BY <1>3, ReturnKeepsTypes DEF ScanBlocked, Results
<1>4. CASE ScanDone(a)
  <2> PICK loaded \in Loads(a) :
             Continue(a, [task[a] EXCEPT !.pc = "repair", !.due = {},
                            !.known = {id \in Ids : loaded[id] # NoRecord}])
    BY <1>4 DEF ScanDone
  <2> DEFINE known == {id \in Ids : loaded[id] # NoRecord}
             t == [task[a] EXCEPT !.pc = "repair", !.due = {}, !.known = known]
  <2>1. Continue(a, t)
    OBVIOUS
  <2>2. t \in Task /\ WiredTask(a, t)
    BY ZenonT(60), <1>4, Blanks
       DEF ScanDone, Task, Wired, WiredTask, ProgramCounters
  <2>3. t.op = task[a].op
    BY DEF Task
  <2> HIDE DEF t
  <2>4. /\ dirs' \in [Dirs -> Directory] /\ registry' \in Registry
        /\ condemned' \in SUBSET Dirs /\ result' \in [Actors -> Results]
    BY <1>4, Blanks DEF ScanDone
  <2> QED
    BY <2>1, <2>2, <2>3, <2>4, ContinueKeepsTypes
<1>5. CASE RecoverDone(a)
  BY <1>5, ReturnKeepsTypes DEF RecoverDone, Results
<1>6. ASSUME NEW r \in task[a].found, Repair(a, r)
      PROVE  TypeInv'
  <2> DEFINE t == [task[a] EXCEPT !.pc = "addLoad", !.rec = r,
                        !.found = @ \ {r}]
             u == [task[a] EXCEPT !.found = @ \ {r}]
  <2>1. Continue(a, t) \/ Continue(a, u)
    BY <1>6 DEF Repair
  <2>2. t \in Task /\ WiredTask(a, t) /\ t.op = task[a].op
    <3>1. /\ r \in InstallRecord /\ r \in MaybeRecord
          /\ task[a].found \ {r} \subseteq InstallRecord
      BY DEF Task, MaybeRecord
    <3>2. task[a].op = "recover" /\ "recover" \in Does[a]
      BY <1>6 DEF Repair, Wired, WiredTask
    <3> QED
      BY ZenonT(60), <3>1, <3>2 DEF Task, WiredTask, ProgramCounters
  <2>3. u \in Task /\ WiredTask(a, u) /\ u.op = task[a].op
    BY <1>6 DEF Repair, Task, Wired, WiredTask
  <2> HIDE DEF t, u
  <2> QED
    BY <1>6, <2>1, <2>2, <2>3, ContinueKeepsTypes DEF Repair
<1> QED
  BY <1>1, <1>2, <1>3, <1>4, <1>5, <1>6 DEF RecoverStep

LEMMA TypeReadFails ==
  ASSUME TypeInv, NEW a \in Actors, ReadFails(a)
  PROVE  TypeInv'
  BY ReturnKeepsTypes DEF ReadFails, TypeInv, TypeOK, Results

LEMMA TypeEnvironment ==
  ASSUME TypeInv,
         \/ \E p \in Processes : Crash(p)
         \/ \E d \in Dirs : EngineUsed(d)
  PROVE  TypeInv'
<1> USE DEF TypeInv, TypeOK
<1>1. ASSUME NEW p \in Processes, Crash(p)
      PROVE  TypeInv'
  BY <1>1, Blanks DEF Crash, Wired, WiredTask, RecoveryAlone, Results
<1>2. ASSUME NEW d \in Dirs, EngineUsed(d)
      PROVE  TypeInv'
  BY <1>2 DEF EngineUsed, Wired, RecoveryAlone, Directory, Files
<1> QED
  BY <1>1, <1>2

LEMMA TypeNext == TypeInv /\ [Next]_vars => TypeInv'
<1> SUFFICES ASSUME TypeInv, [Next]_vars
             PROVE  TypeInv'
  OBVIOUS
<1>1. CASE UNCHANGED vars
  BY <1>1 DEF vars, TypeInv, TypeOK, Wired, RecoveryAlone
<1>2. CASE Next
  BY <1>2, TypeBegin, TypeInstall, TypeRegistry, TypeRemove, TypeRecover,
     TypeReadFails, TypeEnvironment DEF Next, Step
<1> QED
  BY <1>1, <1>2

\* Every variable keeps its type, every thread is where its program counter
\* says, and a recovery has its process to itself.
THEOREM TypeCorrect == Spec => []TypeInv
  BY TypeInit, TypeNext, PTL DEF Spec

\* The type invariant alone, which the runs check.
COROLLARY TypesAreKept == Spec => []TypeOK
<1>1. TypeInv => TypeOK
  BY DEF TypeInv
<1>2. QED
  BY <1>1, TypeCorrect, PTL

-----------------------------------------------------------------------------
(* Staging and removal                                                      *)

\* Where recoveries share a process with the installers, none of them finds a
\* running install.
LEMMA NoInstallBesideRecovery ==
  ASSUME Isolated, TypeInv, NEW a \in Actors, NEW b \in Actors,
         task[a].op = "recover"
  PROVE  task[b].op # "install"
<1>1. /\ task[a].op \in Does[a] \cup {"none"}
      /\ task[b].op \in Does[b] \cup {"none"}
  BY DEF TypeInv, Wired, WiredTask
<1>2. CASE a = b
  BY <1>2
<1>3. CASE a # b
  BY <1>1, <1>3 DEF Isolated, TypeInv, RecoveryAlone
<1> QED
  BY <1>2, <1>3

\* How the variables of the other threads and directories come out of a step.
LEMMA Frame ==
  ASSUME TypeInv, NEW a \in Actors, NEW t, Continue(a, t)
  PROVE  \A b \in Actors : task'[b] = IF b = a THEN t ELSE task[b]
  BY DEF Continue, TypeInv, TypeOK

LEMMA FrameReturn ==
  ASSUME TypeInv, NEW a \in Actors, NEW r, Return(a, r)
  PROVE  \A b \in Actors : task'[b] = IF b = a THEN Rest ELSE task[b]
  BY Frame DEF Return

LEMMA QuietStep ==
  ASSUME TypeInv, DiskInv, NEW a \in Actors, NEW t, Continue(a, t),
         UNCHANGED <<dirs, condemned>>,
         t.pc \notin Staging \cup {"delete"}, t.dir \in {NoDir, task[a].dir}
  PROVE  DiskInv'
<1>1. \A b \in Actors : task'[b] = IF b = a THEN t ELSE task[b]
  BY Frame
<1>2. \A b \in Actors : task[b].pc \in Staging => task[b].dir \in Dirs
  BY DEF TypeInv, Wired, WiredTask
<1>3. ASSUME NEW b \in Actors
      PROVE  Staged(b)'
  BY <1>1, <1>2, AbsentAssumption DEF DiskInv, Staged
<1>4. ASSUME NEW b \in Actors
      PROVE  Deletes(b)'
  BY <1>1 DEF DiskInv, Deletes
<1> QED
  BY <1>3, <1>4 DEF DiskInv, WholeUnlessCondemned, Whole

LEMMA QuietReturn ==
  ASSUME TypeInv, DiskInv, NEW a \in Actors, NEW r, Return(a, r),
         UNCHANGED <<dirs, condemned>>
  PROVE  DiskInv'
  BY QuietStep, Blanks DEF Return

LEMMA DiskInit == Init => DiskInv
  BY Blanks DEF Init, DiskInv, Staged, Deletes, WholeUnlessCondemned

LEMMA DiskBegin ==
  ASSUME TypeInv, DiskInv, NEW a \in Actors, Begin(a)
  PROVE  DiskInv'
<1>1. ASSUME NEW id \in Ids, NEW recipe \in Recipes, NEW source \in Sources,
             InstallExisting(a, id, recipe, source)
      PROVE  DiskInv'
  <2> DEFINE t == [Rest EXCEPT !.op = "install", !.pc = "lookup",
                     !.rec = [id |-> id, recipe |-> recipe, source |-> source,
                                files |-> {}]]
  <2>1. Continue(a, t) /\ UNCHANGED <<dirs, condemned>>
    BY <1>1 DEF InstallExisting
  <2>2. t.pc \notin Staging \cup {"delete"} /\ t.dir \in {NoDir, task[a].dir}
    BY <1>1, Blanks DEF InstallExisting, TypeInv, TypeOK, Task
  <2> HIDE DEF t
  <2> QED
    BY <2>1, <2>2, QuietStep
<1>2. ASSUME NEW id \in Ids, NEW recipe \in Recipes, NEW source \in Sources,
             NEW d \in Dirs, InstallNew(a, id, recipe, source, d)
      PROVE  DiskInv'
  <2> DEFINE t == [Rest EXCEPT !.op = "install", !.pc = "fetch", !.dir = d,
                     !.todo = Payload,
                     !.rec = [id |-> id, recipe |-> recipe, source |-> source,
                                files |-> {}]]
             new == [name |-> "staging", id |-> id, recipe |-> recipe,
                     files |-> {Downloads}, manifest |-> NoRecord]
  <2>1. /\ t.pc = "fetch" /\ t.op = "install" /\ t.dir = d
        /\ t.todo = Payload /\ t.rec.id = id /\ t.rec.recipe = recipe
    BY Blanks DEF Task
  <2>2. Continue(a, t) /\ condemned' = condemned /\ Fresh(d)
    BY <1>2 DEF InstallNew
  <2>3. \A e \in Dirs : dirs'[e] = IF e = d THEN new ELSE dirs[e]
    BY <1>2 DEF InstallNew, TypeInv, TypeOK
  <2> HIDE DEF t
  <2>4. \A b \in Actors : task'[b] = IF b = a THEN t ELSE task[b]
    BY <2>2, Frame
  <2>5. \A b \in Actors : task[b].dir # d
    BY <2>2 DEF Fresh
  <2>6. \A b \in Actors : task[b].pc \in Staging \cup {"delete"} =>
          task[b].dir \in Dirs
    BY DEF TypeInv, Wired, WiredTask
  <2>7. ASSUME NEW b \in Actors
        PROVE  Staged(b)'
    BY <2>1, <2>3, <2>4, <2>5, <2>6 DEF DiskInv, Staged
  <2>8. ASSUME NEW b \in Actors
        PROVE  Deletes(b)'
    BY <2>1, <2>2, <2>3, <2>4, <2>5, <2>6 DEF DiskInv, Deletes
  <2>9. WholeUnlessCondemned'
    BY <2>2, <2>3 DEF DiskInv, WholeUnlessCondemned, Whole
  <2> QED
    BY <2>3, <2>7, <2>8, <2>9 DEF DiskInv
<1>3. ASSUME NEW id \in Ids, RemoveUnknown(a, id)
      PROVE  DiskInv'
  BY <1>3, Blanks, QuietReturn DEF RemoveUnknown
<1>4. ASSUME NEW id \in Ids, RemoveKnown(a, id)
      PROVE  DiskInv'
  <2> DEFINE t == [Rest EXCEPT !.op = "remove", !.pc = "open",
                     !.rec = registry[id]]
  <2>1. Continue(a, t) /\ UNCHANGED <<dirs, condemned>>
    BY <1>4 DEF RemoveKnown
  <2>2. t.pc \notin Staging \cup {"delete"} /\ t.dir \in {NoDir, task[a].dir}
    BY <1>4, Blanks DEF RemoveKnown, TypeInv, TypeOK, Task
  <2> HIDE DEF t
  <2> QED
    BY <2>1, <2>2, QuietStep
<1>5. CASE RecoverStart(a)
  <2> DEFINE t == [Rest EXCEPT !.op = "recover", !.pc = "scan",
                     !.due = {<<d, dirs[d].name>> :
                                d \in {e \in Dirs : dirs[e].name # "none"}}]
  <2>1. Continue(a, t) /\ UNCHANGED <<dirs, condemned>>
    BY <1>5 DEF RecoverStart
  <2>2. t.pc \notin Staging \cup {"delete"} /\ t.dir \in {NoDir, task[a].dir}
    BY <1>5, Blanks DEF RecoverStart, TypeInv, TypeOK, Task
  <2> HIDE DEF t
  <2> QED
    BY <2>1, <2>2, QuietStep
<1> QED
  BY <1>1, <1>2, <1>3, <1>4, <1>5 DEF Begin

\* An install works on its own staging directory: all that is left to show is
\* what it says about that directory itself.
LEMMA StagingStep ==
  ASSUME TypeInv, DiskInv, NEW a \in Actors, NEW t, Continue(a, t),
         task[a].pc \in Staging, t.pc \in Staging, t.dir = task[a].dir,
         \A d \in Dirs : d # task[a].dir => dirs'[d] = dirs[d],
         dirs'[task[a].dir].name = "staging",
         dirs'[task[a].dir].id = Here(a).id,
         dirs'[task[a].dir].recipe = Here(a).recipe,
         dirs'[task[a].dir].manifest # NoRecord =>
           dirs'[task[a].dir].manifest.files = Payload,
         t.rec.id = task[a].rec.id, t.rec.recipe = task[a].rec.recipe,
         Payload \ t.todo \subseteq dirs'[task[a].dir].files,
         t.pc = "fetch" =>
           dirs'[task[a].dir].files \subseteq Payload \cup {Downloads},
         t.pc # "fetch" => t.todo = {} /\ t.rec.files = Payload,
         t.pc = "activate" => dirs'[task[a].dir].manifest = t.rec,
         condemned' = condemned
  PROVE  DiskInv'
<1>1. \A b \in Actors : task'[b] = IF b = a THEN t ELSE task[b]
  BY Frame
<1>2. \A b \in Actors : task[b].pc \in Staging \cup {"delete"} =>
        task[b].dir \in Dirs
  BY DEF TypeInv, Wired, WiredTask
<1>3. /\ \A b \in Actors : task[b].dir = task[a].dir => b = a
      /\ Here(a).id = task[a].rec.id /\ Here(a).recipe = task[a].rec.recipe
  BY DEF DiskInv, Staged
<1>4. Staged(a)'
  BY <1>1, <1>3 DEF Staged
<1>5. ASSUME NEW b \in Actors, b # a
      PROVE  Staged(b)'
  BY <1>1, <1>2, <1>3, <1>5 DEF DiskInv, Staged
<1>6. ASSUME NEW b \in Actors
      PROVE  Deletes(b)'
  BY <1>1, <1>2, <1>3 DEF DiskInv, Deletes
<1>7. \A d \in Dirs : dirs'[d].manifest # NoRecord =>
        dirs'[d].manifest.files = Payload
  BY DEF DiskInv
<1>8. WholeUnlessCondemned'
  BY DEF DiskInv, WholeUnlessCondemned, Whole
<1> QED
  BY <1>4, <1>5, <1>6, <1>7, <1>8 DEF DiskInv

LEMMA DiskInstall ==
  ASSUME TypeInv, DiskInv, NEW a \in Actors, InstallStep(a)
  PROVE  DiskInv'
<1> USE DEF TypeInv, TypeOK
<1>0. task[a].pc \in Staging =>
        /\ task[a].dir \in Dirs
        /\ Staged(a)
        /\ Here(a) \in Directory
        /\ Here(a).manifest # NoRecord => Here(a).manifest.files = Payload
  BY DEF Wired, WiredTask, DiskInv
<1>1. CASE LookupRefuses(a)
  BY <1>1, QuietReturn DEF LookupRefuses
<1>2. CASE Lookup(a)
  <2> DEFINE t == [task[a] EXCEPT !.pc = "verify",
                        !.rec = registry[task[a].rec.id]]
  <2>1. /\ Continue(a, t) /\ UNCHANGED <<dirs, condemned>>
        /\ t.pc \notin Staging \cup {"delete"} /\ t.dir = task[a].dir
    BY <1>2 DEF Lookup, Task
  <2> HIDE DEF t
  <2> QED
    BY <2>1, QuietStep
<1>3. CASE VerifyExisting(a)
  BY <1>3, QuietReturn DEF VerifyExisting
<1>4. ASSUME NEW f \in Payload, Fetch(a, f)
      PROVE  DiskInv'
  <2> DEFINE t == [task[a] EXCEPT !.todo = @ \ {f}]
  <2>1. /\ Continue(a, t) /\ condemned' = condemned
        /\ t.pc = "fetch" /\ t.dir = task[a].dir
        /\ t.todo = task[a].todo \ {f} /\ t.rec = task[a].rec
        /\ task[a].pc = "fetch"
    BY <1>4 DEF Fetch, Task
  <2>2. /\ \A d \in Dirs : d # task[a].dir => dirs'[d] = dirs[d]
        /\ dirs'[task[a].dir] = [Here(a) EXCEPT !.files = @ \cup {f}]
    BY <1>0, <1>4 DEF Fetch
  <2>3. /\ dirs'[task[a].dir].name = Here(a).name
        /\ dirs'[task[a].dir].id = Here(a).id
        /\ dirs'[task[a].dir].recipe = Here(a).recipe
        /\ dirs'[task[a].dir].manifest = Here(a).manifest
        /\ dirs'[task[a].dir].files = Here(a).files \cup {f}
    BY <1>0, <2>1, <2>2 DEF Directory
  <2> HIDE DEF t
  <2> QED
    BY <1>0, <2>1, <2>2, <2>3, StagingStep DEF Staged
<1>5. CASE Snapshot(a)
  <2> DEFINE r == [task[a].rec EXCEPT !.files = Here(a).files \ {Downloads}]
             t == [task[a] EXCEPT !.pc = "check", !.rec = r]
  <2>1. Continue(a, t) /\ condemned' = condemned /\ task[a].pc = "fetch"
    BY <1>5 DEF Snapshot
  <2>2. /\ r.id = task[a].rec.id /\ r.recipe = task[a].rec.recipe
        /\ r.files = Here(a).files \ {Downloads}
    BY <2>1 DEF InstallRecord, Wired, WiredTask
  <2>3. /\ t.pc = "check" /\ t.dir = task[a].dir
        /\ t.todo = task[a].todo /\ t.rec = r
    <3> HIDE DEF r
    <3> QED
      BY DEF Task
  <2>4. /\ \A d \in Dirs : d # task[a].dir => dirs'[d] = dirs[d]
        /\ dirs'[task[a].dir] = [Here(a) EXCEPT !.files = @ \ {Downloads}]
    BY <1>0, <1>5 DEF Snapshot
  <2>5. /\ dirs'[task[a].dir].name = Here(a).name
        /\ dirs'[task[a].dir].id = Here(a).id
        /\ dirs'[task[a].dir].recipe = Here(a).recipe
        /\ dirs'[task[a].dir].manifest = Here(a).manifest
        /\ dirs'[task[a].dir].files = Here(a).files \ {Downloads}
    BY <1>0, <2>1, <2>4 DEF Directory
  <2>6. task[a].todo = {} /\ Here(a).files \ {Downloads} = Payload
    BY <1>0, <1>5, FilesAssumption DEF Snapshot, Staged
  <2> HIDE DEF t, r
  <2> QED
    BY ZenonT(60), <1>0, <2>1, <2>2, <2>3, <2>4, <2>5, <2>6, StagingStep
       DEF Staged
<1>6. CASE EngineWrites(a)
  <2>1. /\ Continue(a, task[a]) /\ condemned' = condemned
        /\ task[a].pc = "check"
    BY <1>6 DEF EngineWrites, Continue
  <2>2. /\ \A d \in Dirs : d # task[a].dir => dirs'[d] = dirs[d]
        /\ dirs'[task[a].dir] = [Here(a) EXCEPT !.files = @ \cup {Stray}]
    BY <1>0, <1>6 DEF EngineWrites
  <2>3. /\ dirs'[task[a].dir].name = Here(a).name
        /\ dirs'[task[a].dir].id = Here(a).id
        /\ dirs'[task[a].dir].recipe = Here(a).recipe
        /\ dirs'[task[a].dir].manifest = Here(a).manifest
        /\ dirs'[task[a].dir].files = Here(a).files \cup {Stray}
    BY <1>0, <2>1, <2>2 DEF Directory
  <2> QED
    BY <1>0, <2>1, <2>2, <2>3, StagingStep DEF Staged
<1>7. CASE Seal(a)
  <2> DEFINE t == [task[a] EXCEPT !.pc = "activate"]
  <2>1. /\ Continue(a, t) /\ condemned' = condemned /\ task[a].pc = "check"
        /\ t.pc = "activate" /\ t.dir = task[a].dir
        /\ t.todo = task[a].todo /\ t.rec = task[a].rec
    BY <1>7 DEF Seal, Task
  <2>2. /\ \A d \in Dirs : d # task[a].dir => dirs'[d] = dirs[d]
        /\ dirs'[task[a].dir] = [Here(a) EXCEPT !.manifest = task[a].rec]
    BY <1>0, <1>7 DEF Seal
  <2>3. /\ dirs'[task[a].dir].name = Here(a).name
        /\ dirs'[task[a].dir].id = Here(a).id
        /\ dirs'[task[a].dir].recipe = Here(a).recipe
        /\ dirs'[task[a].dir].manifest = task[a].rec
        /\ dirs'[task[a].dir].files = Here(a).files
    BY <1>0, <2>1, <2>2 DEF Directory
  <2> HIDE DEF t
  <2> QED
    BY <1>0, <2>1, <2>2, <2>3, StagingStep DEF Staged
<1>8. CASE Activate(a)
  <2> DEFINE t == [task[a] EXCEPT !.pc = "addLoad", !.dir = NoDir]
  <2>1. /\ Continue(a, t) /\ condemned' = condemned /\ task[a].pc = "activate"
        /\ t.pc = "addLoad" /\ t.dir = NoDir
    BY <1>8 DEF Activate, Task
  <2> HIDE DEF t
  <2>2. \A b \in Actors : task'[b] = IF b = a THEN t ELSE task[b]
    BY <2>1, Frame
  <2>3. \A d \in Dirs :
          \/ /\ d = task[a].dir
             /\ dirs'[d] = [Here(a) EXCEPT !.name = "generation"]
          \/ /\ d # task[a].dir /\ dirs[d].name = "generation"
             /\ dirs'[d] = Nothing
          \/ d # task[a].dir /\ dirs'[d] = dirs[d]
    BY <1>8 DEF Activate, Generation
  <2>4. /\ dirs'[task[a].dir].name = "generation"
        /\ dirs'[task[a].dir].id = task[a].rec.id
        /\ dirs'[task[a].dir].recipe = task[a].rec.recipe
        /\ dirs'[task[a].dir].manifest = task[a].rec
        /\ dirs'[task[a].dir].files = Payload
    <3>1. dirs'[task[a].dir] = [Here(a) EXCEPT !.name = "generation"]
      BY <1>0, <2>1, <2>3
    <3> QED
      BY <1>0, <1>8, <2>1, <3>1
         DEF Directory, Activate, PackageUnchanged, Staged
  <2>5. task[a].rec # NoRecord
    BY <2>1, AbsentAssumption DEF Wired, WiredTask
  <2>6. \A b \in Actors : task[b].pc \in Staging \cup {"delete"} =>
          task[b].dir \in Dirs
    BY DEF Wired, WiredTask
  <2>7. \A b \in Actors : task[b].dir = task[a].dir => b = a
    BY <1>0, <2>1 DEF Staged
  <2>8. ASSUME NEW b \in Actors
        PROVE  Staged(b)'
    <3>1. CASE b = a
      BY <2>1, <2>2, <3>1 DEF Staged
    <3>2. CASE b # a /\ task[b].pc \in Staging
      <4>1. /\ task[b].dir # task[a].dir /\ task[b].dir \in Dirs
            /\ Staged(b) /\ Here(b).name = "staging"
        BY <2>6, <2>7, <3>2 DEF DiskInv, Staged
      <4>2. dirs'[task[b].dir] = dirs[task[b].dir]
        BY <2>3, <4>1
      <4>3. task'[b] = task[b]
        BY <2>2, <3>2
      <4>4. \A c \in Actors : task'[c].dir = task[b].dir => c = b
        BY <2>1, <2>2, <3>2, <4>1, AbsentAssumption DEF Staged
      <4> QED
        BY <4>1, <4>2, <4>3, <4>4 DEF Staged
    <3>3. CASE b # a /\ task[b].pc \notin Staging
      BY <2>2, <3>3 DEF Staged
    <3> QED
      BY <3>1, <3>2, <3>3
  <2>9. ASSUME NEW b \in Actors
        PROVE  Deletes(b)'
    <3>1. CASE b # a /\ task[b].pc = "delete"
      <4>1. task'[b] = task[b] /\ Deletes(b) /\ task[b].dir \in Dirs
            /\ task[b].dir # task[a].dir
        BY <2>2, <2>6, <2>7, <3>1 DEF DiskInv
      <4>2. \/ dirs'[task[b].dir] = dirs[task[b].dir]
            \/ dirs'[task[b].dir] = Nothing
        BY <2>3, <4>1
      <4> QED
        BY <2>1, <4>1, <4>2, Blanks DEF Deletes
    <3>2. CASE b = a \/ task[b].pc # "delete"
      BY <2>1, <2>2, <3>2 DEF Deletes
    <3> QED
      BY <3>1, <3>2
  <2>10. \A d \in Dirs : dirs'[d].manifest # NoRecord =>
           dirs'[d].manifest.files = Payload
    BY <1>0, <2>1, <2>3, <2>4, Blanks DEF DiskInv, Staged
  <2>11. WholeUnlessCondemned'
    <3>1. ASSUME NEW d \in Dirs, dirs'[d].name = "generation",
                 d \notin condemned
          PROVE  Whole(d)'
      <4>1. CASE d = task[a].dir
        BY <1>0, <2>1, <2>4, <2>5, <4>1 DEF Whole, Staged
      <4>2. CASE d # task[a].dir
        BY <2>3, <3>1, <4>2, Blanks DEF DiskInv, WholeUnlessCondemned, Whole
      <4> QED
        BY <4>1, <4>2
    <3> QED
      BY <2>1, <3>1 DEF WholeUnlessCondemned
  <2> QED
    BY <2>8, <2>9, <2>10, <2>11 DEF DiskInv
<1>9. CASE InstallFails(a)
  <2>1. Return(a, "error") /\ condemned' = condemned
    BY <1>9 DEF InstallFails
  <2>2. CASE dirs' = dirs
    BY <2>1, <2>2, QuietReturn
  <2>3. CASE dirs' = [dirs EXCEPT ![task[a].dir] = Nothing]
    <3>1. \A b \in Actors : task'[b] = IF b = a THEN Rest ELSE task[b]
      BY <2>1, FrameReturn
    <3>2. /\ task[a].pc \in Staging
          /\ \A b \in Actors : task[b].dir = task[a].dir => b = a
      BY <1>0, <1>9 DEF InstallFails, Staged
    <3>3. \A d \in Dirs :
            dirs'[d] = IF d = task[a].dir THEN Nothing ELSE dirs[d]
      BY <1>0, <2>3, <3>2
    <3>4. \A b \in Actors : task[b].pc \in Staging \cup {"delete"} =>
            task[b].dir \in Dirs
      BY DEF Wired, WiredTask
    <3>5. ASSUME NEW b \in Actors
          PROVE  Staged(b)'
      BY <3>1, <3>2, <3>3, <3>4, Blanks, AbsentAssumption DEF DiskInv, Staged
    <3>6. ASSUME NEW b \in Actors
          PROVE  Deletes(b)'
      BY <2>1, <3>1, <3>2, <3>3, <3>4, Blanks DEF DiskInv, Deletes
    <3>7. WholeUnlessCondemned'
      BY <2>1, <3>3, Blanks DEF DiskInv, WholeUnlessCondemned, Whole
    <3> QED
      BY <3>3, <3>5, <3>6, <3>7, Blanks DEF DiskInv
  <2> QED
    BY <1>9, <2>2, <2>3 DEF InstallFails
<1> QED
  BY <1>1, <1>2, <1>3, <1>4, <1>5, <1>6, <1>7, <1>8, <1>9 DEF InstallStep

LEMMA DiskRegistry ==
  ASSUME TypeInv, DiskInv, NEW a \in Actors, RegistryStep(a)
  PROVE  DiskInv'
<1> USE DEF TypeInv, TypeOK
<1>1. CASE AddLoad(a)
  <2> PICK loaded \in Loads(a) :
             Continue(a, [task[a] EXCEPT !.pc = "addSave", !.loaded = loaded])
    BY <1>1 DEF AddLoad
  <2> DEFINE t == [task[a] EXCEPT !.pc = "addSave", !.loaded = loaded]
  <2>1. /\ Continue(a, t) /\ UNCHANGED <<dirs, condemned>>
        /\ t.pc \notin Staging \cup {"delete"} /\ t.dir = task[a].dir
    BY <1>1 DEF AddLoad, Task
  <2> HIDE DEF t
  <2> QED
    BY <2>1, QuietStep
<1>2. CASE AddSave(a)
  <2> DEFINE t == [task[a] EXCEPT !.pc = "repair", !.rec = NoRecord,
                                  !.loaded = Unregistered]
  <2>1. /\ UNCHANGED <<dirs, condemned>>
        /\ Return(a, "ready") \/ Continue(a, t)
    BY <1>2 DEF AddSave
  <2>2. t.pc \notin Staging \cup {"delete"} /\ t.dir = task[a].dir
    BY DEF Task
  <2> HIDE DEF t
  <2> QED
    BY <2>1, <2>2, QuietStep, QuietReturn
<1>3. CASE ForgetNothing(a)
  BY <1>3, QuietReturn DEF ForgetNothing
<1>4. CASE ForgetLoad(a)
  <2> DEFINE t == [task[a] EXCEPT !.pc = "forgetSave", !.loaded = registry]
  <2>1. /\ Continue(a, t) /\ UNCHANGED <<dirs, condemned>>
        /\ t.pc \notin Staging \cup {"delete"} /\ t.dir = task[a].dir
    BY <1>4 DEF ForgetLoad, Task
  <2> HIDE DEF t
  <2> QED
    BY <2>1, QuietStep
<1>5. CASE ForgetSave(a)
  BY <1>5, QuietReturn DEF ForgetSave
<1>6. CASE RegistryFails(a)
  BY <1>6, QuietReturn DEF RegistryFails
<1> QED
  BY <1>1, <1>2, <1>3, <1>4, <1>5, <1>6 DEF RegistryStep

\* A remove_dir_all never works on the staging directory of a running install.
LEMMA DeletesApart ==
  ASSUME TypeInv, DiskInv, NEW a \in Actors, At(a, "delete"),
         NEW b \in Actors, task[b].pc \in Staging
  PROVE  task[b].dir # task[a].dir
  BY DEF DiskInv, Staged

\* A removal that takes something out of a directory it holds.
LEMMA DeletingStep ==
  ASSUME TypeInv, DiskInv, NEW a \in Actors, At(a, "delete"),
         UNCHANGED <<task, condemned>>,
         \A d \in Dirs : d # task[a].dir => dirs'[d] = dirs[d],
         dirs'[task[a].dir].name = Here(a).name,
         dirs'[task[a].dir].manifest \in {Here(a).manifest, NoRecord}
  PROVE  DiskInv'
<1>1. \A b \in Actors : task[b].pc \in Staging \cup {"delete"} =>
        task[b].dir \in Dirs
  BY DEF TypeInv, Wired, WiredTask
<1>2. ASSUME NEW b \in Actors
      PROVE  Staged(b)'
  BY <1>1, DeletesApart DEF DiskInv, Staged
<1>3. ASSUME NEW b \in Actors
      PROVE  Deletes(b)'
  BY <1>1 DEF DiskInv, Deletes
<1>4. \A d \in Dirs : dirs'[d].manifest # NoRecord =>
        dirs'[d].manifest.files = Payload
  BY <1>1 DEF DiskInv
<1>5. WholeUnlessCondemned'
  <2>1. ASSUME NEW d \in Dirs, dirs'[d].name = "generation", d \notin condemned
        PROVE  d # task[a].dir
    BY <2>1 DEF DiskInv, Deletes
  <2> QED
    BY <2>1 DEF DiskInv, WholeUnlessCondemned, Whole
<1> QED
  BY <1>2, <1>3, <1>4, <1>5 DEF DiskInv

LEMMA DiskRemove ==
  ASSUME TypeInv, DiskInv, NEW a \in Actors, RemoveStep(a)
  PROVE  DiskInv'
<1> USE DEF TypeInv, TypeOK
<1>0. \A b \in Actors : task[b].pc \in Staging \cup {"delete"} =>
        task[b].dir \in Dirs
  BY DEF Wired, WiredTask
<1>1. CASE RemoveMissing(a)
  <2> DEFINE t == [task[a] EXCEPT !.pc = "forgetLoad"]
  <2>1. /\ Continue(a, t) /\ UNCHANGED <<dirs, condemned>>
        /\ t.pc \notin Staging \cup {"delete"} /\ t.dir = task[a].dir
    BY <1>1 DEF RemoveMissing, Task
  <2> HIDE DEF t
  <2> QED
    BY <2>1, QuietStep
<1>2. CASE RemoveOpen(a)
  <2> PICK d \in Generation(task[a].rec.id) :
             /\ Continue(a, [task[a] EXCEPT !.pc = "delete", !.dir = d])
             /\ condemned' = condemned \cup {d}
    BY <1>2 DEF RemoveOpen
  <2> DEFINE t == [task[a] EXCEPT !.pc = "delete", !.dir = d]
  <2>1. d \in Dirs /\ dirs[d].name = "generation" /\ dirs' = dirs
    BY <1>2 DEF Generation, RemoveOpen
  <2>2. t.pc = "delete" /\ t.dir = d /\ t.op = "remove"
    BY <1>2 DEF RemoveOpen, Task, Wired, WiredTask
  <2>3. Continue(a, t) /\ condemned' = condemned \cup {d}
    OBVIOUS
  <2> HIDE DEF t
  <2>4. \A b \in Actors : task'[b] = IF b = a THEN t ELSE task[b]
    BY <2>3, Frame
  <2>5. ASSUME NEW b \in Actors
        PROVE  Staged(b)'
    BY <2>1, <2>2, <2>4 DEF DiskInv, Staged
  <2>6. ASSUME NEW b \in Actors
        PROVE  Deletes(b)'
    BY <2>1, <2>2, <2>3, <2>4 DEF DiskInv, Deletes
  <2>7. WholeUnlessCondemned'
    BY <2>1, <2>3 DEF DiskInv, WholeUnlessCondemned, Whole
  <2> QED
    BY <2>1, <2>5, <2>6, <2>7 DEF DiskInv
<1>3. ASSUME NEW f \in Files, DeleteFile(a, f)
      PROVE  DiskInv'
  <2>1. /\ At(a, "delete") /\ task' = task /\ condemned' = condemned
        /\ \A d \in Dirs : d # task[a].dir => dirs'[d] = dirs[d]
        /\ dirs'[task[a].dir] = [Here(a) EXCEPT !.files = @ \ {f}]
    BY <1>0, <1>3 DEF DeleteFile
  <2>2. /\ dirs'[task[a].dir].name = Here(a).name
        /\ dirs'[task[a].dir].manifest \in {Here(a).manifest, NoRecord}
    BY <1>0, <2>1 DEF Directory
  <2> QED
    BY <1>0, <2>1, <2>2, DeletingStep
<1>4. CASE DeleteManifest(a)
  <2>1. /\ At(a, "delete") /\ task' = task /\ condemned' = condemned
        /\ \A d \in Dirs : d # task[a].dir => dirs'[d] = dirs[d]
        /\ dirs'[task[a].dir] = [Here(a) EXCEPT !.manifest = NoRecord]
    BY <1>0, <1>4 DEF DeleteManifest
  <2>2. /\ dirs'[task[a].dir].name = Here(a).name
        /\ dirs'[task[a].dir].manifest \in {Here(a).manifest, NoRecord}
    BY <1>0, <2>1 DEF Directory
  <2> QED
    BY <1>0, <2>1, <2>2, DeletingStep
<1>5. CASE DeleteDirectory(a)
  <2> DEFINE t == [task[a] EXCEPT !.dir = NoDir,
                                  !.pc = IF task[a].op = "remove"
                                         THEN "forgetLoad" ELSE "scan"]
  <2>1. /\ Continue(a, t) /\ condemned' = condemned \ {task[a].dir}
        /\ t.pc \notin Staging \cup {"delete"} /\ t.dir = NoDir
        /\ At(a, "delete")
    BY <1>5 DEF DeleteDirectory, Task
  <2> HIDE DEF t
  <2>2. \A b \in Actors : task'[b] = IF b = a THEN t ELSE task[b]
    BY <2>1, Frame
  <2>3. \A d \in Dirs :
          dirs'[d] = IF d = task[a].dir THEN Nothing ELSE dirs[d]
    BY <1>0, <1>5 DEF DeleteDirectory
  <2>4. ASSUME NEW b \in Actors
        PROVE  Staged(b)'
    BY <1>0, <2>1, <2>2, <2>3, DeletesApart, AbsentAssumption
       DEF DiskInv, Staged
  <2>5. ASSUME NEW b \in Actors
        PROVE  Deletes(b)'
    BY <1>0, <2>1, <2>2, <2>3, Blanks DEF DiskInv, Deletes
  <2>6. WholeUnlessCondemned'
    BY <2>1, <2>3, Blanks DEF DiskInv, WholeUnlessCondemned, Whole
  <2> QED
    BY <2>3, <2>4, <2>5, <2>6, Blanks DEF DiskInv
<1>6. CASE DeleteFails(a)
  BY <1>6, QuietReturn DEF DeleteFails
<1> QED
  BY <1>1, <1>2, <1>3, <1>4, <1>5, <1>6 DEF RemoveStep

LEMMA DiskRecover ==
  ASSUME Isolated, TypeInv, DiskInv, NEW a \in Actors, RecoverStep(a)
  PROVE  DiskInv'
<1> USE DEF TypeInv, TypeOK
<1>1. ASSUME NEW d \in Dirs, ScanStaging(a, d)
      PROVE  DiskInv'
  <2> DEFINE t == [task[a] EXCEPT !.pc = "delete", !.dir = d,
                                  !.due = @ \ {<<d, "staging">>}]
  <2>1. /\ Continue(a, t) /\ UNCHANGED <<dirs, condemned>>
        /\ t.pc = "delete" /\ t.dir = d /\ t.op = task[a].op
        /\ At(a, "scan") /\ dirs[d].name = "staging"
    BY <1>1 DEF ScanStaging, Task
  <2> HIDE DEF t
  <2>2. \A b \in Actors : task'[b] = IF b = a THEN t ELSE task[b]
    BY <2>1, Frame
  <2>3. task[a].op = "recover"
    BY <2>1 DEF Wired, WiredTask
  <2>4. \A b \in Actors : task[b].pc \notin Staging
    BY <2>3, NoInstallBesideRecovery DEF Wired, WiredTask
  <2>5. ASSUME NEW b \in Actors
        PROVE  Staged(b)'
    BY <2>1, <2>2, <2>4 DEF Staged
  <2>6. ASSUME NEW b \in Actors
        PROVE  Deletes(b)'
    BY <2>1, <2>2, <2>3 DEF DiskInv, Deletes
  <2>7. WholeUnlessCondemned'
    BY <2>1 DEF DiskInv, WholeUnlessCondemned, Whole
  <2> QED
    BY <2>1, <2>5, <2>6, <2>7 DEF DiskInv
<1>2. ASSUME NEW d \in Dirs, ScanGeneration(a, d)
      PROVE  DiskInv'
  <2> DEFINE due == task[a].due \ {<<d, "generation">>}
             found == task[a].found \cup ({dirs[d].manifest} \ {NoRecord})
             t == [task[a] EXCEPT !.due = due, !.found = found]
  <2>1. /\ Continue(a, t) /\ UNCHANGED <<dirs, condemned>>
        /\ task[a].pc = "scan"
    BY <1>2 DEF ScanGeneration
  <2>2. t.pc = task[a].pc /\ t.dir = task[a].dir
    <3> HIDE DEF due, found
    <3> QED
      BY DEF Task
  <2> HIDE DEF t
  <2> QED
    BY <2>1, <2>2, QuietStep
<1>3. ASSUME NEW d \in Dirs, ScanBlocked(a, d)
      PROVE  DiskInv'
  BY <1>3, QuietReturn DEF ScanBlocked
<1>4. CASE ScanDone(a)
  <2> PICK loaded \in Loads(a) :
             Continue(a, [task[a] EXCEPT !.pc = "repair", !.due = {},
                            !.known = {id \in Ids : loaded[id] # NoRecord}])
    BY <1>4 DEF ScanDone
  <2> DEFINE known == {id \in Ids : loaded[id] # NoRecord}
             t == [task[a] EXCEPT !.pc = "repair", !.due = {}, !.known = known]
  <2>1. /\ Continue(a, t) /\ UNCHANGED <<dirs, condemned>>
        /\ t.pc \notin Staging \cup {"delete"} /\ t.dir = task[a].dir
    BY <1>4 DEF ScanDone, Task
  <2> HIDE DEF t
  <2> QED
    BY <2>1, QuietStep
<1>5. CASE RecoverDone(a)
  BY <1>5, QuietReturn DEF RecoverDone
<1>6. ASSUME NEW r \in task[a].found, Repair(a, r)
      PROVE  DiskInv'
  <2> DEFINE t == [task[a] EXCEPT !.pc = "addLoad", !.rec = r,
                                  !.found = @ \ {r}]
             u == [task[a] EXCEPT !.found = @ \ {r}]
  <2>1. /\ Continue(a, t) \/ Continue(a, u)
        /\ UNCHANGED <<dirs, condemned>>
        /\ task[a].pc = "repair"
    BY <1>6 DEF Repair
  <2>2. /\ t.pc = "addLoad" /\ t.dir = task[a].dir
        /\ u.pc = task[a].pc /\ u.dir = task[a].dir
    BY DEF Task
  <2> HIDE DEF t, u
  <2> QED
    BY <2>1, <2>2, QuietStep
<1> QED
  BY <1>1, <1>2, <1>3, <1>4, <1>5, <1>6 DEF RecoverStep

LEMMA DiskReadFails ==
  ASSUME TypeInv, DiskInv, NEW a \in Actors, ReadFails(a)
  PROVE  DiskInv'
  BY QuietReturn DEF ReadFails

LEMMA DiskEnvironment ==
  ASSUME TypeInv, DiskInv,
         \/ \E p \in Processes : Crash(p)
         \/ \E d \in Dirs : EngineUsed(d)
  PROVE  DiskInv'
<1> USE DEF TypeInv, TypeOK
<1>0. \A b \in Actors : task[b].pc \in Staging \cup {"delete"} =>
        task[b].dir \in Dirs
  BY DEF Wired, WiredTask
<1>1. ASSUME NEW p \in Processes, Crash(p)
      PROVE  DiskInv'
  <2>1. \A b \in Actors : task'[b] = Rest \/ task'[b] = task[b]
    BY <1>1 DEF Crash
  <2>2. UNCHANGED <<dirs, condemned>>
    BY <1>1 DEF Crash
  <2>3. ASSUME NEW b \in Actors
        PROVE  Staged(b)'
    BY <1>0, <2>1, <2>2, Blanks, AbsentAssumption DEF DiskInv, Staged
  <2>4. ASSUME NEW b \in Actors
        PROVE  Deletes(b)'
    BY <2>1, <2>2, Blanks DEF DiskInv, Deletes
  <2> QED
    BY <2>2, <2>3, <2>4 DEF DiskInv, WholeUnlessCondemned, Whole
<1>2. ASSUME NEW d \in Dirs, EngineUsed(d)
      PROVE  DiskInv'
  <2>1. /\ \A e \in Dirs : e # d => dirs'[e] = dirs[e]
        /\ dirs'[d] = [dirs[d] EXCEPT !.files = @ \cup {Stray}]
        /\ \A b \in Actors : task[b].dir # d
        /\ UNCHANGED <<task, condemned>>
    BY <1>2 DEF EngineUsed
  <2>2. /\ dirs'[d].name = dirs[d].name /\ dirs'[d].id = dirs[d].id
        /\ dirs'[d].recipe = dirs[d].recipe
        /\ dirs'[d].manifest = dirs[d].manifest
        /\ dirs'[d].files = dirs[d].files \cup {Stray}
    BY <2>1 DEF Directory
  <2>3. ASSUME NEW b \in Actors
        PROVE  Staged(b)'
    BY <1>0, <2>1 DEF DiskInv, Staged
  <2>4. ASSUME NEW b \in Actors
        PROVE  Deletes(b)'
    BY <1>0, <2>1 DEF DiskInv, Deletes
  <2>5. \A e \in Dirs : /\ dirs'[e].name = dirs[e].name
                        /\ dirs'[e].id = dirs[e].id
                        /\ dirs'[e].recipe = dirs[e].recipe
                        /\ dirs'[e].manifest = dirs[e].manifest
                        /\ dirs[e].files \subseteq dirs'[e].files
    BY <2>1, <2>2
  <2>6. WholeUnlessCondemned'
    BY <2>1, <2>5 DEF DiskInv, WholeUnlessCondemned, Whole
  <2> QED
    BY <2>3, <2>4, <2>5, <2>6 DEF DiskInv
<1> QED
  BY <1>1, <1>2

LEMMA DiskNext ==
  ASSUME Isolated, TypeInv, DiskInv, [Next]_vars
  PROVE  DiskInv'
<1>1. CASE UNCHANGED vars
  BY <1>1 DEF vars, DiskInv, Staged, Deletes, WholeUnlessCondemned, Whole
<1>2. CASE Next
  BY <1>2, DiskBegin, DiskInstall, DiskRegistry, DiskRemove, DiskRecover,
     DiskReadFails, DiskEnvironment DEF Next, Step
<1> QED
  BY <1>1, <1>2

\* Where recoveries share a process with the installers, a package is seen
\* under its final path only complete and with its manifest, whatever crashes,
\* is cancelled or runs at the same time, until somebody asks for its removal.
THEOREM GenerationsAreWhole ==
  ASSUME Isolated
  PROVE  Spec => []WholeUnlessCondemned
<1>1. Init => TypeInv /\ DiskInv
  BY TypeInit, DiskInit
<1>2. TypeInv /\ DiskInv /\ [Next]_vars => (TypeInv /\ DiskInv)'
  BY TypeNext, DiskNext
<1>3. DiskInv => WholeUnlessCondemned
  BY DEF DiskInv
<1> QED
  BY <1>1, <1>2, <1>3, PTL DEF Spec
=============================================================================
