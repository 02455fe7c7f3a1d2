-------------------------- MODULE InstallLifecycle --------------------------
(***************************************************************************)
(* The life of an installed engine package in UCI-Grabber: install.rs      *)
(* (Installer::install_with_progress, stage, recover) and registry.rs      *)
(* (RegistryStore::add, forget, remove, integrity), run by several threads *)
(* of several processes over one data directory.  Nothing in the code      *)
(* locks that directory: every file-system call and every load or save of  *)
(* registry.json is a step of its own here, and a process may die between  *)
(* any two of them.                                                        *)
(*                                                                         *)
(* A directory is an object of its own (an inode), because remove_dir_all  *)
(* deletes through a handle: it goes on deleting inside a staging          *)
(* directory that has been renamed to a generation meanwhile.              *)
(***************************************************************************)
CONSTANTS
  Actors,      \* threads that run operations
  Processes,   \* operating-system processes
  Proc,        \* Proc[a]: the process thread a belongs to
  Does,        \* Does[a]: the operations thread a may run
  Ids,         \* install ids (recipe:model:version:platform), one path each
  Recipes,     \* recipe contents, told apart by recipe_sha256
  Sources,     \* InstallSource values in use
  Payload,     \* the files the artifacts of a package materialize
  Exe,         \* the executable among them
  Downloads,   \* staging/.downloads
  Stray,       \* a file that no artifact declares, written by a running engine
  Dirs,        \* directory identities
  NoDir,
  NoRecord

Operations == {"install", "remove", "recover"}

ASSUME ProcessesAssumption ==
  /\ Proc \in [Actors -> Processes]
  /\ Does \in [Actors -> SUBSET Operations]

ASSUME InputsAssumption == Ids # {} /\ Recipes # {}

ASSUME FilesAssumption ==
  /\ Exe \in Payload
  /\ Downloads \notin Payload
  /\ Stray \notin Payload
  /\ Downloads # Stray

Files == Payload \cup {Downloads, Stray}

\* What schema of an InstallRecord the properties tell apart: the id stands for
\* the generation path too, files for package_sha256 with its two counts.
InstallRecord ==
  [id: Ids, recipe: Recipes, source: Sources, files: SUBSET Files]

MaybeRecord == InstallRecord \cup {NoRecord}

ASSUME AbsentAssumption ==
  /\ NoRecord \notin InstallRecord
  /\ NoDir \notin Dirs

VARIABLES
  dirs,       \* dirs[d]: what the file system holds under identity d
  registry,   \* registry[id]: the record in registry.json, or NoRecord
  task,       \* task[a]: program counter and local variables of thread a
  result,     \* result[a]: what the last operation of a returned
  condemned   \* history: generations whose removal somebody asked for

vars == <<dirs, registry, task, result, condemned>>

Registry == [Ids -> MaybeRecord]

Names == {"none", "staging", "generation"}

Directory ==
  [name: Names, id: Ids, recipe: Recipes, files: SUBSET Files,
   manifest: MaybeRecord]

ProgramCounters ==
  {"idle", "lookup", "verify", "fetch", "check", "activate", "addLoad",
   "addSave", "open", "delete", "forgetLoad", "forgetSave", "scan", "repair"}

Task ==
  [op: Operations \cup {"none"}, pc: ProgramCounters, rec: MaybeRecord,
   dir: Dirs \cup {NoDir}, todo: SUBSET Payload, loaded: Registry,
   due: SUBSET (Dirs \X Names), found: SUBSET InstallRecord,
   known: SUBSET Ids]

Results ==
  {"none", "ready", "removed", "absent", "recovered", "blocked", "error"}

TypeOK ==
  /\ dirs \in [Dirs -> Directory]
  /\ registry \in Registry
  /\ task \in [Actors -> Task]
  /\ result \in [Actors -> Results]
  /\ condemned \in SUBSET Dirs

-----------------------------------------------------------------------------
(* The file system and the threads                                         *)

Unregistered == [id \in Ids |-> NoRecord]

\* A directory that no path names: nobody can read what it held.
Nothing ==
  [name |-> "none", id |-> CHOOSE id \in Ids : TRUE,
   recipe |-> CHOOSE recipe \in Recipes : TRUE, files |-> {},
   manifest |-> NoRecord]

Rest ==
  [op |-> "none", pc |-> "idle", rec |-> NoRecord, dir |-> NoDir,
   todo |-> {}, loaded |-> Unregistered, due |-> {}, found |-> {},
   known |-> {}]

Init ==
  /\ dirs = [d \in Dirs |-> Nothing]
  /\ registry = Unregistered
  /\ task = [a \in Actors |-> Rest]
  /\ result = [a \in Actors |-> "none"]
  /\ condemned = {}

At(a, pc) == task[a].pc = pc

Here(a) == dirs[task[a].dir]

\* The directory at the generation path of an install id, if there is one.
Generation(id) ==
  {d \in Dirs : dirs[d].name = "generation" /\ dirs[d].id = id}

Hollow(d) == dirs[d].files = {} /\ dirs[d].manifest = NoRecord

\* Mutant: a staging name that another install may be using.
ReusedStaging(d) == dirs[d].name # "generation"

Fresh(d) ==
  /\ dirs[d].name = "none"
  /\ d \notin condemned
  /\ \A a \in Actors : task[a].dir # d

\* Mutant: integrity stops at "the generation exists".
VerifiedByPresence(r) == Generation(r.id) # {}

\* RegistryStore::integrity: the executable is there and the package digest,
\* which leaves the manifest out, is the recorded one.
Verified(r) ==
  \E d \in Generation(r.id) :
    /\ Exe \in dirs[d].files
    /\ dirs[d].recipe = r.recipe
    /\ dirs[d].files = r.files

\* App::load runs recover before the window, and so before any job, exists; a
\* CLI process runs one operation.  So a recovery shares its process with
\* nothing else.
Recovering(p) == \E a \in Actors : Proc[a] = p /\ task[a].op = "recover"

Busy(p) == \E a \in Actors : Proc[a] = p /\ task[a].pc # "idle"

CanStart(a, op) ==
  /\ op \in Does[a]
  /\ At(a, "idle")
  /\ ~Recovering(Proc[a])

\* The registries that other threads are saving changes of.
BeingSaved(a) ==
  {task[b].loaded : b \in {c \in Actors \ {a} :
                            task[c].pc \in {"addSave", "forgetSave"}}}

\* What RegistryStore::load returns to thread a: registry.json, or nothing at
\* all when another save comes between the looks at registry.json and at its
\* backup (RegistryFile has the steps of load and save).
Loads(a) ==
  {registry} \cup {r \in {Unregistered} : BeingSaved(a) # {}}

\* What RegistryStore::save of thread a leaves in registry.json: the registry
\* it wrote, or, when saves overlap, nothing, or what the other one put back.
Saves(a, written) ==
  {written} \cup BeingSaved(a)
  \cup {r \in {Unregistered} : BeingSaved(a) # {}}

Continue(a, t) == task' = [task EXCEPT ![a] = t]

Return(a, r) ==
  /\ Continue(a, Rest)
  /\ result' = [result EXCEPT ![a] = r]

-----------------------------------------------------------------------------
(* install: Installer::install_with_progress and Installer::stage          *)

\* The generation path exists: the request is answered from the registry.
InstallExisting(a, id, recipe, source) ==
  /\ CanStart(a, "install")
  /\ Generation(id) # {}
  /\ Continue(a,
       [Rest EXCEPT !.op = "install", !.pc = "lookup",
          !.rec = [id |-> id, recipe |-> recipe, source |-> source,
                   files |-> {}]])
  /\ result' = [result EXCEPT ![a] = "none"]
  /\ UNCHANGED <<dirs, registry, condemned>>

\* It does not: create .staging-<pid>-<nonce> and its .downloads.
InstallNew(a, id, recipe, source, d) ==
  /\ CanStart(a, "install")
  /\ Generation(id) = {}
  /\ Fresh(d)
  /\ dirs' = [dirs EXCEPT ![d] =
       [name |-> "staging", id |-> id, recipe |-> recipe,
        files |-> {Downloads}, manifest |-> NoRecord]]
  /\ Continue(a,
       [Rest EXCEPT !.op = "install", !.pc = "fetch", !.dir = d,
          !.todo = Payload,
          !.rec = [id |-> id, recipe |-> recipe, source |-> source,
                   files |-> {}]])
  /\ result' = [result EXCEPT ![a] = "none"]
  /\ UNCHANGED <<registry, condemned>>

\* The registry knows the generation, from the same recipe and trust source.
Matches(a, loaded) ==
  LET r == loaded[task[a].rec.id] IN
  /\ r # NoRecord
  /\ r.recipe = task[a].rec.recipe
  /\ r.source = task[a].rec.source

\* "already exists but is not registered" and "immutable-version conflict".
LookupRefuses(a) ==
  /\ At(a, "lookup")
  /\ \E loaded \in Loads(a) : ~Matches(a, loaded)
  /\ Return(a, "error")
  /\ UNCHANGED <<dirs, registry, condemned>>

Lookup(a) ==
  /\ At(a, "lookup")
  /\ Matches(a, registry)
  /\ Continue(a, [task[a] EXCEPT !.pc = "verify",
                                 !.rec = registry[task[a].rec.id]])
  /\ UNCHANGED <<dirs, registry, result, condemned>>

VerifyExisting(a) ==
  /\ At(a, "verify")
  /\ Return(a, IF Verified(task[a].rec) THEN "ready" ELSE "error")
  /\ UNCHANGED <<dirs, registry, condemned>>

\* One artifact: download into .downloads, verify, materialize.
Fetch(a, f) ==
  /\ At(a, "fetch")
  /\ f \in task[a].todo
  /\ Downloads \in Here(a).files
  /\ dirs' = [dirs EXCEPT ![task[a].dir].files = @ \cup {f}]
  /\ Continue(a, [task[a] EXCEPT !.todo = @ \ {f}])
  /\ UNCHANGED <<registry, result, condemned>>

\* Mutant: the artifact loop ends before the last artifact.
SnapshotEarly(a) ==
  /\ At(a, "fetch")
  /\ {Downloads, Exe} \subseteq Here(a).files
  /\ dirs' = [dirs EXCEPT ![task[a].dir].files = @ \ {Downloads}]
  /\ Continue(a, [task[a] EXCEPT !.pc = "check",
                                 !.rec.files = Here(a).files \ {Downloads}])
  /\ UNCHANGED <<registry, result, condemned>>

\* The loop is done: remove .downloads, validate the staged paths (of all the
\* files only the executable is looked for) and take the package snapshot.
Snapshot(a) ==
  /\ At(a, "fetch")
  /\ task[a].todo = {}
  /\ {Downloads, Exe} \subseteq Here(a).files
  /\ dirs' = [dirs EXCEPT ![task[a].dir].files = @ \ {Downloads}]
  /\ Continue(a, [task[a] EXCEPT !.pc = "check",
                                 !.rec.files = Here(a).files \ {Downloads}])
  /\ UNCHANGED <<registry, result, condemned>>

\* The engine under UCI validation writes into its working directory.
EngineWrites(a) ==
  /\ At(a, "check")
  /\ Here(a).name = "staging"
  /\ Stray \notin Here(a).files
  /\ dirs' = [dirs EXCEPT ![task[a].dir].files = @ \cup {Stray}]
  /\ UNCHANGED <<registry, task, result, condemned>>

\* The staged package is still the one the snapshot was taken of.
PackageUnchanged(a) ==
  /\ Here(a).name = "staging"
  /\ Here(a).files = task[a].rec.files

\* UCI validation passed, the package did not change: write the manifest.
Seal(a) ==
  /\ At(a, "check")
  /\ PackageUnchanged(a)
  /\ dirs' = [dirs EXCEPT ![task[a].dir].manifest = task[a].rec]
  /\ Continue(a, [task[a] EXCEPT !.pc = "activate"])
  /\ UNCHANGED <<registry, result, condemned>>

\* Mutant: the generation path is cleared first.
Overwritten(id) == id \in Ids

\* rename(staging, generation) goes ahead if nothing, or on Unix an empty
\* directory, is at the generation path.
Vacant(id) == \A g \in Generation(id) : Hollow(g)

\* The second snapshot comparison, the last look at the cancel flag, and the
\* rename.
Activate(a) ==
  LET id == task[a].rec.id IN
  /\ At(a, "activate")
  /\ PackageUnchanged(a)
  /\ Vacant(id)
  /\ dirs' = [d \in Dirs |->
       IF d = task[a].dir THEN [dirs[d] EXCEPT !.name = "generation"]
       ELSE IF d \in Generation(id) THEN Nothing
       ELSE dirs[d]]
  /\ Continue(a, [task[a] EXCEPT !.pc = "addLoad", !.dir = NoDir])
  /\ UNCHANGED <<registry, result, condemned>>

\* Cancellation, a failed download, digest, extraction, UCI run or snapshot
\* comparison, a refused rename: the error is returned after a removal of the
\* staging directory whose own failure is ignored.
InstallFails(a) ==
  /\ task[a].pc \in {"fetch", "check", "activate"}
  /\ \/ dirs' = dirs
     \/ /\ Here(a).name = "staging"
        /\ dirs' = [dirs EXCEPT ![task[a].dir] = Nothing]
  /\ Return(a, "error")
  /\ UNCHANGED <<registry, condemned>>

-----------------------------------------------------------------------------
(* registry.json: RegistryStore::add and forget, a load and then a save    *)

Added(a) == [task[a].loaded EXCEPT ![task[a].rec.id] = task[a].rec]

Forgotten(a) == [task[a].loaded EXCEPT ![task[a].rec.id] = NoRecord]

AddLoad(a) ==
  /\ At(a, "addLoad")
  /\ \E loaded \in Loads(a) :
       Continue(a, [task[a] EXCEPT !.pc = "addSave", !.loaded = loaded])
  /\ UNCHANGED <<dirs, registry, result, condemned>>

\* stage reports Ready; recover goes on with the next record.
AddSave(a) ==
  /\ At(a, "addSave")
  /\ registry' \in Saves(a, Added(a))
  /\ \/ /\ task[a].op = "install"
        /\ Return(a, "ready")
     \/ /\ task[a].op = "recover"
        /\ Continue(a, [task[a] EXCEPT !.pc = "repair", !.rec = NoRecord,
                                       !.loaded = Unregistered])
        /\ UNCHANGED result
  /\ UNCHANGED <<dirs, condemned>>

\* No record to drop: forget returns false without a save, remove still true.
ForgetNothing(a) ==
  /\ At(a, "forgetLoad")
  /\ \E loaded \in Loads(a) : loaded[task[a].rec.id] = NoRecord
  /\ Return(a, "removed")
  /\ UNCHANGED <<dirs, registry, condemned>>

ForgetLoad(a) ==
  /\ At(a, "forgetLoad")
  /\ registry[task[a].rec.id] # NoRecord
  /\ Continue(a, [task[a] EXCEPT !.pc = "forgetSave", !.loaded = registry])
  /\ UNCHANGED <<dirs, registry, result, condemned>>

ForgetSave(a) ==
  /\ At(a, "forgetSave")
  /\ registry' \in Saves(a, Forgotten(a))
  /\ Return(a, "removed")
  /\ UNCHANGED <<dirs, condemned>>

\* An I/O error of the load or the save.  Its last call, the sync of the data
\* directory, fails after registry.json was replaced.
RegistryFails(a) ==
  /\ task[a].pc \in {"addLoad", "addSave", "forgetLoad", "forgetSave"}
  /\ \/ registry' = registry
     \/ At(a, "addSave") /\ registry' \in Saves(a, Added(a))
     \/ At(a, "forgetSave") /\ registry' \in Saves(a, Forgotten(a))
  /\ Return(a, "error")
  /\ UNCHANGED <<dirs, condemned>>

-----------------------------------------------------------------------------
(* remove_dir_all, used by remove on a generation, by recover on staging    *)

DeleteFile(a, f) ==
  /\ At(a, "delete")
  /\ f \in Here(a).files
  /\ dirs' = [dirs EXCEPT ![task[a].dir].files = @ \ {f}]
  /\ UNCHANGED <<registry, task, result, condemned>>

DeleteManifest(a) ==
  /\ At(a, "delete")
  /\ Here(a).manifest # NoRecord
  /\ dirs' = [dirs EXCEPT ![task[a].dir].manifest = NoRecord]
  /\ UNCHANGED <<registry, task, result, condemned>>

\* The final rmdir goes by path: the directory is still the one at that path.
DeleteDirectory(a) ==
  /\ At(a, "delete")
  /\ Hollow(task[a].dir)
  /\ Here(a).name = IF task[a].op = "remove" THEN "generation" ELSE "staging"
  /\ dirs' = [dirs EXCEPT ![task[a].dir] = Nothing]
  /\ Continue(a, [task[a] EXCEPT !.dir = NoDir,
                            !.pc = IF task[a].op = "remove"
                                   THEN "forgetLoad" ELSE "scan"])
  /\ condemned' = condemned \ {task[a].dir}
  /\ UNCHANGED <<registry, result>>

\* A file in use, a directory refilled or gone meanwhile, any I/O error.
DeleteFails(a) ==
  /\ At(a, "delete")
  /\ Return(a, "error")
  /\ UNCHANGED <<dirs, registry, condemned>>

-----------------------------------------------------------------------------
(* remove: RegistryStore::remove                                            *)

RemoveUnknown(a, id) ==
  /\ CanStart(a, "remove")
  /\ \E loaded \in Loads(a) : loaded[id] = NoRecord
  /\ Return(a, "absent")
  /\ UNCHANGED <<dirs, registry, condemned>>

RemoveKnown(a, id) ==
  /\ CanStart(a, "remove")
  /\ registry[id] # NoRecord
  /\ Continue(a,
       [Rest EXCEPT !.op = "remove", !.pc = "open", !.rec = registry[id]])
  /\ result' = [result EXCEPT ![a] = "none"]
  /\ UNCHANGED <<dirs, registry, condemned>>

\* Mutant: a generation that is gone needs no forget.
RemoveMissingReturns(a) ==
  /\ At(a, "open")
  /\ Generation(task[a].rec.id) = {}
  /\ Return(a, "removed")
  /\ UNCHANGED <<dirs, registry, condemned>>

RemoveMissing(a) ==
  /\ At(a, "open")
  /\ Generation(task[a].rec.id) = {}
  /\ Continue(a, [task[a] EXCEPT !.pc = "forgetLoad"])
  /\ UNCHANGED <<dirs, registry, result, condemned>>

RemoveOpen(a) ==
  /\ At(a, "open")
  /\ \E d \in Generation(task[a].rec.id) :
       /\ Continue(a, [task[a] EXCEPT !.pc = "delete", !.dir = d])
       /\ condemned' = condemned \cup {d}
  /\ UNCHANGED <<dirs, registry, result>>

-----------------------------------------------------------------------------
(* recover: Installer::recover                                              *)

\* The scan lists the tree as it goes.  It visits every directory that keeps
\* its name from the start on, and may visit one that appears during the scan.
RecoverStart(a) ==
  /\ CanStart(a, "recover")
  /\ ~Busy(Proc[a])
  /\ Continue(a,
       [Rest EXCEPT !.op = "recover", !.pc = "scan",
          !.due = {<<d, dirs[d].name>> :
                     d \in {e \in Dirs : dirs[e].name # "none"}}])
  /\ result' = [result EXCEPT ![a] = "none"]
  /\ UNCHANGED <<dirs, registry, condemned>>

\* Every .staging-* goes, whoever made it.
ScanStaging(a, d) ==
  /\ At(a, "scan")
  /\ dirs[d].name = "staging"
  /\ Continue(a, [task[a] EXCEPT !.pc = "delete", !.dir = d,
                                 !.due = @ \ {<<d, "staging">>}])
  /\ UNCHANGED <<dirs, registry, result, condemned>>

\* Mutant: a generation is taken to have a manifest.
ScanAnyGeneration(a, d) ==
  /\ At(a, "scan")
  /\ dirs[d].name = "generation"
  /\ Continue(a, [task[a] EXCEPT !.due = @ \ {<<d, "generation">>},
                                 !.found = @ \cup {dirs[d].manifest}])
  /\ UNCHANGED <<dirs, registry, result, condemned>>

\* Only a manifest is looked at; one whose executable exists is collected.
ScanGeneration(a, d) ==
  /\ At(a, "scan")
  /\ dirs[d].name = "generation"
  /\ dirs[d].manifest # NoRecord => Exe \in dirs[d].files
  /\ Continue(a, [task[a] EXCEPT !.due = @ \ {<<d, "generation">>},
                    !.found = @ \cup ({dirs[d].manifest} \ {NoRecord})])
  /\ UNCHANGED <<dirs, registry, result, condemned>>

\* validate_recovered_record cannot canonicalize a missing executable, and its
\* error ends the whole recovery.
ScanBlocked(a, d) ==
  /\ At(a, "scan")
  /\ dirs[d].name = "generation"
  /\ dirs[d].manifest # NoRecord
  /\ Exe \notin dirs[d].files
  /\ Return(a, "blocked")
  /\ UNCHANGED <<dirs, registry, condemned>>

\* Mutant: the scan ends after its first directory.
ScanDoneEarly(a) ==
  /\ At(a, "scan")
  /\ \E loaded \in Loads(a) :
       Continue(a, [task[a] EXCEPT !.pc = "repair", !.due = {},
                      !.known = {id \in Ids : loaded[id] # NoRecord}])
  /\ UNCHANGED <<dirs, registry, result, condemned>>

ScanDone(a) ==
  /\ At(a, "scan")
  /\ \A entry \in task[a].due : dirs[entry[1]].name # entry[2]
  /\ \E loaded \in Loads(a) :
       Continue(a, [task[a] EXCEPT !.pc = "repair", !.due = {},
                      !.known = {id \in Ids : loaded[id] # NoRecord}])
  /\ UNCHANGED <<dirs, registry, result, condemned>>

NeedsRepair(a, r) == r.id \notin task[a].known /\ Verified(r)

\* Mutant: a record that needs no repair stays on the list.
RepairKeeps(a, r) ==
  /\ At(a, "repair")
  /\ r \in task[a].found
  /\ NeedsRepair(a, r)
  /\ Continue(a, [task[a] EXCEPT !.pc = "addLoad", !.rec = r,
                                 !.found = @ \ {r}])
  /\ UNCHANGED <<dirs, registry, result, condemned>>

Repair(a, r) ==
  /\ At(a, "repair")
  /\ r \in task[a].found
  /\ IF NeedsRepair(a, r)
     THEN Continue(a, [task[a] EXCEPT !.pc = "addLoad", !.rec = r,
                                      !.found = @ \ {r}])
     ELSE Continue(a, [task[a] EXCEPT !.found = @ \ {r}])
  /\ UNCHANGED <<dirs, registry, result, condemned>>

RecoverDone(a) ==
  /\ At(a, "repair")
  /\ task[a].found = {}
  /\ Return(a, "recovered")
  /\ UNCHANGED <<dirs, registry, condemned>>

-----------------------------------------------------------------------------
(* The environment and the specification                                    *)

\* An I/O error, or a file that cannot be parsed, in what an operation reads.
ReadFails(a) ==
  /\ task[a].pc \in {"lookup", "verify", "open", "scan", "repair"}
  /\ Return(a, "error")
  /\ UNCHANGED <<dirs, registry, condemned>>

\* A process is killed, or the machine stops.
Crash(p) ==
  /\ Busy(p)
  /\ task' = [a \in Actors |-> IF Proc[a] = p THEN Rest ELSE task[a]]
  /\ result' = [a \in Actors |-> IF Proc[a] = p THEN "none" ELSE result[a]]
  /\ UNCHANGED <<dirs, registry, condemned>>

\* An engine, handed over from its record and used, leaves a file in its
\* generation.  (One that does so during remove_dir_all makes DeleteFails.)
EngineUsed(d) ==
  /\ dirs[d].name = "generation"
  /\ registry[dirs[d].id] # NoRecord
  /\ \A a \in Actors : task[a].dir # d
  /\ Stray \notin dirs[d].files
  /\ dirs' = [dirs EXCEPT ![d].files = @ \cup {Stray}]
  /\ UNCHANGED <<registry, task, result, condemned>>

Begin(a) ==
  \/ \E id \in Ids, recipe \in Recipes, source \in Sources :
       \/ InstallExisting(a, id, recipe, source)
       \/ \E d \in Dirs : InstallNew(a, id, recipe, source, d)
  \/ \E id \in Ids : RemoveUnknown(a, id) \/ RemoveKnown(a, id)
  \/ RecoverStart(a)

InstallStep(a) ==
  \/ LookupRefuses(a) \/ Lookup(a) \/ VerifyExisting(a)
  \/ \E f \in Payload : Fetch(a, f)
  \/ Snapshot(a) \/ EngineWrites(a) \/ Seal(a) \/ Activate(a)
  \/ InstallFails(a)

RegistryStep(a) ==
  \/ AddLoad(a) \/ AddSave(a)
  \/ ForgetNothing(a) \/ ForgetLoad(a) \/ ForgetSave(a)
  \/ RegistryFails(a)

RemoveStep(a) ==
  \/ RemoveMissing(a) \/ RemoveOpen(a)
  \/ \E f \in Files : DeleteFile(a, f)
  \/ DeleteManifest(a) \/ DeleteDirectory(a) \/ DeleteFails(a)

RecoverStep(a) ==
  \/ \E d \in Dirs :
       ScanStaging(a, d) \/ ScanGeneration(a, d) \/ ScanBlocked(a, d)
  \/ ScanDone(a) \/ RecoverDone(a)
  \/ \E r \in task[a].found : Repair(a, r)

Step(a) ==
  \/ InstallStep(a) \/ RegistryStep(a) \/ RemoveStep(a) \/ RecoverStep(a)
  \/ ReadFails(a)

Next ==
  \/ \E a \in Actors : Begin(a) \/ Step(a)
  \/ \E p \in Processes : Crash(p)
  \/ \E d \in Dirs : EngineUsed(d)

Spec == Init /\ [][Next]_vars

\* Every call of an operation returns: downloads and UCI waits have deadlines,
\* everything else is a finite computation.  Nobody has to start one, and no
\* read has to fail.
FairSpec ==
  /\ Spec
  /\ \A a \in Actors :
       WF_vars(InstallStep(a) \/ RegistryStep(a) \/ RemoveStep(a)
                 \/ RecoverStep(a))
=============================================================================
