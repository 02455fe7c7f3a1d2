# UCI Grabber: specification and proofs

UCI Grabber downloads, assembles, tests and installs UCI chess engines. This
directory holds TLA+ models of the parts of it that keep state, the instances
that TLC checks, and the theorems that TLAPS proves about them. Paths are
relative to the repository; `install.rs:391` stands for `src/install.rs`, line 391.

Contents: [the system](#the-system), [the modules](#the-modules),
[the runs](#the-runs), [the proofs](#the-proofs),
[what the code does not do](#where-the-code-and-its-documentation-disagree),
[what is left out](#what-is-not-modelled), [what could follow](#what-could-follow).

## The system

Two programs over one data directory (`UCI-Grabber-Data/` beside the
application): a GUI (`app.rs`), whose window runs in one thread and whose jobs
(install, catalog refresh, recipe import) run one at a time in another, and a
CLI (`main.rs`), one operation per process. Nothing locks the directory: any
number of both may run at once. Both call the same library.

| Component | State | Operations | Talks to | Module |
| --- | --- | --- | --- | --- |
| Install lifecycle (`install.rs`, `registry.rs`) | `installs/<recipe>/<model>/<version>/<platform>` generations, `.staging-*` directories, the manifest in each | install, remove, recover | staging, registry file | `InstallLifecycle` |
| Staging (`install.rs`, `stage`) | the artifact at hand, the snapshots, the progress shown, the cancel flag | download to rename of one package | downloader, extraction, snapshots, UCI validation | `Staging` |
| Downloader (`download.rs`) | one `.part` file being written and hashed, bytes received and reported | `download_with_progress` | staging | `Staging` |
| Extraction (`extract.rs`) | budget of entries and bytes, collision maps, pending links of a tar archive, files of the staging directory | `materialize` for raw, ZIP and tar artifacts | staging | `Extraction` |
| UCI validation (`uci.rs`) | engine process, reader thread, bounded channel, deadlines, cancel flag | `validate_engine_with_cancel` | staging; the GUI's Cancel button | `UciValidation` |
| Package snapshot, integrity (`registry.rs`) | none (reads a generation) | `package_snapshot`, `package_payload_snapshot`, `integrity` | staging, recover, GUI, CLI, Maia launcher | `Staging`, `InstalledEngines` |
| Maia launcher (`src/bin/uci-grabber-maia3-launcher.rs`) | the digest written into it at install | check the package, start Python | runs inside a generation | `Staging` |
| Registry file (`registry.rs`) | `registry.json`, `.next`, `.backup` | load, save, add, forget | every operation above, GUI, CLI | `RegistryFile` |
| Data root, portable mode (`registry.rs`) | `portable.flag`, absolute paths in records and manifests | find the root, rebase a record | registry file, recover | `InstalledEngines` |
| GUI (`app.rs`) | the job and its channel, cancel flag, progress, approvals, pending confirmation, lists and labels shown | start and poll a job, cancel, approve, verify, remove, hand over | all of the above | `GrabberApp`, `InstalledEngines` |
| CLI (`main.rs`) | none | one command per run | all of the above | the same, `InstallLifecycle` |
| FishEye handoff (`handoff.rs`) | none | find and start FishEye, reveal a folder | GUI, CLI | `InstalledEngines` |
| Catalog cache (`catalog.rs`) | `catalog.json`, `catalog.sig`, `.next` | refresh, store, load_fresh | GUI, CLI | `CatalogCache` |
| Custom recipes (`recipes.rs`) | one immutable file per recipe and version | import, save, load_all | GUI, CLI | `CustomRecipes` |
| Recipe schema (`schema.rs`) | none | validation of recipes and catalogs, path rules | everything that reads JSON | rules for artifacts: `Staging!Valid` |
| Release tooling (`catalog/`, `packaging/`, `.github/`) | none at run time | build and review scripts | none | none |

What is hard about them, and what makes them correct:

- **Install lifecycle.** An install takes minutes between looking at the
  generation path and renaming its staging directory onto it; meanwhile the
  window may remove, another process may install or recover, and any of them may
  die. Correct: a package is visible under its final path only complete, with
  its manifest, and stays so until its removal is asked for; the registry only
  holds records of such packages; Ready, Removed and Recovered mean what they
  say; every operation returns.
- **Registry file.** A save is eight file-system calls over three names that all
  savers share. Correct: whatever is interrupted, a load finds what the last
  completed save wrote, and leftovers never block a later save.
- **Staging.** Minutes of downloads, extraction and tests, with a Cancel button
  throughout; the engine under test may write into its own package. Correct: what
  becomes active is what was reviewed, whatever the engine and what it leaves
  running change up to the last comparison; a cancelled install never becomes
  active; progress is never claimed before it is made; a personalized launcher
  later refuses exactly what was changed since.
- **UCI validation.** An arbitrary program, its descendants, a reader thread and
  a user act at the same time, under deadlines. Correct: the call always
  returns, promptly if cancelled; the engine is always waited for; a cancelled
  or killed engine never passes; the reader thread ends.
- **Extraction.** Entries come in any order, on file systems that may or may not
  fold case, by other tables than the program's; links wait for their targets.
  Correct: the budget accounts for all that is on disk; a collision that
  `to_lowercase` shows is found before anything is written; links become copies of
  what their chains end at; extraction ends.
- **Installed engines.** Records are loaded once and shown for hours; meanwhile a
  CLI removes and reinstalls, and users copy, move and rename whole folders.
  Correct: nothing is called verified but the record that was; what is handed to
  FishEye is what its record says (it need not be: between the check and the
  handoff there may be a file dialog); a portable folder keeps its engines; no
  operation reaches into another folder.
- **Catalog cache.** Two files replaced one after the other. Correct: what is
  loaded verifies; a failed refresh keeps what was there; a leftover `.next`
  never blocks.
- **GUI.** Messages of a job arrive in later frames than the state they concern.
  Correct: an unreviewed recipe is only installed with the approval of what is
  shown; a job's cancel flag and progress end with the job.

`PROJECT.json` lists the components, every hazard with its line, and for each
definition of the modules the lines it models.

## The modules

| Module | What it is |
| --- | --- |
| `InstallLifecycle` | install, remove and recover as steps of threads of processes over one data directory |
| `InstallProperties` | what those operations are for |
| `InstallInvariant` | the inductive invariants `IInv` and, for one thread, `SoloInv` |
| `InstallDiskProofs`, `InstallProofs` | its proofs |
| `RegistryFile` | load, save, add and forget, one file-system call per step |
| `AtomicRegistry` | the registry that `RegistryFile` implements: add and forget in one step |
| `RegistryFileProofs` | the proofs of both, the refinement included |
| `Extraction` | the steps of `materialize`, one per archive entry or link |
| `Staging` | `stage` from the first download to the rename, over `Extraction`; the launcher and the recoveries that pass over the package later |
| `ExtractionProofs`, `StagingProofs` | lemmas about the former, and the theorems about both |
| `UciValidation` | the caller, the reader thread, the engine and the user |
| `UciValidationProofs` | its proofs |
| `CatalogCache` | refresh, store and load of the signed catalog, one file-system call per step |
| `CustomRecipes` | imports into the store of immutable recipes |
| `GrabberApp` | the GUI, its background job and CLI commands, over the two modules above |
| `GrabberAppProofs` | the proofs of the three |
| `InstalledEngines` | the Installed tab, the commands beside it, handoffs, and data roots that are copied and moved |
| `InstalledEnginesProofs` | its proofs |
| `MC...` | constants and symmetry for TLC |

An operation that one module shows in detail is one step in the next: a save of
`RegistryFile` is one step in `InstallLifecycle`, whose operations are one step in
`InstalledEngines`; `stage` is in detail in `Staging` and in few steps, but with
other threads and crashes, in `InstallLifecycle`.

### InstallLifecycle

`dirs[d]` is what the file system holds under identity `d`: its name (`none`,
`staging`, `generation`), the install id that names its path, the recipe bytes it
was made from, its files and its manifest. A directory has an identity because
`remove_dir_all` deletes through a handle: it goes on inside a directory that was
renamed meanwhile. `registry[id]` is the record in `registry.json`. `task[a]` has
the program counter and the local variables of thread `a` (the loaded registry
between a load and a save, the record being built, what a scan has still to
visit). `condemned` is a history variable: generations somebody asked to remove.

Package contents are abstracted to a set of files: the payload, the executable in
it, `.downloads`, and one stray file that a running engine may write. A record's
`files` stands for `package_sha256` with its counts, so "verifies" is set
equality, and `recipe` for `recipe_sha256`.

Actions follow the code: `InstallNew`/`InstallExisting` look at the generation
path; `Lookup`, `LookupRefuses`, `VerifyExisting` answer an install that finds a
generation; `Fetch` downloads and materializes one artifact, `Snapshot` takes the
digest, `EngineWrites` is what the engine does to the staged package while it is
tested, `Seal` compares the snapshots and writes the manifest, `Activate` is the
rename, `AddLoad` and `AddSave` the registration. A removal is `RemoveOpen`, then
files, manifest and directory one by one in any order, then `ForgetLoad` and
`ForgetSave`. A recovery scans (`ScanStaging`, `ScanGeneration`, `ScanBlocked`),
deletes staging directories and repairs records. `ReadFails`, `InstallFails`,
`RegistryFails` and `DeleteFails` are the errors; `Crash(p)` ends a process
between any two steps.

A save is one step here, atomic even when it is interrupted. `RegistryFile`
shows that this is right except after two saves have ended in the gap
between the two renames of `save`; then records are lost (the generations are
not, and `recover` adds them again from their manifests), and except for saves
that overlap, which `Loads` and `Saves` allow for.

An install id is one path. `Dirs` bounds how many directories exist at once.

### RegistryFile and AtomicRegistry

`names` maps `registry.json`, `.next` and `.backup` to inodes, `content` says what
each inode holds and whether it is written to its end, because a save writes
through its handle whatever name the file has by then. `crew` is who runs in a
behaviour. For a lone thread (`Alone`) every call may fail and the process may die
at any of them (`Interrupted`); several threads run at full speed and fail only
where another one was first. `gaps` counts the saves of a lone thread that ended
while `registry.json` did not exist, between its two renames or with a call that
failed after an earlier one had; a load that finds only the backup is no gap and has
to return it. The refinement maps
the records of `AtomicRegistry` to what the last rename to `registry.json` put
there. Power loss that reorders writes is not modelled; `save` syncs the file
before it renames it and the directory after.

### UciValidation

Caller, reader thread, engine, an heir that keeps the engine's output open, the
pipe and the channel. The engine writes any line at any time, forks, hangs or
exits. Each wait of the caller alternates between `Check` (cancel flag, then
deadline) and `Receive` or `Poll`, as `receive_before` does every 100 ms. The
clock is the action `Expire`, which lets the deadline of the current wait pass.

### Extraction and Staging

`Extraction` has one step per artifact, archive entry or link. `budget` and the
archive's `nodes` are the two collision maps; a path is a sequence of names. `Fold`
is `to_lowercase`, by which the checks compare names (`Key`) where the probe has found
that the file system folds (`budget.folds`). The file system itself compares them by
`Spells` (`Slot`), any function of a name: APFS and NTFS have tables of their own, and
names need not be ASCII (schema.rs:437). `Misjudged` says that it takes for one two names
that the checks keep apart. `create_dir_all` then takes a directory that is there by
another spelling (`Located`), and `create_new` refuses the file. What a link
says is a sequence of names, `.` and `..`; `Resolved` follows it as
`safe_tar_link_target` does. File modes and the syntax of names (`schema.rs:425`)
are left out. Two artifacts with destinations that fold to one are refused before
the first download, on every file system, although docs/SECURITY.md:25 keeps
"case-distinct paths" distinct where the file system does; the model has this as
a guard of `NextArtifact`.

`Staging` adds the loop of `stage` around it: `step` is the place in it, `index`
the artifact, `body` what has come of its download and how much of that was
reported. `Request`, `Chunk` and `EndOfBody` are `download_impl`, with the part file
in `.downloads`; `Verify` reads it again; `Clean` removes it; `Done` removes
`.downloads`, which neither recipe rules nor budget reserve. Then come
`CheckPaths`, `Personalize` for a Maia3 package, `TakeSnapshot`, `Validate`, `Compare`
(the second snapshot), `Record`, `Recheck` (the third) and, after the last look at the
cancel flag in `Check`, `Commit`. `EngineWrites` is the engine, or a process that it
has started and that outlives its validation: it may write, make a directory of or
remove any path of `Scribbles`, from its validation to the rename, any number of times
between the comparisons. Nothing looks at what it changes after the third snapshot, nor
at a manifest that it changes once it is there: such a package becomes active as it is, and
`touched` notes it. `RequestCancel` is the user at any step, `Breaks` any call that
fails. `install_with_progress` deletes the staging directory of a refused package and
ignores what `remove_dir_all` says, so that after `Fail` it is gone or still there; the
next recovery removes it. `executable_sha256` is computed between the second and the
third snapshot: that a file is changed for just that time and then changed back is left
out.

What lies below a directory is what the file system finds there under that
spelling (`FilesBelow`), so that a launcher that was reviewed as `A/b` and started
from `a/b` is compared as `canonicalize` spells it. `LauncherAccepts` is what the
launcher checks before it becomes Python. After `Commit` the user may change
something once (`Tamper`, unless the engine has), and recoveries of later starts remove directories below
`installs` whose names begin with `.staging-` (`Recover`), those inside packages
too.

### CatalogCache, CustomRecipes and GrabberApp

`CatalogCache` keeps what each of `catalog.json`, `catalog.sig` and the shared
`catalog.next` holds, and for each process the call it is in. A process that
writes has its file open: `file` follows that file when another process renames
or unlinks it. A store is `Clear`, `Create`, `Write`, `UnlinkOld` and `Rename`,
first for the catalog and then for the signature; looking whether a file exists
and removing it is one step, because that they are two only adds errors, which
`CallFails` has. The cache starts empty or with the pair of the release that was
installed before, whose key is not this release's.

`CustomRecipes` is the store by key (id and version) and the imports in progress.
Temporary files have names of their own and no `.json`, so that neither imports
nor `load_all` see each other's: they are left out.

`GrabberApp` composes both with the window. `phase` is the process, `job` the
receiver in `self.job`, `messages` the channel, `worker` the thread with the
cancel flag it shares with the button, `widgets` the other fields that a job sets
and `poll_job` clears, `approved`, `shown` and `catalog` what the tabs show. Every
`start_*` is an action that needs `job = "none"`; `PollProgress` and `Poll` are
`poll_job` without and with a result; `Report` and the `...Ends` actions are the
thread. `Quit` ends the process anywhere, `Launch` and `Loaded` start it again.
Processes other than `Gui` run commands, also for a second window. A worker that
panics is a `Quit`: release builds abort (Cargo.toml, `panic = "abort"`). What an install does is
in `InstallLifecycle`: here it reports progress and ends.

### InstalledEngines

`packages[r][id]` and `registry[r][id]` are the generation and the record of an id
below data root `r`, each with the root that its absolute paths begin with
(`home`); `window` is the Installed tab with what it loaded and its labels, `job` the
install of its worker. `Rebased` is `rebase_portable_record`, which every load of a root
in `portable` applies. `install`, `remove` and `recover` are one step each when they end
well; what they leave when they do not are steps beside them: `InstallUnrecorded` (the
sync or the add after the rename failed, or the process died), `RemoveUnforgotten`, a
recovery that came only as far as some of its repairs, and `Overlapped`, saves that
took each other's records back. `unrecorded` notes the ids of which package and record
were left apart in this way.

A handoff is two steps. `OpenListed`, `CommandOpens`, `OpenRecent` and `PollInstalled` put
a record into `opening`, the first two after its integrity check; then FishEye is looked
for, perhaps in a file dialog in which the window waits (`Blocked`) while its worker,
commands and other programs do not; `HandOver` is `open_in_fisheye`, which looks once
more only whether there is an executable. `checked` notes which record "Verify
integrity" was last pressed for. `Copied`, `RegistryLost` and `Damaged` are users and other
programs; they, and operations that are cut short, are at most `MaxMishaps`.

## The runs

| Run | Instance | What it shows |
| --- | --- | --- |
| `install_solo` | one thread that installs two recipe contents under one id, removes, recovers; two directories; failures and crashes anywhere; 81,643 states | `ReadyMeansUsable`, `RemovedMeansGone`, `RecoveredMeansRepaired`: an answer is true of disk and registry; `EveryCallReturns` |
| `install_two` | a GUI's worker (install) and window (remove) beside a CLI (install), one id, three directories; 628,762 states | `WholeUnlessCondemned`, `RecordsAreWhole`, `OnlyRemovalTakesAway`: packages and records stay whole, only a removal takes a package away |
| `registry_file` | either one thread with two ids, every call of which may fail or be the last, or three threads at full speed with one id; 613,395 states | `LeftoversAreHarmless`, `LoadsAreCurrent`, `AtomicUnlessTwiceInterrupted`: loads return what the last completed save wrote; add and forget are atomic, until two saves end in the gap; no half-written file is left over |
| `uci_validation` | channel and pipe of one line, four lines of output; 249,919 states | `EngineIsReaped`, `OkIsEarned`, `ValidationReturns`, `CancelReturns`, `ReaderEnds` |
| `staging` | packages of one or two artifacts; names `a`, `A`, `b` and `.downloads`, paths of up to four of them; limits of 2 bytes per file, 4 bytes and 4 entries per package; with and without case folding; 186,921 states | `Accounted`, `NeverTooLate`: budget and disk agree, and nothing is found out too late; `LinksAreTheirTargets`, `OnlyBadLinksAreRefused`; `ProgressIsHonest`; `ActiveAsReviewed`, `LauncherTells`; `StagingEnds`, `CancelEndsIt` |
| `grabber_app` | the GUI and one CLI process; two recipe keys, one with two contents; two progress reports; behaviours with catalog work and behaviours with imports; 639,156 states | `LoadedIsReleased`, `RefreshHeals`: whatever two processes leave in the cache, what is loaded was signed for this release and the next refresh repairs it; `ApprovedAsShown`, `ImportedMeansStored`; `CancelledByItsUser`, `WidgetsFollowTheJob`, `JobEnds` |
| `installed_engines` | one id, two builds, two roots, each portable or not, two mishaps; handoffs from the list, the panel and a command, until the first mishap; 591,666 states | `VerifiedIsOfTheRecord`: a label is of the record beside it; `EnginesAreKept`, `StepsStayInTheirRoot` |
| `repair_beside`, `remove_beside`, `blocked_recovery`, `stale_record`, `registry_overlap` | the smallest instance each | a counterexample to a line of the documentation (below) |

Each module's type invariant is checked in one of its runs.

Why the bounds are enough. What goes wrong in the install lifecycle takes two
directories that compete for one id (an old generation or a rival's staging
directory beside one's own), a third for a third thread, and two recipe contents
for a record that describes other bytes; ids are independent except in
`registry.json`, which `remove_beside` and `registry_file` exercise with two. A
payload of two files is what "half" needs. Three registry threads are needed to
move a half-written file to `.backup` and read it there; `Inodes` has one for each
name and one to write. A channel and a pipe of one line fill at once, so that
both writers block; four lines reach the output limit after every answer has been
seen once.

Staging needs chains of two links and a file, a link beside a cycle, a second
artifact that runs into what the first one used, two names that are one or two, and a
package that reaches each limit exactly and by one too much. Its names serve more
than once (`b` is the manifest at the top, a staging directory's name below it and
the directory that a launcher has to be in), so that four of them meet every
rule; two files of the limit fill a package, as do four entries; the declared
lists include such that `Recipe::validate` refuses. `ReportEvery` is reached and
missed.

Two processes are what it takes to rename a file that another one writes, or to
store a recipe between another's look and rename; the second recipe key is needed
to reload the list without losing the approval of the first. `Sessions` keeps
catalog work and imports in separate behaviours: they share no file, and the GUI
does one of them at a time. A label of an earlier record takes one id with two builds; a record
that leads elsewhere takes two roots; a folder that is copied and then loses its
registry, or is moved there and back, takes two mishaps, as does an install that ends
unregistered with records that overlapping saves dropped. `HandoffBound` (a constraint of the instance)
follows handoffs only as long as there was no mishap: only the type invariant looks
at one. `Fold` and `Spells` agree where the file system folds; what the proofs say of file
systems that the checks misjudge is not run. What the proofs cover
(below) does not depend on these bounds.

Fairness. Each thread of the install lifecycle is weakly fair in its operations'
own steps: downloads and UCI waits have deadlines, the rest is finite work;
nobody has to start an operation, and nothing has to fail. In `UciValidation`
the caller and the reader are weakly fair, being threads that the operating
system runs; the engine, its heir and the user are not, and the clock is a
premise of the only property that needs it. In `GrabberApp` the worker and the
window are weakly fair: the window is redrawn every 100 ms while there is a job
(app.rs:681), downloads have deadlines; the user and the commands are not fair. In `Staging` the install
is one fair thread: a silent server is given up after 15 minutes and an engine
after its deadlines, so that some action of `Stage` always comes; the user need not
do anything. The other runs check safety only.

Every property has a mutant: a definition changed the way a bug would change the
code (`AddedAtEnd`, `ReloadKeepsLabels`, `CheckNothing`, `KeepNext`, `PersistClobbers`,
`ChunkAlone`, ...),
under which TLC finds the property violated.

## The proofs

TLAPS proves the following for every value of the constants: any number of
threads, processes, ids, recipes, files, roots, any names and any limits.

| Theorem | Module | Statement |
| --- | --- | --- |
| `TypeCorrect`, `TypesAreKept` | `InstallDiskProofs` | `Spec => []TypeInv`, `Spec => []TypeOK` |
| `GenerationsAreWhole` | `InstallDiskProofs` | `Isolated /\ Spec => []WholeUnlessCondemned` |
| `Invariance`, `RegistryIsWhole`, `GenerationsAreImmutable` | `InstallProofs` | under `Isolated`: `[]IInv`, `[]RecordsAreWhole`, `OnlyRemovalTakesAway` |
| `SoloInvariance`, `ReadyIsUsable`, `RemovedIsGone`, `RecoveredIsRepaired` | `InstallProofs` | for a thread that works alone (`Single`): `[](IInv /\ SoloInv)`, `ReadyMeansUsable`, `RemovedMeansGone`, `RecoveredMeansRepaired` |
| `RegistryTyped`, `NothingHalfWritten`, `NothingForgotten` | `RegistryFileProofs` | `[]TypeInv`, `[]LeftoversAreHarmless`, `[]LoadsAreCurrent` |
| `SavesAreAtomic` | `RegistryFileProofs` | `Spec => AtomicUnlessTwiceInterrupted`: `RegistryFile` implements `AtomicRegistry` |
| `ValidationTyped`, `Reaped`, `Earned` | `UciValidationProofs` | `[]TypeOK`, `[]EngineIsReaped`, `OkIsEarned` |
| `StagingInvariance`, `StagingTypes` | `StagingProofs` | `[]Inv`, `[]TypeOK` |
| `StagedIsAccounted`, `CollisionsAreFoundInTime` | `StagingProofs` | `[]Accounted`, `[]NeverTooLate` |
| `LinksBecomeFiles`, `GoodLinksAreKept` | `StagingProofs` | `[]LinksAreTheirTargets`, `OnlyBadLinksAreRefused` |
| `ProgressNeverLies`, `StagedAsReviewed` | `StagingProofs` | `ProgressIsHonest`, `[]ActiveAsReviewed` |
| `LauncherTellsChanges` | `StagingProofs` | `[]LauncherTells` |
| `AppInvariance`, `AppTyped` | `GrabberAppProofs` | `[]Inv`, `[]TypeOK` |
| `Imported`, `Healed`, `Released` | `GrabberAppProofs` | `[]ImportedMeansStored`, `[]RefreshHeals`, `[]LoadedIsReleased` |
| `Clicked`, `Follows`, `Approved` | `GrabberAppProofs` | `[]CancelledByItsUser`, `[]WidgetsFollowTheJob`, `ApprovedAsShown` |
| `EnginesTyped`, `Checked`, `Kept`, `Rooted` | `InstalledEnginesProofs` | `[]TypeOK`, `[]VerifiedIsOfTheRecord`, `[]EnginesAreKept`, `StepsStayInTheirRoot` |

**Installs.** `Isolated` says that recoveries run in the process of every
installer there is. The code then keeps them apart by itself: the GUI recovers
before its window opens, and `status --repair` is all its process does.
`TypeCorrect` does not need it; without it generations are not whole, as run
`repair_beside` shows. `WholeUnlessCondemned` is not inductive: a step that renames
a staging directory makes a whole generation only if that directory holds
everything. `IInv` adds what the threads know. `TypeInv` ties each program counter
to the local variables it needs, and says that a recovery is alone in its process.
`DiskInv` says that the staging directory of a running install is its own, holds
what was fetched so far, and after the snapshot exactly the payload and its own
manifest (`Staged`), and that a deletion works in a directory that its caller may
delete (`Deletes`): one that is gone, condemned, or a staging directory that no
install uses, which is where `Isolated` enters. `RecordsInv` says that every record
in circulation (loaded, found by a scan, about to be added) is one of a completely
staged package. The proof of `TypeInv` has a step per action. That of `DiskInv`
rests on three lemmas, about steps that leave all directories alone (`QuietStep`),
those of an install (`StagingStep`) and those of a deletion (`DeletingStep`).
`RecordsInv` follows the same outline, with `Carries`. `GenerationsAreImmutable`
follows from `IInv` step by step.

What install, remove and recover promise when they return is false while others work
beside them: `remove_beside` and `repair_beside` are two ways. It is proved under
`Single`, for one thread that runs any sequence of operations over any number of ids
and directories, fails at any call and dies between any two; processes that run one
after the other are such a thread. `SoloInv` says that there is one generation per
path, with no manifest but its own (`PathsInv`), and what the thread knows at each
program counter: a record or registry that it read is still the stored one, the
package of the record it adds is at its path, nothing is left of the one it forgets
(`InstallKnows`, `RemoveKnows`). Of a recovery, `ScanKnows` says that the scan still
has to visit what it has neither deleted nor collected, and `RepairKnows` that the
repair still has to look at every manifest whose record may be missing.
`AnswersItself` then says which steps give which answer.

**Registry file.** Two arguments, one for each half of the model. `WritersInv` is
about saves that overlap: every thread writes a file of its own, and a name stands
for a file that is whole or has its writer, since a rename moves the file with its
writer. `LoneInv` is about one thread: between calls the saved records are in
`registry.json`, or in the backup while `registry.json` is missing and one save has ended
in the gap (loads do not count, so that they must leave the backup as it is), and in each step of a save one of the two holds them still. The refinement
follows: only `Replace` changes `saved`, and it changes it to what an add or a forget
of the loaded records is.

**UCI validation.** `ProcessInv` relates the caller's program counter to what is
known of the process (nothing is waited for that has not exited, nothing is left
after the reap); `EarlyInv` says that a cancellation before `quit` was sent is seen
before the wait for the exit. The bounds of pipe, channel and lines are an
invariant of their own (`Queues`).

**Extraction and staging.** `Inv` of `StagingProofs` has six parts, each with a
lemma that says that no step breaks it.

- `StepInv`: which phase of `materialize` goes with which step of `stage`.
- `DiskInv` is the part that everything rests on. `DiskOK` says that no two things
  on disk have one path by any spelling, and that nothing is below a file.
  `Balanced` says that what is on disk, downloads aside, is what the budget has
  reserved, slot by slot and byte by byte; it is inductive only because what
  `reserve_path` lets through is what `create_dir_all` and `create_new` then make
  (`Creates`), or is there already by another spelling of a directory (`LaidIsAdded`),
  and that in turn needs it to hold before. Nothing is assumed about how `Spells`
  and `Fold` are related. `ArchiveOK` says that an archive has one file, link or
  directory per path and that only links are pending; `WalkOK` that
  `resolve_tar_link` is where the head of the pending links leads, and that it found
  nothing where it was before. `PartOK` is about the download, `FitsInv` about what
  the snapshot will find.
- `ReviewedInv`: nothing is known of the disk while the engine may write, except
  that the manifest is there from `Record` on; the third comparison then gives the
  equality of snapshot and disk, which holds from there to the rename unless somebody
  writes after it (`touched`). What `Recover` removes
  later are directories, so that a reviewed file can only go with one above it,
  which is the exception that `ActiveAsReviewed` states.
- `ProgressInv`: what was shown is at most what the artifacts before this one have,
  with what has come of this one.
- `TypeInv`: the rest of `TypeOK`.
- `LauncherInv`: what is known of a Maia3 launcher at each step. Before an engine has
  run, the launcher is marked (its bytes are no longer those of the archive) and the
  review holds files that are not (`Marked`, `Unmarked`). A launcher that accepts
  during the validation has therefore left itself out of what it compares, so that
  its review is what is installed beside it (`Validating`, `Reviewed`). It rests on
  `Rooted`: every path on disk has its parents there as it spells them, which
  the budget keeps and nothing later breaks.

`NeverTooLate` follows from `DiskInv`: an error of the file system is one that the
budget did not see, which only happens below `.downloads` or with names that are
`Misjudged`, and a snapshot counts what the budget counted. `OnlyBadLinksAreRefused` follows from `WalkOK`: a walk that
is back where it was has been along every link of a cycle, and a set of paths that
is closed under links and has no file shows that no chain from it ends at one.
`LauncherTells` follows from `Reviewed` and `InPlace`: whatever file is at the
launcher's path later, by any spelling, still has the name of its directory as it was
installed. Only one change is made after the install; several could make that
directory anew under another spelling, which the launcher then refuses.

Two definitions are recursive functions (`Bytes`, `Resolved`), one a fold (`Size`),
and one a least fixed point (`LinksTo`, what every set contains that is closed
under links). What is needed of them for every input is proved with least elements
in place of induction: were the claim false for some number or some finite set, there
would be a least one for which it is (`LeastNumber`, `LeastSubset`), and what it adds
to its predecessor contradicts that. So `SizeWith` (one node more adds its size),
`SizeOfImage`, `SizeOfPart` and `BytesAre` hold for sets and lists of any size.

**The application.** `StoreInv` (an import that is over has its manifest stored,
and what is stored under a key is a manifest of that key) gives `Immutable`: no
content under a key changes. With it `ScreenInv` (what is shown is stored, what is
approved was on the screen) yields `Approved`. `CacheInv` says that nothing unsigned
has any of the three names, and what a store that nobody overlaps (`lone`) has
already put in place; `AnswersStay` that a process without a call keeps its answer.
`JobInv` relates thread, channel and widgets: all messages before the last are
progress, a thread that runs has sent nothing else, and its flag is set only after
a click. `CatalogInv` ties the answer of a refresh to the catalog that the window
takes over.

**Installed engines.** `BuildsAgree` says that package and record of an id are of
one build wherever the folder came from, unless they were left apart (`unrecorded`);
`WindowRecorded` that below the root of a portable GUI every other untouched package is
recorded: the recovery at the start makes it true, and no step beside the GUI that ends
well takes a record without its package. `ScreenInv` keeps the labels with the records
they belong to: whatever changes the list also resets them.

The assumptions on constants are named in the modules that declare them
(`ProcessesAssumption`, `InputsAssumption`, `FilesAssumption`, `AbsentAssumption`,
`RegistryAssumption`, `LimitsAssumption`, `ExtractionAssumption`,
`StagingAssumption`, `CacheAssumption`, `ManifestsAssumption`, `AppAssumption`,
`EnginesAssumption`), and TLC evaluates them in the runs of those modules. Most say
what kind of value a constant is; the others are that a manifest is one name at the
top of a package, that there is a part file of one name for each artifact, that the
files a launcher looks for are below its root, and that the values for "nothing" are
none of the others.

Only model-checked, then, is liveness (TLAPS has no rule for `ENABLED`, which weak
fairness rests on): `EveryCallReturns`, `ValidationReturns`, `CancelReturns`,
`ReaderEnds`, `StagingEnds`, `CancelEndsIt`, `JobEnds`.

## Where the code and its documentation disagree

Each is a run that TLC finds violated; `PROJECT.json` quotes the lines.

- `repair_beside`: `recover` deletes the staging directory of an install that runs
  in another process, and goes on inside it after the rename, so that an
  activated generation lacks files (install.rs:391).
- `remove_beside`: a removal in the window between the load and the save of the
  worker's add of another package is undone: the record comes back without a
  generation (registry.rs:305). A second removal drops it.
- `blocked_recovery`: a removal interrupted after the executable and before the
  manifest makes every later recovery fail, and with it the start of the GUI
  (install.rs:706).
- `stale_record`: `recover` takes a record that an interrupted removal left for the
  record of the generation installed since (install.rs:410).
- `registry_overlap`: two saves that overlap may leave neither `registry.json` nor
  its backup, without any fault (registry.rs:289).

Smaller observations that are right in the model and have no run:

- The list checks a package, then looks for FishEye, perhaps in a file dialog that stays
  open for minutes, and hands over what a command has replaced or changed meanwhile, if
  only there is an executable (app.rs:282, 301, 310). The command `open` has the same two
  steps (main.rs:275, 283) without a dialog between them. No property says that what is
  handed over was checked.
- On a file system with another table than `to_lowercase`, two paths of a package may be
  one without being refused as a collision (extract.rs:620, docs/SECURITY.md:24):
  `NeverTooLate` excepts `Misjudged`; `Accounted` and `LauncherTells` hold even so.
- An interrupted removal that only deleted the manifest leaves a package that
  install answers as Ready: integrity does not look at the manifest.
- An artifact with a destination in `.downloads` passes validation and is refused
  after its download (`NeverTooLate` states it as its one exception).
- A package may hold a directory whose name begins with `.staging-`; the next
  recovery deletes it (`ActiveAsReviewed` states it as its one exception).
- What a descendant of the engine writes between the third snapshot and the rename
  (install.rs:353-360) becomes active without having been reviewed; the integrity check
  of the installed package then finds it changed. `ActiveAsReviewed` ends where
  `touched` begins.
- An add that fails after the rename (install.rs:366), and records that overlapping
  saves drop, leave a package that `install` refuses until the next recovery registers it
  (`EnginesAreKept` excepts them by `unrecorded`).
- The staging directory of a refused package stays if it cannot be removed
  (install.rs:202).
- A refresh that answers Ok may leave a pair that does not verify if another
  overlapped it (which then ends with an error), and so may an interrupted one or
  an update; the GUI then shows the bundled catalog, while `list` and `install` of
  the CLI end with an error for up to a day, unless `list --refresh` runs
  (`preferred_catalog`, catalog.rs:104). `RefreshHeals` states that it repairs the
  pair.

## What is not modelled

- File contents, digests, signatures, TLS and HTTP but the length of a body: an
  artifact arrives as declared or not (`EndOfBody`), and "same digest" is "same
  files with the same sizes and origins".
- Symbolic links and special files in snapshots: nothing that is extracted is one,
  and a package that has one later verifies as changed.
- `schema.rs` but for the rules that bound a package (`Valid`): the others are
  predicates on one string (ids, versions, URLs, paths, dates) without state.
- How `portable_data_root` finds `portable.flag` above the executable and
  `ensure_writable` probes a folder: a root is portable or not from the start.
- How `handoff.rs` looks for FishEye and shows a folder; the environment,
  arguments and (on Windows) job object that the Maia launcher gives Python: calls
  to the system that keep no state of the program.
- Of `main.rs`, the choice among imported versions and what is printed; `error.rs`
  and `lib.rs` keep no state.
- That a catalog expires; the bytes of keys and signatures.
- Power loss that reorders writes of the file system.
- Drawing and texts of the GUI.
- The release tooling, which is not part of the running program.

Three hazards in `PROJECT.json` have no property: the panel of the last install hands
its engine to FishEye without the comparison that the list makes (`app.rs:609`;
`OpenRecent` and `PollInstalled` have it, but the code promises nothing of it), the list
hands over some time after its comparison (`app.rs:310`; see above), and a manifest of a recipe that is half
written (`recipes.rs:86`), because the temporary files of imports are left out.

## What could follow

The rules of `schema.rs` for paths and dates as operators checked against reference
definitions over bounded inputs.
