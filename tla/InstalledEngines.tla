-------------------------- MODULE InstalledEngines --------------------------
(***************************************************************************)
(* What becomes of installed engines after their install: the Installed    *)
(* tab of the GUI (app.rs), the commands install, status --repair, open    *)
(* and remove (main.rs), the handoff to FishEye (handoff.rs), and data     *)
(* roots that are copied and moved with their packages and whose records   *)
(* a portable application rebases when it loads them (registry.rs).        *)
(*                                                                         *)
(* An operation of the installer or of the registry is one step here,      *)
(* completed or cut short: what it leaves when a call of it fails or its   *)
(* process dies, and what operations leave that overlap at one root, are   *)
(* steps of their own.  Its calls one by one are InstallLifecycle's and    *)
(* RegistryFile's.                                                         *)
(***************************************************************************)
EXTENDS Naturals

CONSTANTS
  Ids,         \* install ids
  Builds,      \* packages that recipes yield for an id
  Roots,       \* folders that may hold the data of the application
  Nothing,
  Openers,     \* bound: where handoffs to FishEye come from
  MaxMishaps   \* bound: what users and other programs do to the folders, and
               \* operations that are cut short or overlap

VARIABLES
  portable,    \* the roots beside an application with portable.flag
  packages,    \* packages[r][id]: the generation of id below root r
  registry,    \* registry[r][id]: the record of id in r's registry.json
  window,      \* the Installed tab of the GUI
  job,         \* the install that runs, or its result in the channel
  opening,     \* the record that is on its way to FishEye, after its check
  checked,     \* history: the record that "Verify integrity" last looked at
  unrecorded,  \* history: ids whose package and record were left apart, by root
  mishaps

files == <<packages, registry>>

vars == <<portable, files, window, job, opening, checked, unrecorded, mishaps>>

\* build: the recipe and the digests.  home: the root that generation_root,
\* executable and working_directory begin with.
Record == [build: Builds, home: Roots]

\* A package, and the home in its manifest.  Other programs may change a file
\* of it or take its executable away.
Package ==
  [build: Builds, home: Roots, state: {"whole", "changed", "headless"}]

Labels == {"Not checked", "Missing", "Verified", "Changed"}

Window ==
  [root: Roots,
   installs: [Ids -> Record \cup {Nothing}],
   integrity: [Ids -> Labels \cup {Nothing}],
   confirm: Ids \cup {Nothing},
   recent: Ids \cup {Nothing}]

Job ==
  [state: {"running"}, id: Ids, build: Builds, fisheye: BOOLEAN]
  \cup [state: {"installed"}, id: Ids, record: Record, fisheye: BOOLEAN]
  \cup [state: {"failed"}]

Opening == [by: Openers, id: Ids, record: Record]

ASSUME EnginesAssumption ==
  /\ Nothing \notin Ids \cup Roots \cup Labels
  /\ Nothing \notin Record /\ Nothing \notin Package
  /\ Nothing \notin Window /\ Nothing \notin Job /\ Nothing \notin Opening
  /\ Openers \subseteq {"list", "recent", "command"}
  /\ MaxMishaps \in Nat

\* Variables have their types, and every record on the screen has its label.
TypeOK ==
  /\ portable \subseteq Roots
  /\ packages \in [Roots -> [Ids -> Package \cup {Nothing}]]
  /\ registry \in [Roots -> [Ids -> Record \cup {Nothing}]]
  /\ window \in Window \cup {Nothing}
  /\ window # Nothing =>
       \A id \in Ids :
         window.installs[id] = Nothing <=> window.integrity[id] = Nothing
  /\ job \in Job \cup {Nothing}
  /\ job # Nothing => window # Nothing
  /\ opening \in Opening \cup {Nothing}
  /\ checked \in [Ids -> Record \cup {Nothing}]
  /\ unrecorded \in [Roots -> SUBSET Ids]
  /\ mishaps \in 0..MaxMishaps

NoneOf == [id \in Ids |-> Nothing]

Init ==
  /\ portable \in SUBSET Roots
  /\ packages = [r \in Roots |-> NoneOf]
  /\ registry = [r \in Roots |-> NoneOf]
  /\ window = Nothing
  /\ job = Nothing
  /\ opening = Nothing
  /\ checked = NoneOf
  /\ unrecorded = [r \in Roots |-> {}]
  /\ mishaps = 0

-----------------------------------------------------------------------------
(* The registry: load, rebase_portable_record, integrity, add, forget       *)

Rebased(r, record) ==
  IF r \in portable THEN [record EXCEPT !.home = r] ELSE record

Load(records, r) ==
  [id \in Ids |-> IF records[r][id] = Nothing THEN Nothing
                  ELSE Rebased(r, records[r][id])]

Loaded(r) == Load(registry, r)

PackageOf(id, record) == packages[record.home][id]

HasExecutable(package) ==
  package # Nothing /\ package.state # "headless"

Integrity(id, record) ==
  LET package == PackageOf(id, record) IN
  IF ~HasExecutable(package) THEN "Missing"
  ELSE IF package.state = "whole" /\ package.build = record.build
       THEN "Verified" ELSE "Changed"

\* Every save writes all records as they were loaded.
Save(r, records) == registry' = [registry EXCEPT ![r] = records]

Add(r, id, record) == Save(r, [Loaded(r) EXCEPT ![id] = record])

Forget(r, id) == Save(r, [Loaded(r) EXCEPT ![id] = Nothing])

\* An operation has changed the package and the record of id alike.
Settled(r, ids) == unrecorded' = [unrecorded EXCEPT ![r] = @ \ ids]

OneMoreMishap ==
  /\ mishaps < MaxMishaps
  /\ mishaps' = mishaps + 1

Apart(r, ids) == unrecorded' = [unrecorded EXCEPT ![r] = @ \cup ids]

-----------------------------------------------------------------------------
(* remove                                                                   *)

RemoveMissing(r, id) ==
  /\ Loaded(r)[id] # Nothing
  /\ PackageOf(id, Loaded(r)[id]) = Nothing
  /\ Forget(r, id)
  /\ Settled(r, {id})
  /\ UNCHANGED <<packages, mishaps>>

\* Mutant: the path in the record is removed wherever it leads.
RemoveAnywhere(r, id) ==
  /\ Loaded(r)[id] # Nothing
  /\ packages' = [packages EXCEPT ![Loaded(r)[id].home][id] = Nothing]
  /\ Forget(r, id)
  /\ Settled(r, {id})
  /\ UNCHANGED mishaps

RemoveOwn(r, id) ==
  /\ Loaded(r)[id] # Nothing
  /\ PackageOf(id, Loaded(r)[id]) # Nothing
  /\ Loaded(r)[id].home = r
  /\ packages' = [packages EXCEPT ![r][id] = Nothing]
  /\ Forget(r, id)
  /\ Settled(r, {id})
  /\ UNCHANGED mishaps

\* Its package is removed, or as far as remove_dir_all came, and the record
\* stays.
RemoveUnforgotten(r, id) ==
  /\ Loaded(r)[id] # Nothing
  /\ PackageOf(id, Loaded(r)[id]) # Nothing
  /\ Loaded(r)[id].home = r
  /\ \/ packages' = [packages EXCEPT ![r][id] = Nothing]
     \/ \E state \in {"changed", "headless"} :
          packages' = [packages EXCEPT ![r][id].state = state]
  /\ OneMoreMishap
  /\ UNCHANGED <<registry, unrecorded>>

\* No such record, or one that leads outside the install generations.
RemoveNothing(r, id) ==
  /\ Loaded(r)[id] # Nothing =>
       /\ PackageOf(id, Loaded(r)[id]) # Nothing
       /\ Loaded(r)[id].home # r
  /\ UNCHANGED <<files, unrecorded, mishaps>>

Remove(r, id) ==
  \/ RemoveMissing(r, id) \/ RemoveOwn(r, id) \/ RemoveUnforgotten(r, id)
  \/ RemoveNothing(r, id)

-----------------------------------------------------------------------------
(* install, recover                                                         *)

\* Whether the generation that is there answers the install of build.
Answers(r, id, build) ==
  /\ packages[r][id] # Nothing
  /\ Loaded(r)[id] # Nothing
  /\ Loaded(r)[id].build = build
  /\ Integrity(id, Loaded(r)[id]) = "Verified"

Activate(r, id, build) ==
  /\ packages[r][id] = Nothing
  /\ packages' = [packages EXCEPT ![r][id] =
                    [build |-> build, home |-> r, state |-> "whole"]]

InstallNew(r, id, build) ==
  /\ Activate(r, id, build)
  /\ Add(r, id, [build |-> build, home |-> r])
  /\ Settled(r, {id})
  /\ UNCHANGED mishaps

\* sync_directory or add fails after the rename, or the process dies there.
InstallUnrecorded(r, id, build) ==
  /\ Activate(r, id, build)
  /\ Apart(r, {id})
  /\ OneMoreMishap
  /\ UNCHANGED registry

\* The record that the manifest of a generation yields.
Manifest(r, id) ==
  Rebased(r, [build |-> packages[r][id].build, home |-> packages[r][id].home])

\* A manifest whose paths lead elsewhere, or to no executable, is an error.
Recoverable(r) ==
  \A id \in Ids : packages[r][id] # Nothing =>
    /\ Manifest(r, id).home = r
    /\ HasExecutable(packages[r][id])

\* Mutant: the manifest is not rebased before its home is compared.
RepairsAtHome(r) ==
  {id \in Ids : /\ packages[r][id] # Nothing
                /\ packages[r][id].home = r
                /\ Loaded(r)[id] = Nothing
                /\ Integrity(id, Manifest(r, id)) = "Verified"}

Repairs(r) ==
  {id \in Ids : /\ packages[r][id] # Nothing
                /\ Loaded(r)[id] = Nothing
                /\ Integrity(id, Manifest(r, id)) = "Verified"}

\* Records are added one by one: repaired is as far as recover came.
Recover(r, repaired) ==
  /\ Recoverable(r)
  /\ IF repaired = {} THEN UNCHANGED registry
     ELSE Save(r, [id \in Ids |-> IF id \in repaired THEN Manifest(r, id)
                                  ELSE Loaded(r)[id]])
  /\ Settled(r, repaired)
  /\ UNCHANGED packages

-----------------------------------------------------------------------------
(* The GUI                                                                  *)

\* FishEye is looked for, or chosen by the user in a dialog that blocks.
StartOpening(by, id, record) ==
  /\ by \in Openers
  /\ opening = Nothing
  /\ opening' = [by |-> by, id |-> id, record |-> record]

\* open_in_fisheye looks for the executable once more, and for nothing else.
HandOver ==
  /\ opening # Nothing
  /\ HasExecutable(PackageOf(opening.id, opening.record))
  /\ opening' = Nothing
  /\ UNCHANGED <<files, window, job, portable, checked, unrecorded, mishaps>>

\* The executable is gone, the dialog is cancelled or FishEye does not start.
HandsNothingOver ==
  /\ opening # Nothing
  /\ opening' = Nothing
  /\ UNCHANGED <<files, window, job, portable, checked, unrecorded, mishaps>>

\* The GUI thread is in that dialog, or before it.
Blocked == opening # Nothing /\ opening.by # "command"

\* Mutant: only the executables that are there get a label.
LabelsOfPresent(tree, installs) ==
  [id \in Ids |->
     IF installs[id] = Nothing \/ ~HasExecutable(tree[installs[id].home][id])
     THEN Nothing ELSE "Not checked"]

\* integrity_labels: nothing is hashed yet.
FirstLabels(tree, installs) ==
  [id \in Ids |->
     IF installs[id] = Nothing THEN Nothing
     ELSE IF HasExecutable(tree[installs[id].home][id]) THEN "Not checked"
     ELSE "Missing"]

\* Mutant: a label is kept for an id that is still there.
ReloadKeepsLabels(w, installs, labels) ==
  {w, [w EXCEPT !.installs = installs,
                !.integrity = [id \in Ids |->
                   IF w.integrity[id] # Nothing /\ installs[id] # Nothing
                   THEN w.integrity[id] ELSE labels[id]]]}

\* reload_installs: w stays what it is if the registry cannot be loaded.
Reloads(w, installs, labels) ==
  {w, [w EXCEPT !.installs = installs, !.integrity = labels]}

Reload(w) ==
  LET installs == Load(registry', w.root)
      labels == FirstLabels(packages', installs) IN
  window' \in Reloads(w, installs, labels)

\* load: recover comes first, and its error ends the start.
Launch(r) ==
  /\ window = Nothing
  /\ Recover(r, Repairs(r))
  /\ LET installs == Load(registry', r) IN
     window' = [root |-> r, installs |-> installs,
                integrity |-> FirstLabels(packages', installs),
                confirm |-> Nothing, recent |-> Nothing]
  /\ checked' = NoneOf
  /\ UNCHANGED <<job, opening, portable, mishaps>>

\* The worker ends with its process, and so does a handoff.
Quit ==
  /\ window # Nothing
  /\ window' = Nothing
  /\ job' = Nothing
  /\ opening' = IF Blocked THEN Nothing ELSE opening
  /\ checked' = NoneOf
  /\ UNCHANGED <<files, portable, unrecorded, mishaps>>

StartInstall(id, build, fisheye) ==
  /\ window # Nothing
  /\ job = Nothing
  /\ fisheye => "recent" \in Openers
  /\ job' = [state |-> "running", id |-> id, build |-> build,
             fisheye |-> fisheye]
  /\ UNCHANGED <<files, window, opening, portable, checked, unrecorded, mishaps>>

Working == job # Nothing /\ job.state = "running"

Return(record) ==
  job' = [state |-> "installed", id |-> job.id, record |-> record,
          fisheye |-> job.fisheye]

WorkerInstalls ==
  /\ Working
  /\ \/ /\ InstallNew(window.root, job.id, job.build)
        /\ Return([build |-> job.build, home |-> window.root])
     \/ /\ Answers(window.root, job.id, job.build)
        /\ Return(Loaded(window.root)[job.id])
        /\ UNCHANGED <<files, unrecorded, mishaps>>
  /\ UNCHANGED <<window, opening, portable, checked>>

WorkerFails ==
  /\ Working
  /\ \/ InstallUnrecorded(window.root, job.id, job.build)
     \/ UNCHANGED <<files, unrecorded, mishaps>>
  /\ job' = [state |-> "failed"]
  /\ UNCHANGED <<window, opening, portable, checked>>

\* The record goes to FishEye without another look at its package (while a
\* command is at that, the model has room for one handoff only).
PollInstalled ==
  /\ job # Nothing /\ job.state = "installed"
  /\ job' = Nothing
  /\ UNCHANGED files
  /\ Reload([window EXCEPT !.recent = job.id])
  /\ \/ job.fisheye /\ StartOpening("recent", job.id, job.record)
     \/ (job.fisheye => opening # Nothing) /\ UNCHANGED opening
  /\ UNCHANGED <<portable, checked, unrecorded, mishaps>>

PollFailed ==
  /\ job # Nothing /\ job.state = "failed"
  /\ job' = Nothing
  /\ UNCHANGED <<files, window, opening, portable, checked, unrecorded, mishaps>>

Listed(id) == window # Nothing /\ window.installs[id] # Nothing

\* The panel of the last install: no look at the package either.
OpenRecent(id) ==
  /\ Listed(id)
  /\ window.recent = id
  /\ StartOpening("recent", id, window.installs[id])
  /\ UNCHANGED <<files, window, job, portable, checked, unrecorded, mishaps>>

Dismiss(id) ==
  /\ Listed(id)
  /\ window.recent = id
  /\ window' = [window EXCEPT !.recent = Nothing]
  /\ UNCHANGED <<files, job, opening, portable, checked, unrecorded, mishaps>>

OpenListed(id) ==
  /\ Listed(id)
  /\ Integrity(id, window.installs[id]) = "Verified"
  /\ StartOpening("list", id, window.installs[id])
  /\ UNCHANGED <<files, window, job, portable, checked, unrecorded, mishaps>>

Verify(id) ==
  /\ Listed(id)
  /\ window' = [window EXCEPT !.integrity[id] =
                  Integrity(id, window.installs[id])]
  /\ checked' = [checked EXCEPT ![id] = window.installs[id]]
  /\ UNCHANGED <<files, job, opening, portable, unrecorded, mishaps>>

AskRemove(id) ==
  /\ Listed(id)
  /\ window.confirm # id
  /\ window' = [window EXCEPT !.confirm = id]
  /\ UNCHANGED <<files, job, opening, portable, checked, unrecorded, mishaps>>

CancelRemove(id) ==
  /\ Listed(id)
  /\ window.confirm = id
  /\ window' = [window EXCEPT !.confirm = Nothing]
  /\ UNCHANGED <<files, job, opening, portable, checked, unrecorded, mishaps>>

\* Whatever remove answers.
ConfirmRemove(id) ==
  /\ Listed(id)
  /\ window.confirm = id
  /\ Remove(window.root, id)
  /\ Reload([window EXCEPT !.confirm = Nothing,
                           !.recent = IF @ = id THEN Nothing ELSE @])
  /\ UNCHANGED <<job, opening, portable, checked>>

Gui(r) ==
  \/ Launch(r)
  \/ /\ window # Nothing /\ window.root = r
     /\ \/ /\ ~Blocked
           /\ \/ \E id \in Ids, build \in Builds, fisheye \in BOOLEAN :
                   StartInstall(id, build, fisheye)
              \/ PollInstalled \/ PollFailed
              \/ \E id \in Ids :
                   \/ OpenRecent(id) \/ Dismiss(id) \/ OpenListed(id)
                   \/ Verify(id) \/ AskRemove(id) \/ CancelRemove(id)
                   \/ ConfirmRemove(id)
        \/ WorkerInstalls \/ WorkerFails \/ Quit

-----------------------------------------------------------------------------
(* Commands, beside the GUI                                                 *)

CommandInstalls(r, id, build) ==
  /\ InstallNew(r, id, build) \/ InstallUnrecorded(r, id, build)
  /\ UNCHANGED opening

\* Up to a failure or to the end; a GUI whose start fails comes as far.
CommandRepairs(r) ==
  /\ \E repaired \in SUBSET Repairs(r) : Recover(r, repaired)
  /\ UNCHANGED <<opening, mishaps>>

CommandOpens(r, id) ==
  /\ Loaded(r)[id] # Nothing
  /\ Integrity(id, Loaded(r)[id]) = "Verified"
  /\ StartOpening("command", id, Loaded(r)[id])
  /\ UNCHANGED <<files, unrecorded, mishaps>>

\* With --confirm.
CommandRemoves(r, id) ==
  /\ Remove(r, id)
  /\ UNCHANGED opening

Command(r) ==
  /\ \/ CommandRepairs(r)
     \/ \E id \in Ids :
          \/ CommandOpens(r, id) \/ CommandRemoves(r, id)
          \/ \E build \in Builds : CommandInstalls(r, id, build)
  /\ UNCHANGED <<window, job, portable, checked>>

-----------------------------------------------------------------------------
(* Users and other programs                                                 *)

Busy(r) == window # Nothing /\ window.root = r

\* Saves of operations that overlap at r take each other back: the record of
\* an id is gone, or one is there that another operation wrote.
Overlapped(r, id) ==
  /\ \E record \in [build: Builds, home: {r}] \cup {Nothing} :
       registry' = [registry EXCEPT ![r][id] = record]
  /\ Apart(r, {id})
  /\ UNCHANGED packages

\* The folder of the application, with its data, is copied or moved over s.
Copied(r, s, kept) ==
  /\ r # s
  /\ ~Busy(s) /\ (kept \/ ~Busy(r))
  /\ packages' = [packages EXCEPT ![s] = packages[r],
                                  ![r] = IF kept THEN @ ELSE NoneOf]
  /\ registry' = [registry EXCEPT ![s] = registry[r],
                                  ![r] = IF kept THEN @ ELSE NoneOf]
  /\ unrecorded' = [unrecorded EXCEPT ![s] = unrecorded[r],
                                      ![r] = IF kept THEN @ ELSE {}]

RegistryLost(r) ==
  /\ ~Busy(r)
  /\ registry' = [registry EXCEPT ![r] = NoneOf]
  /\ UNCHANGED <<packages, unrecorded>>

Damaged(r, id) ==
  /\ packages[r][id] # Nothing
  /\ \/ packages' = [packages EXCEPT ![r][id] = Nothing]
     \/ \E state \in {"changed", "headless"} :
          packages' = [packages EXCEPT ![r][id].state = state]
  /\ UNCHANGED <<registry, unrecorded>>

Mishap ==
  /\ OneMoreMishap
  /\ \/ \E r, s \in Roots, kept \in BOOLEAN : Copied(r, s, kept)
     \/ \E r \in Roots : RegistryLost(r)
     \/ \E r \in Roots, id \in Ids : Damaged(r, id) \/ Overlapped(r, id)
  /\ UNCHANGED <<window, job, opening, portable, checked>>

Next == (\E r \in Roots : Gui(r) \/ Command(r)) \/ HandOver
        \/ HandsNothingOver \/ Mishap

Spec == Init /\ [][Next]_vars

-----------------------------------------------------------------------------
(* Properties                                                               *)

\* The window says "Verified" of a record only if that very record was
\* verified, not an earlier one of the same id, however often the list was
\* loaded and the id removed and installed again since (app.rs:134).
VerifiedIsOfTheRecord ==
  window # Nothing =>
    \A id \in Ids :
      window.integrity[id] = "Verified" => checked[id] = window.installs[id]

\* "releases store settings and installed engines in `UCI-Grabber-Data/` beside
\* the application so the complete folder remains portable" (README.md:38): while
\* a portable GUI runs, every package below its root that nobody touched has a
\* record that verifies, wherever the folder came from and even if registry.json
\* was lost on the way.  Only an install that was cut short after it had put its
\* package in place, and saves that overlapped, are excepted, until the id is
\* installed or removed again or a recovery finds it without a record.
EnginesAreKept ==
  window # Nothing /\ window.root \in portable =>
    LET r == window.root IN
    \A id \in Ids \ unrecorded[r] :
      packages[r][id] # Nothing /\ packages[r][id].state = "whole" =>
        /\ Loaded(r)[id] # Nothing
        /\ Integrity(id, Loaded(r)[id]) = "Verified"

\* No operation at one root changes what is below another one, although the
\* records of a copied registry lead there ("refusing to remove path outside
\* install generations", registry.rs:352).
StepsStayInTheirRoot ==
  [][\A r \in Roots : Gui(r) \/ Command(r) =>
       \A s \in Roots \ {r} :
         packages'[s] = packages[s] /\ registry'[s] = registry[s]]_vars
=============================================================================
