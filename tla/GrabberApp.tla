----------------------------- MODULE GrabberApp -----------------------------
(***************************************************************************)
(* app.rs: the GUI with its one background job, which installs, refreshes  *)
(* the catalog or imports a recipe, and reports over a channel that the UI *)
(* thread polls; and, through CatalogCache and CustomRecipes, the files it *)
(* shares with CLI processes (main.rs: list, list --refresh, import).      *)
(*                                                                         *)
(* What the Installed tab shows, the wording of the status line and what   *)
(* an install does on disk (InstallLifecycle) are left out.                *)
(***************************************************************************)
EXTENDS Naturals, Sequences, CatalogCache, CustomRecipes

CONSTANTS
  Gui,         \* the process of the GUI; the others run commands
  Curated,     \* a recipe of the catalog
  NoRecipe,    \* no install is running
  MaxReports,  \* bound: progress reports of one install
  Sessions     \* bound: the sets of kinds of work that are mixed

ASSUME AppAssumption ==
  /\ Gui \in Processes
  /\ Importers = Processes
  /\ Curated \notin Manifests
  /\ NoRecipe \notin Manifests \cup {Curated}
  /\ MaxReports \in Nat
  /\ Sessions \subseteq SUBSET {"refresh", "import"}

VARIABLES
  phase,       \* whether the GUI runs
  catalog,     \* the catalog on the screen
  shown,       \* custom_recipes, the recipes on the screen
  approved,    \* approved_unreviewed: keys whose box is ticked
  job,         \* what the receiver in self.job is of
  messages,    \* what is in the channel
  widgets,     \* the other fields that a job sets and poll_job clears
  worker,      \* the thread of the job
  ticked,      \* history: the manifests on the screen when their box was ticked
  clicked,     \* history: the user cancelled this job
  session      \* the kinds of work that this behaviour has

guiVars == <<phase, catalog, shown, approved, job, messages, widgets, worker,
             ticked, clicked, session>>

vars == <<cacheVars, storeVars, guiVars>>

Clis == Processes \ {Gui}

Results == {"ok", "cancelled", "error"}

\* label, cancel, progress: job_label, job_cancel and install_progress are
\* set.  fisheye: post_install_action is OpenInFishEye.
Widgets ==
  [label: BOOLEAN, cancel: BOOLEAN, progress: BOOLEAN, refreshing: BOOLEAN,
   fisheye: BOOLEAN]

NoWidgets ==
  [label |-> FALSE, cancel |-> FALSE, progress |-> FALSE,
   refreshing |-> FALSE, fisheye |-> FALSE]

\* cancel: the flag of the job that the thread shares with the Cancel button.
Worker ==
  [running: BOOLEAN, recipe: Manifests \cup {Curated, NoRecipe},
   cancel: BOOLEAN, reports: 0..MaxReports]

NoWorker ==
  [running |-> FALSE, recipe |-> NoRecipe, cancel |-> FALSE, reports |-> 0]

\* One type invariant for the three modules: a catalog on the screen is one
\* that was read or bundled, and every message of a job but its last one is
\* a progress report.
TypeOK ==
  /\ CacheTypeOK
  /\ StoreTypeOK
  /\ phase \in {"down", "loading", "up"}
  /\ catalog \in {"bundled"} \cup (Bytes \ {"absent"})
  /\ shown \in [Keys -> Contents \cup {Absent}]
  /\ approved \subseteq Keys
  /\ job \in {"none", "install", "refresh", "import"}
  /\ messages \in Seq({"progress"} \cup Results)
  /\ \A i \in 1..Len(messages) - 1 : messages[i] = "progress"
  /\ widgets \in Widgets
  /\ worker \in Worker
  /\ ticked \subseteq Manifests
  /\ clicked \in BOOLEAN
  /\ session \in Sessions

-----------------------------------------------------------------------------
(* The process: GrabberApp::load, run_gui                                   *)

Reset(where) ==
  /\ phase' = where
  /\ catalog' = "bundled"
  /\ shown' = [k \in Keys |-> Absent]
  /\ approved' = {}
  /\ job' = "none"
  /\ messages' = <<>>
  /\ widgets' = NoWidgets
  /\ worker' = NoWorker
  /\ ticked' = {}
  /\ clicked' = FALSE
  /\ UNCHANGED session

Init ==
  /\ CacheInit
  /\ StoreInit
  /\ phase = "down"
  /\ catalog = "bundled"
  /\ shown = [k \in Keys |-> Absent]
  /\ approved = {}
  /\ job = "none"
  /\ messages = <<>>
  /\ widgets = NoWidgets
  /\ worker = NoWorker
  /\ ticked = {}
  /\ clicked = FALSE
  /\ session \in Sessions

Launch ==
  /\ phase = "down"
  /\ Reset("loading")
  /\ Call(Gui, "loadCatalog")
  /\ UNCHANGED storeVars

\* Mutant: what the cache answered is shown even if it is an error.
LoadedRegardless ==
  /\ phase = "loading" /\ At(Gui, "idle")
  /\ Loads
  /\ phase' = "up"
  /\ catalog' = client[Gui].got
  /\ shown' = stored
  /\ Forget(Gui)
  /\ UNCHANGED <<approved, job, messages, widgets, worker, ticked, clicked,
                 session>>
  /\ UNCHANGED <<files, lone, storeVars>>

\* Without a cached catalog, or with one that is not valid, the bundled one.
Loaded ==
  /\ phase = "loading" /\ At(Gui, "idle")
  /\ Loads
  /\ phase' = "up"
  /\ catalog' = IF client[Gui].answer = "cached"
                THEN client[Gui].got
                ELSE "bundled"
  /\ shown' = stored
  /\ Forget(Gui)
  /\ UNCHANGED <<approved, job, messages, widgets, worker, ticked, clicked,
                 session>>
  /\ UNCHANGED <<files, lone, storeVars>>

\* The window is closed, the start fails, or the process dies: its threads
\* end wherever they are.
Quit ==
  /\ phase # "down"
  /\ Reset("down")
  /\ Forget(Gui)
  /\ ForgetImport(Gui)
  /\ UNCHANGED <<files, lone, stored>>

-----------------------------------------------------------------------------
(* The UI thread                                                            *)

Tick(k) ==
  /\ phase = "up"
  /\ shown[k] # Absent
  /\ approved' = approved \cup {k}
  /\ ticked' = {m \in ticked : m.key # k}
                 \cup {[key |-> k, content |-> shown[k]]}
  /\ UNCHANGED <<phase, catalog, shown, job, messages, widgets, worker,
                 clicked, session, cacheVars, storeVars>>

Untick(k) ==
  /\ phase = "up"
  /\ shown[k] # Absent
  /\ approved' = approved \ {k}
  /\ ticked' = {m \in ticked : m.key # k}
  /\ UNCHANGED <<phase, catalog, shown, job, messages, widgets, worker,
                 clicked, session, cacheVars, storeVars>>

Spawn(kind, w, recipe) ==
  /\ phase = "up" /\ job = "none"
  /\ job' = kind
  /\ messages' = <<>>
  /\ widgets' = w
  /\ worker' = [NoWorker EXCEPT !.running = TRUE, !.recipe = recipe]
  /\ clicked' = FALSE
  /\ UNCHANGED <<phase, catalog, shown, approved, ticked, session>>

\* What the Install buttons of recipe_list offer: every recipe of the catalog
\* and the custom ones with a ticked box, as they are on the screen.
Offered ==
  {Curated} \cup {[key |-> k, content |-> shown[k]] :
                    k \in {a \in approved : shown[a] # Absent}}

\* Mutant: the flag of the last job is used again.
StartInstallOldFlag(recipe, fisheye) ==
  /\ phase = "up" /\ job = "none"
  /\ recipe \in Offered
  /\ job' = "install"
  /\ messages' = <<>>
  /\ widgets' = [widgets EXCEPT !.label = TRUE, !.cancel = TRUE,
                                !.progress = FALSE, !.fisheye = fisheye]
  /\ worker' = [NoWorker EXCEPT !.running = TRUE, !.recipe = recipe,
                                !.cancel = worker.cancel]
  /\ clicked' = FALSE
  /\ UNCHANGED <<phase, catalog, shown, approved, ticked, session,
                 cacheVars, storeVars>>

StartInstall(recipe, fisheye) ==
  /\ recipe \in Offered
  /\ Spawn("install",
           [widgets EXCEPT !.label = TRUE, !.cancel = TRUE,
                           !.progress = FALSE, !.fisheye = fisheye],
           recipe)
  /\ UNCHANGED <<cacheVars, storeVars>>

StartRefresh ==
  /\ "refresh" \in session
  /\ Spawn("refresh", [widgets EXCEPT !.label = TRUE, !.cancel = FALSE,
                                      !.refreshing = TRUE], NoRecipe)
  /\ Call(Gui, "fetch")
  /\ UNCHANGED storeVars

StartImport ==
  /\ "import" \in session
  /\ Spawn("import", [widgets EXCEPT !.label = TRUE, !.cancel = FALSE],
           NoRecipe)
  /\ CallImport(Gui)
  /\ UNCHANGED cacheVars

\* The button is drawn while job_cancel is set.
Cancel ==
  /\ phase = "up" /\ widgets.cancel
  /\ worker' = [worker EXCEPT !.cancel = TRUE]
  /\ clicked' = TRUE
  /\ UNCHANGED <<phase, catalog, shown, approved, job, messages, widgets,
                 ticked, session, cacheVars, storeVars>>

\* poll_job when it drains progress reports only.
PollProgress ==
  /\ job # "none"
  /\ messages # <<>> /\ messages[Len(messages)] = "progress"
  /\ messages' = <<>>
  /\ widgets' = [widgets EXCEPT !.progress = TRUE]
  /\ UNCHANGED <<phase, catalog, shown, approved, job, worker, ticked,
                 clicked, session, cacheVars, storeVars>>

\* The fields that poll_job clears for every result, and for one of refresh.
Cleared ==
  [NoWidgets EXCEPT !.refreshing = widgets.refreshing /\ job # "refresh"]

\* What a result changes on the screen: a verified catalog is shown; an
\* imported recipe loses its tick, and all recipes are read again.
Result(result) ==
  LET refreshed == job = "refresh" /\ result = "ok"
      imported == job = "import" /\ result = "ok"
  IN
  /\ catalog' = IF refreshed THEN client[Gui].got ELSE catalog
  /\ approved' = IF imported THEN approved \ {import[Gui].recipe.key}
                 ELSE approved
  /\ shown' = IF imported /\ Loads THEN stored ELSE shown

\* Mutant: an error is shown and the rest of the method skipped.
PollSkipsErrors(result) ==
  /\ job # "none"
  /\ messages # <<>> /\ messages[Len(messages)] = result
  /\ messages' = <<>>
  /\ job' = IF result = "error" THEN job ELSE "none"
  /\ widgets' = IF result = "error" THEN widgets ELSE Cleared
  /\ Result(result)
  /\ Forget(Gui) /\ ForgetImport(Gui)
  /\ clicked' = FALSE
  /\ UNCHANGED <<phase, worker, ticked, session, files, lone, stored>>

\* Mutant: the progress of the install stays on the screen.
PollKeepsProgress(result) ==
  /\ job # "none"
  /\ messages # <<>> /\ messages[Len(messages)] = result
  /\ messages' = <<>>
  /\ job' = "none"
  /\ widgets' = [Cleared EXCEPT !.progress = widgets.progress]
  /\ Result(result)
  /\ Forget(Gui) /\ ForgetImport(Gui)
  /\ clicked' = FALSE
  /\ UNCHANGED <<phase, worker, ticked, session, files, lone, stored>>

\* poll_job when the result of the job is in the channel, behind progress.
Poll(result) ==
  /\ job # "none"
  /\ messages # <<>> /\ messages[Len(messages)] = result
  /\ messages' = <<>>
  /\ job' = "none"
  /\ widgets' = Cleared
  /\ Result(result)
  /\ Forget(Gui) /\ ForgetImport(Gui)
  /\ clicked' = FALSE
  /\ UNCHANGED <<phase, worker, ticked, session, files, lone, stored>>

-----------------------------------------------------------------------------
(* The worker thread                                                        *)

Report ==
  /\ worker.running /\ job = "install"
  /\ worker.reports < MaxReports
  /\ worker' = [worker EXCEPT !.reports = @ + 1]
  /\ messages' = Append(messages, "progress")
  /\ UNCHANGED <<phase, catalog, shown, approved, job, widgets, ticked,
                 clicked, session, cacheVars, storeVars>>

\* The thread sends its result and ends; its flag lives on in job_cancel.
Sends(result) ==
  /\ worker' = [worker EXCEPT !.running = FALSE, !.recipe = NoRecipe,
                              !.reports = 0]
  /\ messages' = Append(messages, result)
  /\ UNCHANGED <<phase, catalog, shown, approved, job, widgets, ticked,
                 clicked, session, cacheVars, storeVars>>

\* An install ends as it likes, and as cancelled where it finds its flag set.
InstallEnds(result) ==
  /\ worker.running /\ job = "install"
  /\ result = "cancelled" => worker.cancel
  /\ Sends(result)

RefreshEnds ==
  /\ worker.running /\ job = "refresh" /\ At(Gui, "idle")
  /\ Sends(IF client[Gui].answer = "refreshed" THEN "ok" ELSE "error")

ImportEnds ==
  /\ worker.running /\ job = "import" /\ Reaches(Gui, "idle")
  /\ Sends(IF import[Gui].answer = "imported" THEN "ok" ELSE "error")

-----------------------------------------------------------------------------
(* Commands: one process of the CLI after another                           *)

NotRunning(p) == client[p] = NoCall /\ import[p] = NoImport

CliRefresh(p) ==
  /\ NotRunning(p)
  /\ "refresh" \in session
  /\ Call(p, "fetch")
  /\ UNCHANGED <<storeVars, guiVars>>

CliList(p) ==
  /\ NotRunning(p)
  /\ "refresh" \in session
  /\ Call(p, "loadCatalog")
  /\ UNCHANGED <<storeVars, guiVars>>

CliImport(p) ==
  /\ NotRunning(p)
  /\ "import" \in session
  /\ CallImport(p)
  /\ UNCHANGED <<cacheVars, guiVars>>

\* The command prints its answer and exits, or the process dies before.
CliExit(p) ==
  /\ ~NotRunning(p)
  /\ Forget(p)
  /\ ForgetImport(p)
  /\ UNCHANGED <<files, lone, stored, guiVars>>

-----------------------------------------------------------------------------

Calls(p) ==
  \/ CacheStep(p) /\ UNCHANGED <<storeVars, guiVars>>
  \/ ImportStep(p) /\ UNCHANGED <<cacheVars, guiVars>>

WorkerEnds ==
  \/ \E result \in Results : InstallEnds(result)
  \/ RefreshEnds
  \/ ImportEnds

Polls == PollProgress \/ \E result \in Results : Poll(result)

User ==
  \/ Launch
  \/ Quit
  \/ \E k \in Keys : Tick(k) \/ Untick(k)
  \/ \E recipe \in Offered, fisheye \in BOOLEAN :
       StartInstall(recipe, fisheye)
  \/ StartRefresh
  \/ StartImport
  \/ Cancel

Command(p) == CliRefresh(p) \/ CliList(p) \/ CliImport(p) \/ CliExit(p)

Next ==
  \/ User
  \/ Loaded
  \/ Polls
  \/ Report
  \/ WorkerEnds
  \/ \E p \in Clis : Command(p)
  \/ \E p \in Processes : Calls(p)

Spec == Init /\ [][Next]_vars

\* The threads of the GUI keep running while it does: the UI thread asks to be
\* drawn again every 100 ms while there is a job (GrabberApp::logic), and every
\* download of a worker has a timeout.
FairSpec ==
  /\ Spec
  /\ WF_vars(Calls(Gui))
  /\ WF_vars(WorkerEnds)
  /\ WF_vars(Polls)

-----------------------------------------------------------------------------
(* Properties                                                               *)

\* The catalog on the screen of the GUI and the one a command works with are
\* bundled or signed for this release, whatever two processes that store at
\* the same time leave under the two names (load_fresh always verifies).
LoadedIsReleased ==
  /\ catalog \in {"bundled", "catalog"}
  /\ \A p \in Processes :
       client[p].answer = "cached" => client[p].got = "catalog"

\* A custom recipe is installed only with the content that was on the screen
\* when the user ticked its box (approved_unreviewed is keyed by id and version
\* alone; docs/RECIPE_FORMAT.md asks for explicit approval before testing).
ApprovedAsShown ==
  [][worker'.recipe \in Manifests \ {worker.recipe}
       => worker'.recipe \in ticked]_vars

\* An install ends as cancelled only if the user cancelled that very install
\* (start_install makes a new flag for each).
CancelledByItsUser ==
  (messages # <<>> /\ messages[Len(messages)] = "cancelled") => clicked

\* What the window shows of a job belongs to the job that runs: no progress,
\* Cancel button, spinner or handoff is left over from an earlier one.
WidgetsFollowTheJob ==
  /\ widgets.label <=> job # "none"
  /\ widgets.cancel <=> job = "install"
  /\ widgets.refreshing <=> job = "refresh"
  /\ widgets.progress \/ widgets.fisheye => job = "install"

\* Every job ends and gives the buttons back, unless the GUI is closed.
JobEnds == job # "none" ~> job = "none"

=============================================================================
