------------------------ MODULE MCInstallLifecycle --------------------------
(***************************************************************************)
(* Instances of InstallLifecycle for TLC: who the threads are, which       *)
(* process each belongs to and what it may run.                            *)
(***************************************************************************)
EXTENDS InstallInvariant, TLC

CONSTANTS worker, ui, cli    \* the job thread and the window of a GUI, a CLI
CONSTANTS exe, net           \* the payload: an executable and a network
CONSTANTS d1, d2, d3

MCPayload == {exe, net}

\* One thread that does everything, with crashes anywhere.
SoloProc == [a \in {ui} |-> "gui"]
SoloDoes == [a \in {ui} |-> Operations]

\* A window that removes while its job thread installs, and a CLI beside it.
TwoProcesses == [a \in {worker, ui, cli} |-> IF a = cli THEN "cli" ELSE "gui"]
GuiAndCli ==
  (worker :> {"install"}) @@ (ui :> {"remove"}) @@ (cli :> {"install"})

\* The GUI alone: its window and its job thread.
OneGui == [a \in {worker, ui} |-> "gui"]
GuiThreads == (worker :> {"install"}) @@ (ui :> {"remove"})

\* status --repair of a CLI while the GUI installs.
GuiAndRepair == [a \in {worker, cli} |-> IF a = cli THEN "cli" ELSE "gui"]
RepairBeside == (worker :> {"install"}) @@ (cli :> {"recover"})

Symmetry == Permutations({d1, d2, d3})
=============================================================================
