---------------------------- MODULE MCGrabberApp ----------------------------
(***************************************************************************)
(* A small instance of GrabberApp: the GUI and one CLI process; two recipe *)
(* keys, one of which is imported with two different contents.             *)
(***************************************************************************)
EXTENDS GrabberApp

CONSTANTS gui, cli, k1, k2, c1, c2

MCProcesses == {gui, cli}

MCManifests ==
  {[key |-> k1, content |-> c1], [key |-> k1, content |-> c2],
   [key |-> k2, content |-> c1]}

=============================================================================
