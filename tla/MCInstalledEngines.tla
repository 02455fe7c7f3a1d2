------------------------- MODULE MCInstalledEngines -------------------------
(***************************************************************************)
(* An instance of InstalledEngines for TLC: one id with two builds, two    *)
(* data roots, each of them portable or not.                               *)
(***************************************************************************)
EXTENDS InstalledEngines, TLC

CONSTANTS r1, r2, b1, b2, i1

Symmetry == Permutations({r1, r2}) \cup Permutations({b1, b2})

\* Bound: an install that asks for a handoff, and a handoff, go on until the
\* first mishap; what came of them by then is not explored further.
HandoffBound ==
  opening # Nothing \/ (job # Nothing /\ job.state # "failed" /\ job.fisheye)
    => mishaps = 0
=============================================================================
