---------------------------- MODULE MCRegistryFile --------------------------
(***************************************************************************)
(* Instances of RegistryFile for TLC: one thread whose calls are           *)
(* interrupted anywhere, or several whose saves overlap.                   *)
(***************************************************************************)
EXTENDS RegistryFile, FiniteSets, TLC

CONSTANTS f1, f2, f3, f4
CONSTANTS t1, t2, t3
CONSTANTS i1, i2

Threads == {t1, t2, t3}

OneOrThree ==
  {t :> {i1, i2} : t \in Threads} \cup {[t \in Threads |-> {i1}]}

Two ==
  {[t \in c |-> {i1}] : c \in {c \in SUBSET Threads : Cardinality(c) = 2}}

Symmetry == Permutations({f1, f2, f3, f4}) \cup Permutations(Threads)
=============================================================================
