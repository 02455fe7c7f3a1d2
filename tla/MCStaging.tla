----------------------------- MODULE MCStaging -----------------------------
(* Two names that differ in case only, in paths of one and two components, *)
(* and the directory .downloads.  The names serve more than once: a file b  *)
(* at the top is the manifest, a directory b is one with the name of a      *)
(* staging directory, and the one that a launcher has to be in; the entry   *)
(* point of the launcher is one of its two models.  Two files of a limit    *)
(* each fill a package, as do four entries.                                 *)
EXTENDS Staging

CONSTANTS a, A, b, d

MCNames == {a, A, b, d}

MCFold == [name \in MCNames |-> IF name = A THEN a ELSE name]

\* A file system that folds, and one that does not.
MCSpells == [folds \in BOOLEAN |->
               IF folds THEN MCFold ELSE [name \in MCNames |-> name]]

MCPaths == {<<a>>, <<b>>, <<A, b>>}

MCLinkTexts == {<<a>>, <<Here, b>>, <<Up, a>>, <<A, b>>, <<>>}

MCDestinations == {<<a>>, <<A, b>>, <<d>>}

MCKinds == {"runtime", "model"}

MCKindLimit == [kind \in MCKinds |-> IF kind = "model" THEN 1 ELSE 2]

\* One artifact, two artifacts, and lists that a manifest may not hold.
MCCandidates ==
  LET Runtime(n) == [kind |-> "runtime", bytes |-> n]
      Model(n) == [kind |-> "model", bytes |-> n] IN
  {<<Runtime(2)>>, <<Runtime(2), Model(1)>>,
   <<>>, <<Model(1)>>, <<Runtime(0)>>, <<Runtime(2), Model(2)>>,
   <<Runtime(1), Runtime(1)>>}

MCPartName == <<<<a>>, <<b>>>>

MCExecutables == {<<A, b>>, <<A, b, b>>}

MCPackageRoot == <<A>>

MCSupports == {<<b, a>>}

MCCheckpoints == {<<b, a>>, <<b, A>>}

MCManifest == <<b>>

MCStagingNames == {b}

MCScribbles == {<<b>>, <<A, b>>, <<A, b, a>>}
=============================================================================
