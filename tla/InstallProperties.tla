------------------------- MODULE InstallProperties --------------------------
(***************************************************************************)
(* What the install, remove and recover operations of InstallLifecycle are *)
(* for.                                                                    *)
(***************************************************************************)
EXTENDS InstallLifecycle

\* Recoveries share one process with every installer, so that the code itself
\* keeps them apart.  It is an assumption on how the program is used.
Isolated ==
  \A a, b \in Actors :
    "recover" \in Does[a] /\ "install" \in Does[b] => Proc[a] = Proc[b]

\* The package of the generation is all there, beside the manifest that
\* recover needs to bring its record back.
Whole(d) ==
  /\ Payload \subseteq dirs[d].files
  /\ dirs[d].manifest # NoRecord
  /\ dirs[d].manifest.id = dirs[d].id
  /\ dirs[d].manifest.recipe = dirs[d].recipe
  /\ dirs[d].manifest.files = Payload

Kept(d) ==
  dirs[d].name = "generation" /\ d \notin condemned =>
    /\ dirs'[d].name = "generation"
    /\ dirs'[d].manifest = dirs[d].manifest
    /\ dirs[d].files \subseteq dirs'[d].files

Returns(a, r) == result[a] = "none" /\ result'[a] = r

-----------------------------------------------------------------------------
(* Safety                                                                   *)

\* Whatever crashes, is cancelled or runs at the same time: a package is seen
\* under its final path only complete and with its manifest, until somebody
\* asks for its removal ("Activation is an atomic rename into an immutable
\* versioned generation", docs/SECURITY.md).
WholeUnlessCondemned ==
  \A d \in Dirs :
    dirs[d].name = "generation" /\ d \notin condemned => Whole(d)

\* registry.json never holds a record of a package that was not staged to the
\* end, nor one filed under the id of another package.
RecordsAreWhole ==
  \A id \in Ids :
    registry[id] # NoRecord =>
      registry[id].id = id /\ registry[id].files = Payload

\* An activated generation is never replaced, emptied or rewritten by another
\* install, a failure, a crash or a recovery: only a removal that somebody
\* asked for takes it away (the immutable versions of docs/RECIPE_FORMAT.md).
OnlyRemovalTakesAway == [][\A d \in Dirs : Kept(d)]_vars

-----------------------------------------------------------------------------
(* What an operation promises when it returns, with no other one running   *)

\* install answers Ready only when the registry holds the record it returns
\* and the complete package of that record is at its path.  (Its manifest may
\* be missing after an interrupted removal: integrity does not look at it.)
ReadyMeansUsable ==
  [][\A a \in Actors : Returns(a, "ready") =>
       LET r == task[a].rec IN
       /\ registry'[r.id] = r
       /\ \E d \in Generation(r.id) :
            Payload \subseteq dirs[d].files /\ dirs[d].recipe = r.recipe]_vars

\* remove answers true only when neither the generation nor its record is left.
RemovedMeansGone ==
  [][\A a \in Actors : Returns(a, "removed") =>
       LET id == task[a].rec.id IN
       Generation(id) = {} /\ registry'[id] = NoRecord]_vars

\* recover answers Ok only when no staging directory is left over and every
\* generation that verifies against its own manifest has a record, whatever
\* was interrupted before.
RecoveredMeansRepaired ==
  [][\A a \in Actors : Returns(a, "recovered") =>
       \A d \in Dirs :
         /\ dirs[d].name # "staging"
         /\ (/\ dirs[d].name = "generation"
             /\ dirs[d].manifest # NoRecord
             /\ Verified(dirs[d].manifest))
            => registry[dirs[d].id] # NoRecord]_vars

-----------------------------------------------------------------------------
(* Liveness                                                                 *)

\* Every operation that starts returns, or dies with its process.
EveryCallReturns ==
  \A a \in Actors : task[a].pc # "idle" ~> task[a].pc = "idle"

-----------------------------------------------------------------------------
(* What the documentation says and the code does not do                     *)

\* "Explicitly removes one immutable generation and its registry record"
\* (registry.rs:332): once removed, a record comes back only by an add of that
\* same id.
RemovedStaysRemoved ==
  [][\A id \in Ids :
       registry[id] = NoRecord /\ registry'[id] # NoRecord =>
         \E a \in Actors : At(a, "addSave") /\ task[a].rec.id = id]_vars

\* "Cancellation and crashes leave the previous generation untouched;
\* recoverable staging directories are cleaned on the next startup"
\* (docs/SECURITY.md:33): nothing an interrupted operation of the program
\* leaves behind makes the recovery of the next startup give up.
RecoveryNeverBlocked == \A a \in Actors : result[a] # "blocked"

\* recover "registers successfully activated generations whose final registry
\* write was interrupted" (install.rs:377): once it has returned Ok, the record
\* of an activated generation is the one in that generation's manifest.
RecoveredMeansRegistered ==
  [][\A a \in Actors : Returns(a, "recovered") =>
       \A d \in Dirs :
         (/\ dirs[d].name = "generation"
          /\ dirs[d].manifest # NoRecord
          /\ Verified(dirs[d].manifest))
         => registry[dirs[d].id] = dirs[d].manifest]_vars
=============================================================================
