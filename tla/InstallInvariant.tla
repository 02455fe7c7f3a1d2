-------------------------- MODULE InstallInvariant --------------------------
(***************************************************************************)
(* The inductive invariants behind the safety properties of                *)
(* InstallProperties.                                                      *)
(***************************************************************************)
EXTENDS InstallProperties

Staging == {"fetch", "check", "activate"}

\* What the program counter of thread a says about its other local variables.
WiredTask(a, t) ==
  /\ t.op = "none" <=> t.pc = "idle"
  /\ t.op \in Does[a] \cup {"none"}
  /\ t.pc \in Staging \cup {"lookup", "verify"} => t.op = "install"
  /\ t.pc \in {"scan", "repair"} => t.op = "recover"
  /\ t.pc \in {"open", "forgetLoad", "forgetSave"} => t.op = "remove"
  /\ t.pc = "delete" => t.op \in {"remove", "recover"}
  /\ t.pc \in {"addLoad", "addSave"} => t.op \in {"install", "recover"}
  /\ t.pc \in Staging \cup {"delete"} => t.dir \in Dirs
  /\ t.op \in {"install", "remove"} \/ t.pc \in {"addLoad", "addSave"} =>
       t.rec \in InstallRecord

Wired(a) == WiredTask(a, task[a])

\* A recovery shares its process with no other operation.
RecoveryAlone ==
  \A a, b \in Actors :
    task[a].op = "recover" /\ a # b /\ Proc[a] = Proc[b] =>
      task[b].op = "none"

TypeInv ==
  /\ TypeOK
  /\ \A a \in Actors : Wired(a)
  /\ RecoveryAlone

\* The staging directory of a running install is its own, keeps its name, and
\* holds what the install has put there so far.
Staged(a) ==
  task[a].pc \in Staging =>
    /\ Here(a).name = "staging"
    /\ Here(a).id = task[a].rec.id
    /\ Here(a).recipe = task[a].rec.recipe
    /\ \A b \in Actors : task[b].dir = task[a].dir => b = a
    /\ Payload \ task[a].todo \subseteq Here(a).files
    /\ At(a, "fetch") => Here(a).files \subseteq Payload \cup {Downloads}
    /\ task[a].pc # "fetch" => task[a].todo = {} /\ task[a].rec.files = Payload
    /\ At(a, "activate") => Here(a).manifest = task[a].rec

\* remove_dir_all works on what its caller may delete: a generation whose
\* removal was asked for, a staging directory that no install uses.
Deletes(a) ==
  At(a, "delete") =>
    \/ Here(a).name = "none"
    \/ task[a].op = "remove" /\ task[a].dir \in condemned
    \/ task[a].op = "recover" /\ Here(a).name = "staging"

\* What is on disk: staging directories, deletions, manifests, generations.
DiskInv ==
  /\ \A a \in Actors : Staged(a) /\ Deletes(a)
  /\ \A d \in Dirs : dirs[d].manifest # NoRecord =>
       dirs[d].manifest.files = Payload
  /\ WholeUnlessCondemned

GoodRecord(r, id) == r # NoRecord => r.id = id /\ r.files = Payload

\* What a thread with local variables t knows of records.
Carries(t) ==
  /\ \A id \in Ids : GoodRecord(t.loaded[id], id)
  /\ \A r \in t.found : r.files = Payload
  /\ t.pc \in {"addLoad", "addSave"} => t.rec.files = Payload

\* Only records of completely staged packages are in circulation.
RecordsInv ==
  /\ RecordsAreWhole
  /\ \A a \in Actors : Carries(task[a])

IInv == TypeInv /\ DiskInv /\ RecordsInv

-----------------------------------------------------------------------------
(* What one thread knows that no other thread interferes with               *)

Single == \A a, b \in Actors : a = b

\* One generation per path, and every manifest in the generation it is of.
PathsInv ==
  /\ \A d, e \in Dirs :
       /\ dirs[d].name = "generation" /\ dirs[e].name = "generation"
       /\ dirs[d].id = dirs[e].id
       => d = e
  /\ \A d \in Dirs :
       dirs[d].name = "generation" /\ dirs[d].manifest # NoRecord =>
         dirs[d].manifest.id = dirs[d].id

Usable(r) ==
  \E d \in Generation(r.id) :
    Payload \subseteq dirs[d].files /\ dirs[d].recipe = r.recipe

\* A record or a registry that was read is still what registry.json holds; an
\* install that is being registered has its package at its path.
InstallKnows(a) ==
  /\ At(a, "verify") => task[a].rec = registry[task[a].rec.id]
  /\ task[a].pc \in {"addSave", "forgetSave"} => task[a].loaded = registry
  /\ task[a].op = "install" /\ task[a].pc \in {"addLoad", "addSave"} =>
       Usable(task[a].rec)

\* remove_dir_all works on the generation, and has left nothing of it before
\* its record is looked for.
RemoveKnows(a) ==
  /\ task[a].op = "remove" /\ At(a, "delete") =>
       task[a].dir \in Generation(task[a].rec.id)
  /\ task[a].pc \in {"forgetLoad", "forgetSave"} =>
       Generation(task[a].rec.id) = {}

\* The scan still has to visit what it has neither deleted nor collected.
ScanKnows(a) ==
  \A d \in Dirs :
    /\ dirs[d].name = "staging" =>
         \/ <<d, "staging">> \in task[a].due
         \/ At(a, "delete") /\ task[a].dir = d
    /\ dirs[d].name = "generation" /\ dirs[d].manifest # NoRecord =>
         \/ <<d, "generation">> \in task[a].due
         \/ dirs[d].manifest \in task[a].found

\* The repair still has to look at the manifests whose record may be missing.
RepairKnows(a) ==
  /\ \A id \in task[a].known : registry[id] # NoRecord
  /\ \A d \in Dirs :
       /\ dirs[d].name # "staging"
       /\ dirs[d].name = "generation" /\ dirs[d].manifest # NoRecord =>
            \/ dirs[d].manifest \in task[a].found
            \/ ~At(a, "repair") /\ dirs[d].manifest = task[a].rec
            \/ ~Verified(dirs[d].manifest)
            \/ registry[dirs[d].id] # NoRecord

RecoverKnows(a) ==
  task[a].op = "recover" =>
    /\ task[a].pc \in {"scan", "delete"} => ScanKnows(a)
    /\ task[a].pc \in {"repair", "addLoad", "addSave"} => RepairKnows(a)

Knows(a) == InstallKnows(a) /\ RemoveKnows(a) /\ RecoverKnows(a)

SoloInv == PathsInv /\ \A a \in Actors : Knows(a)
=============================================================================
