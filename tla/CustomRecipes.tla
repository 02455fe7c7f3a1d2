--------------------------- MODULE CustomRecipes ---------------------------
(***************************************************************************)
(* recipes.rs: the store of imported recipes, one immutable manifest per   *)
(* key, which is a recipe id with a version.  save looks for the manifest, *)
(* writes a temporary file that load_all does not look at and renames it   *)
(* to its place unless one is there, and otherwise compares.  Imports of   *)
(* the GUI's worker and of CLI processes interleave.                       *)
(***************************************************************************)

CONSTANTS
  Importers, \* processes
  Manifests, \* the valid manifests there are to import: key and content
  Absent,    \* no manifest is stored under a key
  Torn       \* a manifest that is written in part: load_all fails on it

Keys == {m.key : m \in Manifests}

Contents == {m.content : m \in Manifests}

ASSUME ManifestsAssumption ==
  /\ Manifests # {} /\ Manifests \subseteq [key: Keys, content: Contents]
  /\ Absent \notin Contents /\ Torn \notin Contents /\ Absent # Torn

VARIABLES
  stored,    \* stored[k]: the content of the manifest under key k
  import     \* import[p]: the import that process p is in, or its answer

storeVars == <<stored, import>>

Import ==
  [pc: {"idle", "read", "exists", "persist", "compare"},
   recipe: Manifests,
   answer: {"none", "imported", "failed"}]

StoreTypeOK ==
  /\ stored \in [Keys -> Contents \cup {Absent, Torn}]
  /\ import \in [Importers -> Import]

NoImport ==
  [pc |-> "idle", recipe |-> CHOOSE m \in Manifests : TRUE, answer |-> "none"]

StoreInit ==
  /\ stored = [k \in Keys |-> Absent]
  /\ import = [p \in Importers |-> NoImport]

Reaches(p, pc) == import[p].pc = pc

Moves(p, pc) == import' = [import EXCEPT ![p].pc = pc]

Ends(p, answer) == import' = [import EXCEPT ![p].pc = "idle",
                                            ![p].answer = answer]

CallImport(p) ==
  /\ Reaches(p, "idle")
  /\ import' = [import EXCEPT ![p] = [NoImport EXCEPT !.pc = "read"]]
  /\ UNCHANGED stored

ForgetImport(p) == import' = [import EXCEPT ![p] = NoImport]

-----------------------------------------------------------------------------

\* The manifest is downloaded or read, parsed and validated.
Read(p, m) ==
  /\ Reaches(p, "read")
  /\ import' = [import EXCEPT ![p].pc = "exists", ![p].recipe = m]
  /\ UNCHANGED stored

Exists(p) ==
  /\ Reaches(p, "exists")
  /\ IF stored[import[p].recipe.key] = Absent
     THEN Moves(p, "persist")
     ELSE Moves(p, "compare")
  /\ UNCHANGED stored

Stores(p, content) ==
  stored' = [stored EXCEPT ![import[p].recipe.key] = content]

\* Mutant: the rename replaces what is there.
PersistClobbers(p) ==
  /\ Reaches(p, "persist")
  /\ Stores(p, import[p].recipe.content)
  /\ Ends(p, "imported")

\* The last sync may fail, with the manifest in place.
Persist(p) ==
  /\ Reaches(p, "persist")
  /\ stored[import[p].recipe.key] = Absent
  /\ Stores(p, import[p].recipe.content)
  /\ \E answer \in {"imported", "failed"} : Ends(p, answer)

PersistRefused(p) ==
  /\ Reaches(p, "persist")
  /\ stored[import[p].recipe.key] # Absent
  /\ Moves(p, "compare")
  /\ UNCHANGED stored

\* Mutant: a manifest under the same id and version is taken for the same.
CompareKeys(p) ==
  /\ Reaches(p, "compare")
  /\ Ends(p, "imported")
  /\ UNCHANGED stored

\* The canonical contents are equal, or the version is not to be changed.
Compare(p) ==
  /\ Reaches(p, "compare")
  /\ Ends(p, IF stored[import[p].recipe.key] = import[p].recipe.content
             THEN "imported"
             ELSE "failed")
  /\ UNCHANGED stored

ImportFails(p) ==
  /\ ~Reaches(p, "idle")
  /\ Ends(p, "failed")
  /\ UNCHANGED stored

ImportStep(p) ==
  \/ \E m \in Manifests : Read(p, m)
  \/ Exists(p)
  \/ Persist(p)
  \/ PersistRefused(p)
  \/ Compare(p)
  \/ ImportFails(p)

\* load_all fails on the first manifest that does not parse.
Loads == \A k \in Keys : stored[k] # Torn

-----------------------------------------------------------------------------
(* Properties                                                               *)

\* An import that reports success has its own content in the store, also when
\* another process imports a different content under the same id and version
\* at the same time (persist_noclobber, ensure_immutable_match); and however
\* imports overlap or end, load_all succeeds, on which the start of the GUI
\* depends (GrabberApp::load).
ImportedMeansStored ==
  /\ \A p \in Importers :
       LET m == import[p].recipe IN
       import[p].answer = "imported" => stored[m.key] = m.content
  /\ Loads

=============================================================================
