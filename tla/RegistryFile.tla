---------------------------- MODULE RegistryFile ----------------------------
(***************************************************************************)
(* registry.rs, RegistryStore::load, save, add and forget, one file-system *)
(* call at a time: registry.json, its backup, and the registry.next that a *)
(* save writes before it renames it over registry.json.                    *)
(*                                                                         *)
(* Files are inodes, so that a name taken away from a file, or given to    *)
(* one that is only half written, is seen as such.  A record is its        *)
(* install id: add replaces, forget drops, by that id.                     *)
(***************************************************************************)
EXTENDS Naturals

CONSTANTS
  Actors,    \* threads that use the registry, of whatever process
  Ids,       \* install ids
  Crews,     \* what runs together: from threads to the ids each one uses
  Inodes,
  NoInode

ASSUME RegistryAssumption ==
  /\ Ids # {}
  /\ NoInode \notin Inodes
  /\ \A c \in Crews : DOMAIN c \subseteq Actors /\ \A a \in DOMAIN c : c[a] \subseteq Ids

VARIABLES
  crew,      \* the threads of this behaviour, with their ids
  names,     \* names[n]: the inode that name n of the data directory stands for
  content,   \* content[i]: what is written in inode i
  task,      \* task[a]: program counter and local variables of thread a
  saved,     \* history: what the last completed rename put in registry.json
  gaps       \* history: saves of a lone thread that ended in a gap

vars == <<crew, names, content, task, saved, gaps>>

\* A file that is created but not yet written to its end: serde refuses it.
Torn == [ids |-> {}, whole |-> FALSE]

Written(ids) == [ids |-> ids, whole |-> TRUE]

Content == [ids: SUBSET Ids, whole: BOOLEAN]

ProgramCounters ==
  {"idle", "loadJson", "loadBackup", "change", "clearNext", "create", "write",
   "clearBackup", "exists", "moveAside", "replace", "restore", "dropBackup",
   "sync"}

Task ==
  [op: {"none", "load", "add", "forget"}, id: Ids, pc: ProgramCounters,
   loaded: SUBSET Ids, file: Inodes \cup {NoInode}]

TypeOK ==
  /\ crew \in Crews
  /\ names \in [{"json", "next", "backup"} -> Inodes \cup {NoInode}]
  /\ content \in [Inodes -> Content]
  /\ task \in [Actors -> Task]
  /\ saved \in SUBSET Ids
  /\ gaps \in 0..2

Rest ==
  [op |-> "none", id |-> CHOOSE id \in Ids : TRUE, pc |-> "idle",
   loaded |-> {}, file |-> NoInode]

Init ==
  /\ crew \in Crews
  /\ names = [n \in {"json", "next", "backup"} |-> NoInode]
  /\ content = [i \in Inodes |-> Torn]
  /\ task = [a \in Actors |-> Rest]
  /\ saved = {}
  /\ gaps = 0

\* Calls of a lone thread may fail and its process may die.  With more threads
\* nothing fails but what another one does first.
Alone == \E a \in DOMAIN crew : DOMAIN crew = {a}

At(a, pc) == task[a].pc = pc

Present(n) == names[n] # NoInode

\* The path registry.json is missing although there are records to hold.
Gap == ~Present("json") /\ saved # {}

Continue(a, t) == task' = [task EXCEPT ![a] = t]

GoTo(a, pc) == Continue(a, [task[a] EXCEPT !.pc = pc])

\* Thread a is in save, past load and past what add or forget looks at.
Saving(a) == task[a].pc \notin {"idle", "loadJson", "loadBackup", "change"}

\* The call is over, with a value or an error, or its process is.  Only a save
\* counts that leaves registry.json missing.
End(a) ==
  /\ Continue(a, Rest)
  /\ gaps' = IF Alone /\ Gap /\ Saving(a) /\ gaps < 2 THEN gaps + 1 ELSE gaps

Unlink(n) == names' = [names EXCEPT ![n] = NoInode]

Rename(from, to) ==
  names' = [names EXCEPT ![from] = NoInode, ![to] = names[from]]

-----------------------------------------------------------------------------
(* load                                                                     *)

Start(a, op, id) ==
  /\ At(a, "idle")
  /\ Continue(a, [Rest EXCEPT !.op = op, !.id = id, !.pc = "loadJson"])
  /\ UNCHANGED <<names, content, saved, gaps>>

\* The bytes are parsed: a file that is not written to its end is an error.
Reads(a, n) ==
  /\ Present(n)
  /\ content[names[n]].whole
  /\ Continue(a, [task[a] EXCEPT !.pc = "change",
                                 !.loaded = content[names[n]].ids])
  /\ UNCHANGED <<names, content, saved, gaps>>

ReadsTorn(a, n) ==
  /\ Present(n)
  /\ ~content[names[n]].whole
  /\ End(a)
  /\ UNCHANGED <<names, content, saved>>

LoadJson(a) == At(a, "loadJson") /\ Reads(a, "json")

LoadNoJson(a) ==
  /\ At(a, "loadJson")
  /\ ~Present("json")
  /\ GoTo(a, "loadBackup")
  /\ UNCHANGED <<names, content, saved, gaps>>

\* Mutant: the backup is never looked at.
NoBackup(a) ==
  /\ At(a, "loadBackup")
  /\ Continue(a, [task[a] EXCEPT !.pc = "change", !.loaded = {}])
  /\ UNCHANGED <<names, content, saved, gaps>>

\* Mutant: the backup is gone once it is read.
TakesBackup(a) ==
  /\ At(a, "loadBackup")
  /\ Present("backup")
  /\ Unlink("backup")
  /\ Continue(a, [task[a] EXCEPT !.pc = "change",
                                 !.loaded = content[names["backup"]].ids])
  /\ UNCHANGED <<content, saved, gaps>>

LoadBackup(a) == At(a, "loadBackup") /\ Reads(a, "backup")

\* Neither file: an empty registry.
LoadNothing(a) ==
  /\ At(a, "loadBackup")
  /\ ~Present("backup")
  /\ Continue(a, [task[a] EXCEPT !.pc = "change", !.loaded = {}])
  /\ UNCHANGED <<names, content, saved, gaps>>

LoadFails(a) ==
  \/ At(a, "loadJson") /\ ReadsTorn(a, "json")
  \/ At(a, "loadBackup") /\ ReadsTorn(a, "backup")

-----------------------------------------------------------------------------
(* add and forget, on what was loaded                                       *)

\* load returns; forget finds no record to drop.
Unchanging(a) ==
  /\ At(a, "change")
  /\ \/ task[a].op = "load"
     \/ task[a].op = "forget" /\ task[a].id \notin task[a].loaded
  /\ End(a)
  /\ UNCHANGED <<names, content, saved>>

Change(a) ==
  /\ At(a, "change")
  /\ \/ /\ task[a].op = "add"
        /\ Continue(a, [task[a] EXCEPT !.pc = "clearNext",
                                       !.loaded = @ \cup {task[a].id}])
     \/ /\ task[a].op = "forget"
        /\ task[a].id \in task[a].loaded
        /\ Continue(a, [task[a] EXCEPT !.pc = "clearNext",
                                       !.loaded = @ \ {task[a].id}])
  /\ UNCHANGED <<names, content, saved, gaps>>

-----------------------------------------------------------------------------
(* save                                                                     *)

ClearNext(a) ==
  /\ At(a, "clearNext")
  /\ Unlink("next")
  /\ GoTo(a, "create")
  /\ UNCHANGED <<content, saved, gaps>>

\* create_new: registry.next must not exist.
Create(a, i) ==
  /\ At(a, "create")
  /\ ~Present("next")
  /\ \A n \in DOMAIN names : names[n] # i
  /\ \A b \in Actors : task[b].file # i
  /\ names' = [names EXCEPT !["next"] = i]
  /\ content' = [content EXCEPT ![i] = Torn]
  /\ Continue(a, [task[a] EXCEPT !.pc = "write", !.file = i])
  /\ UNCHANGED <<saved, gaps>>

\* Another save created it since it was cleared.
CreateRefused(a) ==
  /\ At(a, "create")
  /\ Present("next")
  /\ End(a)
  /\ UNCHANGED <<names, content, saved>>

\* Mutant: the file is opened again, by its name, to be written.
WriteByName(a) ==
  /\ At(a, "write")
  /\ content' = IF Present("next")
                THEN [content EXCEPT ![names["next"]] = Written(task[a].loaded)]
                ELSE content
  /\ Continue(a, [task[a] EXCEPT !.pc = "clearBackup", !.file = NoInode])
  /\ UNCHANGED <<names, saved, gaps>>

\* Mutant: the file is still open when it is renamed.
WriteKeepsOpen(a) ==
  /\ At(a, "write")
  /\ content' = [content EXCEPT ![task[a].file] = Written(task[a].loaded)]
  /\ GoTo(a, "clearBackup")
  /\ UNCHANGED <<names, saved, gaps>>

\* Write and sync, through the handle: whatever name the file has by now.
Write(a) ==
  /\ At(a, "write")
  /\ content' = [content EXCEPT ![task[a].file] = Written(task[a].loaded)]
  /\ Continue(a, [task[a] EXCEPT !.pc = "clearBackup", !.file = NoInode])
  /\ UNCHANGED <<names, saved, gaps>>

ClearBackup(a) ==
  /\ At(a, "clearBackup")
  /\ Unlink("backup")
  /\ GoTo(a, "exists")
  /\ UNCHANGED <<content, saved, gaps>>

Exists(a) ==
  /\ At(a, "exists")
  /\ GoTo(a, IF Present("json") THEN "moveAside" ELSE "replace")
  /\ UNCHANGED <<names, content, saved, gaps>>

MoveAside(a) ==
  /\ At(a, "moveAside")
  /\ Present("json")
  /\ Rename("json", "backup")
  /\ GoTo(a, "replace")
  /\ UNCHANGED <<content, saved, gaps>>

\* Another save moved it since it was looked at.
MoveAsideRefused(a) ==
  /\ At(a, "moveAside")
  /\ ~Present("json")
  /\ End(a)
  /\ UNCHANGED <<names, content, saved>>

Replace(a) ==
  /\ At(a, "replace")
  /\ Present("next")
  /\ Rename("next", "json")
  /\ saved' = content[names["next"]].ids
  /\ GoTo(a, "dropBackup")
  /\ UNCHANGED <<content, gaps>>

\* The rename is refused, or another save took registry.next away.
ReplaceFails(a) ==
  /\ At(a, "replace")
  /\ Alone \/ ~Present("next")
  /\ GoTo(a, "restore")
  /\ UNCHANGED <<names, content, saved, gaps>>

Restore(a) ==
  /\ At(a, "restore")
  /\ Present("backup")
  /\ Rename("backup", "json")
  /\ Continue(a, Rest)
  /\ UNCHANGED <<content, saved, gaps>>

\* No backup to restore, or that rename fails too, which is ignored.
RestoreFails(a) ==
  /\ At(a, "restore")
  /\ Alone \/ ~Present("backup")
  /\ End(a)
  /\ UNCHANGED <<names, content, saved>>

DropBackup(a) ==
  /\ At(a, "dropBackup")
  /\ Unlink("backup")
  /\ GoTo(a, "sync")
  /\ UNCHANGED <<content, saved, gaps>>

Sync(a) ==
  /\ At(a, "sync")
  /\ End(a)
  /\ UNCHANGED <<names, content, saved>>

\* Any other call fails and its error is returned, or the process dies.
Interrupted(a) ==
  /\ Alone
  /\ task[a].pc \notin {"idle", "sync"}
  /\ End(a)
  /\ UNCHANGED <<names, content, saved>>

Load(a) ==
  \/ LoadJson(a) \/ LoadNoJson(a) \/ LoadBackup(a) \/ LoadNothing(a)
  \/ LoadFails(a)

Save(a) ==
  \/ Unchanging(a) \/ Change(a)
  \/ ClearNext(a) \/ (\E i \in Inodes : Create(a, i)) \/ CreateRefused(a)
  \/ Write(a) \/ ClearBackup(a) \/ Exists(a) \/ MoveAside(a)
  \/ MoveAsideRefused(a)
  \/ Replace(a) \/ ReplaceFails(a) \/ Restore(a) \/ RestoreFails(a)
  \/ DropBackup(a) \/ Sync(a)

Next ==
  /\ UNCHANGED crew
  /\ \E a \in DOMAIN crew :
       \/ \E op \in {"load", "add", "forget"}, id \in crew[a] : Start(a, op, id)
       \/ Load(a) \/ Save(a) \/ Interrupted(a)

Spec == Init /\ [][Next]_vars

-----------------------------------------------------------------------------
(* Properties                                                               *)

\* Variables have their types, and a thread holds a file open exactly while it
\* writes registry.next.
TypeInv ==
  /\ TypeOK
  /\ \A a \in Actors : At(a, "write") <=> task[a].file # NoInode

\* An interrupted save leaves nothing behind that a later load cannot parse or
\* that stops a later save, and saves that overlap leave no half written
\* registry.json or backup, although they may take each other's registry.next
\* while it is being written: what is not whole has its writer.
LeftoversAreHarmless ==
  /\ \A n \in {"json", "backup"} :
       Present(n) /\ ~content[names[n]].whole =>
         \E a \in DOMAIN crew : task[a].file = names[n]
  /\ Alone => \A a \in DOMAIN crew : At(a, "create") => ~Present("next")

\* A load returns what the last completed save wrote, whatever was interrupted
\* since and however often it is loaded, unless two saves ended in the gap
\* between the two renames: the second one removes the backup that the first
\* one left the records in.
LoadsAreCurrent ==
  Alone /\ gaps < 2 =>
    \A a \in DOMAIN crew : At(a, "change") => task[a].loaded = saved

Atomic == INSTANCE AtomicRegistry WITH held <- saved

\* Up to then add and forget of a lone thread are atomic: they take effect at
\* the rename of registry.next or not at all.
AtomicUnlessTwiceInterrupted ==
  Atomic!Init /\ [][Alone /\ gaps < 2 => Atomic!Next]_saved

\* "store.add(record.clone()).unwrap(); assert_eq!(store.load().unwrap().
\* installs, vec![record])" (registry.rs:753-754): once saves have put records
\* in registry.json and all threads are done, a load finds a registry.
SavedIsLoaded ==
  saved # {} /\ (\A a \in DOMAIN crew : At(a, "idle")) =>
    \E n \in {"json", "backup"} : Present(n) /\ content[names[n]].whole
=============================================================================
