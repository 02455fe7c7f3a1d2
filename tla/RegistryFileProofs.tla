------------------------- MODULE RegistryFileProofs -------------------------
(***************************************************************************)
(* Proofs about RegistryFile, for any crews, ids and inodes.  WritersInv   *)
(* is about saves that overlap: a file that is not whole has a writer.     *)
(* LoneInv is about one thread whose calls fail and whose process may die  *)
(* anywhere: where the last saved records are, whatever was interrupted.   *)
(***************************************************************************)
EXTENDS RegistryFile, TLAPS

Names == {"json", "next", "backup"}

-----------------------------------------------------------------------------
(* Types                                                                    *)

\* A thread at rest has its types, and no file open.
LEMMA Resting == Rest \in Task /\ Rest.pc = "idle" /\ Rest.file = NoInode
BY RegistryAssumption DEF Rest, Task, ProgramCounters

\* A thread goes on with local variables that fit its program counter.
LEMMA Continuing ==
  ASSUME TypeInv, NEW a \in Actors, NEW t \in Task, Continue(a, t),
         t.pc = "write" <=> t.file # NoInode,
         names' \in [Names -> Inodes \cup {NoInode}],
         content' \in [Inodes -> Content],
         saved' \in SUBSET Ids, gaps' \in 0..2, crew' = crew
  PROVE  TypeInv'
<1>1. task' \in [Actors -> Task] /\ task'[a] = t
      /\ \A b \in Actors \ {a} : task'[b] = task[b]
  BY DEF TypeInv, TypeOK, Continue
<1>2. TypeOK'
  BY <1>1 DEF TypeInv, TypeOK, Names
<1>3. \A b \in Actors : At(b, "write")' <=> task'[b].file # NoInode
  BY <1>1 DEF TypeInv, At
<1>4. QED
  BY <1>2, <1>3 DEF TypeInv

\* A thread that does not write goes on to another call.
LEMMA Moving ==
  ASSUME TypeInv, NEW a \in Actors, NEW pc \in ProgramCounters,
         GoTo(a, pc), pc # "write", ~At(a, "write"),
         names' \in [Names -> Inodes \cup {NoInode}],
         UNCHANGED <<crew, content, gaps>>, saved' \in SUBSET Ids
  PROVE  TypeInv'
<1> DEFINE t == [task[a] EXCEPT !.pc = pc]
<1>1. t \in Task /\ t.pc = pc /\ t.file = task[a].file
  BY DEF TypeInv, TypeOK, Task
<1>2. task[a].file = NoInode
  BY DEF TypeInv
<1>3. content' \in [Inodes -> Content] /\ gaps' \in 0..2
  BY DEF TypeInv, TypeOK
<1> HIDE DEF t
<1>4. Continue(a, t)
  BY DEF GoTo, t
<1>5. QED
  BY <1>1, <1>2, <1>3, <1>4, Continuing

\* A call that is over.
LEMMA Ending ==
  ASSUME TypeInv, NEW a \in Actors, End(a),
         UNCHANGED <<crew, names, content, saved>>
  PROVE  TypeInv'
<1>1. gaps' \in 0..2
  BY DEF TypeInv, TypeOK, End
<1>2. QED
  BY <1>1, Resting, Continuing DEF End, TypeInv, TypeOK, Names

\* The names of files, after one is taken away or given to another.
LEMMA Naming ==
  ASSUME TypeInv
  PROVE  /\ names \in [Names -> Inodes \cup {NoInode}]
         /\ \A n \in Names :
              Unlink(n) => names' \in [Names -> Inodes \cup {NoInode}]
         /\ \A m, n \in Names :
              Rename(m, n) => names' \in [Names -> Inodes \cup {NoInode}]
BY DEF TypeInv, TypeOK, Names, Unlink, Rename

\* Every call keeps the types.
LEMMA TypesStep ==
  ASSUME TypeInv, NEW a \in DOMAIN crew, crew' = crew,
         \/ \E op \in {"load", "add", "forget"}, id \in crew[a] :
              Start(a, op, id)
         \/ Load(a) \/ Save(a) \/ Interrupted(a)
  PROVE  TypeInv'
<1>1. a \in Actors /\ crew[a] \subseteq Ids
  BY RegistryAssumption DEF TypeInv, TypeOK
<1>2. /\ names \in [Names -> Inodes \cup {NoInode}]
      /\ content \in [Inodes -> Content] /\ gaps \in 0..2
      /\ saved \in SUBSET Ids /\ task[a] \in Task
      /\ ~At(a, "write") => task[a].file = NoInode
  BY <1>1 DEF TypeInv, TypeOK, Names
<1>3. ASSUME NEW op \in {"load", "add", "forget"}, NEW id \in crew[a],
             Start(a, op, id)
      PROVE  TypeInv'
  <2> DEFINE t == [Rest EXCEPT !.op = op, !.id = id, !.pc = "loadJson"]
  <2>1. t \in Task /\ t.pc # "write" /\ t.file = NoInode
    BY <1>1, Resting DEF Task, ProgramCounters
  <2> HIDE DEF t
  <2>2. Continue(a, t) /\ UNCHANGED <<names, content, saved, gaps>>
    BY <1>3 DEF Start, t
  <2>3. QED
    BY <1>1, <1>2, <2>1, <2>2, Continuing
<1>4. ASSUME NEW n \in {"json", "backup"}, Reads(a, n), ~At(a, "write")
      PROVE  TypeInv'
  <2> DEFINE t == [task[a] EXCEPT !.pc = "change",
                                  !.loaded = content[names[n]].ids]
  <2>1. content[names[n]].ids \in SUBSET Ids
    BY <1>2, <1>4 DEF Reads, Present, Content, Names
  <2>2. t \in Task /\ t.pc # "write" /\ t.file = NoInode
    BY <1>2, <1>4, <2>1 DEF Task, ProgramCounters
  <2> HIDE DEF t
  <2>3. Continue(a, t) /\ UNCHANGED <<names, content, saved, gaps>>
    BY <1>4 DEF Reads, t
  <2>4. QED
    BY <1>1, <1>2, <2>2, <2>3, Continuing
<1>5. CASE Load(a)
  <2>1. CASE LoadJson(a) \/ LoadBackup(a)
    BY <2>1, <1>4 DEF LoadJson, LoadBackup, At
  <2>2. CASE LoadNoJson(a)
    BY <2>2, <1>1, <1>2, Moving DEF LoadNoJson, At, ProgramCounters
  <2>3. CASE LoadNothing(a)
    <3> DEFINE t == [task[a] EXCEPT !.pc = "change", !.loaded = {}]
    <3>1. t \in Task /\ t.pc # "write" /\ t.file = NoInode
      BY <1>2, <2>3 DEF LoadNothing, At, Task, ProgramCounters
    <3> HIDE DEF t
    <3>2. Continue(a, t) /\ UNCHANGED <<names, content, saved, gaps>>
      BY <2>3 DEF LoadNothing, t
    <3>3. QED
      BY <1>1, <1>2, <3>1, <3>2, Continuing
  <2>4. CASE LoadFails(a)
    BY <2>4, <1>1, Ending DEF LoadFails, ReadsTorn
  <2>5. QED
    BY <1>5, <2>1, <2>2, <2>3, <2>4 DEF Load
<1>6. CASE Change(a)
  <2>1. /\ task[a].loaded \cup {task[a].id} \in SUBSET Ids
        /\ task[a].loaded \ {task[a].id} \in SUBSET Ids
    BY <1>2 DEF Task
  <2>2. PICK ids \in SUBSET Ids :
          /\ Continue(a, [task[a] EXCEPT !.pc = "clearNext", !.loaded = ids])
          /\ UNCHANGED <<names, content, saved, gaps>>
    BY <2>1, <1>6 DEF Change
  <2> DEFINE t == [task[a] EXCEPT !.pc = "clearNext", !.loaded = ids]
  <2>3. t \in Task /\ t.pc # "write" /\ t.file = NoInode
    BY <1>2, <1>6 DEF Change, At, Task, ProgramCounters
  <2> HIDE DEF t
  <2>4. Continue(a, t)
    BY <2>2 DEF t
  <2>5. QED
    BY <1>1, <1>2, <2>2, <2>3, <2>4, Continuing
<1>7. ASSUME NEW i \in Inodes, Create(a, i)
      PROVE  TypeInv'
  <2> DEFINE t == [task[a] EXCEPT !.pc = "write", !.file = i]
  <2>1. t \in Task /\ t.pc = "write" /\ t.file # NoInode
    BY <1>2, RegistryAssumption DEF Task, ProgramCounters
  <2> HIDE DEF t
  <2>2. Continue(a, t) /\ UNCHANGED <<saved, gaps>>
    BY <1>7 DEF Create, t
  <2>3. names' \in [Names -> Inodes \cup {NoInode}]
    BY <1>2, <1>7 DEF Create, Names
  <2>4. content' \in [Inodes -> Content]
    BY <1>2, <1>7 DEF Create, Content, Torn
  <2>5. QED
    BY <1>1, <1>2, <2>1, <2>2, <2>3, <2>4, Continuing
<1>8. CASE Write(a)
  <2> DEFINE t == [task[a] EXCEPT !.pc = "clearBackup", !.file = NoInode]
  <2>1. t \in Task /\ t.pc # "write" /\ t.file = NoInode
    BY <1>2 DEF Task, ProgramCounters
  <2> HIDE DEF t
  <2>2. Continue(a, t) /\ UNCHANGED <<names, saved, gaps>>
    BY <1>8 DEF Write, t
  <2>3. content' \in [Inodes -> Content]
    BY <1>2, <1>8 DEF Write, Content, Written, Task
  <2>4. QED
    BY <1>1, <1>2, <2>1, <2>2, <2>3, Continuing
<1>9. CASE ClearNext(a) \/ ClearBackup(a) \/ DropBackup(a)
  BY <1>9, <1>1, <1>2, Naming, Moving
     DEF ClearNext, ClearBackup, DropBackup, At, ProgramCounters, Names
<1>10. CASE Exists(a) \/ ReplaceFails(a)
  BY <1>10, <1>1, <1>2, Moving DEF Exists, ReplaceFails, At, ProgramCounters
<1>11. CASE MoveAside(a)
  BY <1>11, <1>1, <1>2, Naming, Moving
     DEF MoveAside, At, ProgramCounters, Names
<1>12. CASE Replace(a)
  <2>1. saved' \in SUBSET Ids
    BY <1>2, <1>12 DEF Replace, Present, Content, Names
  <2>2. names' \in [Names -> Inodes \cup {NoInode}]
    BY <1>12, Naming DEF Replace, Names
  <2>3. QED
    BY <1>12, <1>1, <2>1, <2>2, Moving DEF Replace, At, ProgramCounters
<1>13. CASE Restore(a)
  <2>1. names' \in [Names -> Inodes \cup {NoInode}]
    BY <1>13, Naming DEF Restore, Names
  <2>2. QED
    BY <1>13, <1>1, <1>2, <2>1, Resting, Continuing DEF Restore
<1>14. CASE \/ Unchanging(a) \/ CreateRefused(a) \/ MoveAsideRefused(a)
            \/ RestoreFails(a) \/ Sync(a) \/ Interrupted(a)
  BY <1>14, <1>1, Ending
     DEF Unchanging, CreateRefused, MoveAsideRefused, RestoreFails, Sync,
         Interrupted
<1>15. QED
  BY <1>3, <1>5, <1>6, <1>7, <1>8, <1>9, <1>10, <1>11, <1>12, <1>13, <1>14
     DEF Save

-----------------------------------------------------------------------------
(* Files that are not whole                                                 *)

\* No two names are of one file.
Distinct ==
  \A m, n \in Names : m # n /\ names[m] = names[n] => names[m] = NoInode

\* A file that is not whole has its writer.
Sound(n) ==
  Present(n) /\ ~content[names[n]].whole =>
    \E b \in DOMAIN crew : task[b].file = names[n]

WritersInv ==
  /\ Distinct
  /\ Sound("json") /\ Sound("backup")
  /\ ~Alone => Sound("next")

\* The file that a save of a lone thread is at, between its calls.
OwnNext(a) ==
  /\ At(a, "create") => ~Present("next")
  /\ At(a, "write") => Present("next") /\ names["next"] = task[a].file
  /\ task[a].pc \in {"clearBackup", "exists", "moveAside", "replace"} =>
       Present("next") /\ content[names["next"]] = Written(task[a].loaded)

LoneNext == Alone => \A a \in DOMAIN crew : OwnNext(a)

\* A name that is taken away, or that stands for a file as before.
LEMMA Soundness ==
  ASSUME TypeInv, NEW a \in Actors, NEW t, Continue(a, t),
         NEW m, NEW n \in Names, Sound(m),
         UNCHANGED <<crew, content>>,
         names'[n] = NoInode \/ names'[n] = names[m],
         task[a].file # NoInode => t.file = task[a].file
                                   \/ names[m] # task[a].file
  PROVE  Sound(n)'
<1> SUFFICES ASSUME Present(n)', ~content'[names'[n]].whole
             PROVE  \E b \in DOMAIN crew' : task'[b].file = names'[n]
  BY DEF Sound
<1>1. names'[n] = names[m] /\ Present(m)
  BY DEF Present
<1>2. PICK b \in DOMAIN crew : task[b].file = names[m]
  BY <1>1 DEF Sound
<1>3. b \in Actors
  BY RegistryAssumption DEF TypeInv, TypeOK
<1>4. task'[b].file = names[m]
  BY <1>1, <1>2, <1>3 DEF Continue, TypeInv, TypeOK, Present
<1>5. QED
  BY <1>1, <1>2, <1>4

\* A step that writes nothing, and gives a name only to a file that is sound.
LEMMA Tidying ==
  ASSUME TypeInv, WritersInv, NEW a \in Actors, NEW t, Continue(a, t),
         ~At(a, "write"), UNCHANGED <<crew, content>>,
         \/ names' = names
         \/ \E n \in Names : Unlink(n)
         \/ Rename("json", "backup") \/ Rename("backup", "json")
         \/ Sound("next") /\ Rename("next", "json")
  PROVE  WritersInv'
<1>1. names \in [Names -> Inodes \cup {NoInode}]
  BY Naming
<1>2. task[a].file = NoInode
  BY DEF TypeInv
<1>3. \A m, n \in Names :
        Sound(m) /\ (names'[n] = NoInode \/ names'[n] = names[m]) => Sound(n)'
  BY <1>2, Soundness
<1>4. \A n \in Names : Unlink(n) =>
        \A k \in Names : names'[k] = IF k = n THEN NoInode ELSE names[k]
  BY <1>1 DEF Unlink
<1>5. \A m, n \in Names : m # n /\ Rename(m, n) =>
        \A k \in Names : names'[k] = IF k = n THEN names[m]
                                     ELSE IF k = m THEN NoInode ELSE names[k]
  BY <1>1 DEF Rename
<1>6. Distinct'
  BY <1>4, <1>5 DEF WritersInv, Distinct, Names
<1>7. /\ \/ names'["json"] = NoInode \/ names'["json"] = names["json"]
         \/ names'["json"] = names["backup"]
         \/ Sound("next") /\ names'["json"] = names["next"]
      /\ \/ names'["backup"] = NoInode \/ names'["backup"] = names["backup"]
         \/ names'["backup"] = names["json"]
      /\ \/ names'["next"] = NoInode \/ names'["next"] = names["next"]
  BY <1>4, <1>5 DEF Names
<1>8. Sound("json")' /\ Sound("backup")'
  BY <1>3, <1>7 DEF WritersInv, Names
<1>9. ~Alone => Sound("next")'
  BY <1>3, <1>7 DEF WritersInv, Names
<1>10. QED
  BY <1>6, <1>8, <1>9 DEF WritersInv, Alone

\* One thread goes on with local variables of some kind.
LEMMA Continues ==
  ASSUME NEW a,
         \/ \E op \in {"load", "add", "forget"}, id \in crew[a] :
              Start(a, op, id)
         \/ Load(a) \/ Save(a) \/ Interrupted(a)
  PROVE  \E t : Continue(a, t)
BY DEF Start, Load, LoadJson, LoadNoJson, LoadBackup, LoadNothing, LoadFails,
       Reads, ReadsTorn, Save, Unchanging, Change, ClearNext, Create,
       CreateRefused, Write, ClearBackup, Exists, MoveAside, MoveAsideRefused,
       Replace, ReplaceFails, Restore, RestoreFails, DropBackup, Sync,
       Interrupted, End, GoTo

\* Saves that overlap leave every file whole or with its writer.
LEMMA WritersStep ==
  ASSUME TypeInv, WritersInv, LoneNext, NEW a \in DOMAIN crew, crew' = crew,
         \/ \E op \in {"load", "add", "forget"}, id \in crew[a] :
              Start(a, op, id)
         \/ Load(a) \/ Save(a) \/ Interrupted(a)
  PROVE  WritersInv'
<1>1. a \in Actors
  BY RegistryAssumption DEF TypeInv, TypeOK
<1>2. PICK t : Continue(a, t)
  BY Continues
<1>3. names \in [Names -> Inodes \cup {NoInode}]
      /\ content \in [Inodes -> Content]
  BY Naming DEF TypeInv, TypeOK
<1>4. ASSUME NEW i \in Inodes, Create(a, i)
      PROVE  WritersInv'
  <2>1. /\ names' = [names EXCEPT !["next"] = i]
        /\ content' = [content EXCEPT ![i] = Torn]
        /\ \A n \in Names : names[n] # i
        /\ task' = [task EXCEPT ![a] = [task[a] EXCEPT !.pc = "write", !.file = i]]
        /\ ~At(a, "write")
    BY <1>3, <1>4 DEF Create, Continue, At
  <2>2. names'["next"] = i /\ \A n \in Names \ {"next"} : names'[n] = names[n]
    BY <1>3, <2>1 DEF Names
  <2>3. Distinct'
    BY <2>1, <2>2 DEF WritersInv, Distinct
  <2>4. task'[a].file = i /\ \A b \in Actors \ {a} : task'[b] = task[b]
    BY <1>1, <2>1 DEF TypeInv, TypeOK, Task
  <2>5. task[a].file = NoInode
    BY <1>1, <2>1 DEF TypeInv
  <2>6. ASSUME NEW n \in {"json", "backup"}, Sound(n)
        PROVE  Sound(n)'
    <3> SUFFICES ASSUME Present(n)', ~content'[names'[n]].whole
                 PROVE  \E b \in DOMAIN crew' : task'[b].file = names'[n]
      BY DEF Sound
    <3>1. names'[n] = names[n] /\ Present(n) /\ names[n] # i
      BY <2>1, <2>2 DEF Present, Names
    <3>2. content'[names[n]] = content[names[n]]
      BY <1>3, <2>1, <3>1 DEF Names, Present
    <3>3. PICK b \in DOMAIN crew : task[b].file = names[n]
      BY <2>6, <3>1, <3>2 DEF Sound
    <3>4. b # a /\ b \in Actors
      BY <2>5, <3>1, <3>3, RegistryAssumption DEF TypeInv, TypeOK, Present
    <3>5. QED
      BY <2>4, <3>1, <3>3, <3>4
  <2>7. Sound("next")'
    BY <2>2, <2>4 DEF Sound
  <2>8. QED
    BY <2>3, <2>6, <2>7 DEF WritersInv
<1>5. CASE Write(a)
  <2>1. /\ content' = [content EXCEPT ![task[a].file] = Written(task[a].loaded)]
        /\ names' = names
        /\ task' = [task EXCEPT ![a] = [task[a] EXCEPT !.pc = "clearBackup",
                                                       !.file = NoInode]]
    BY <1>5 DEF Write, Continue
  <2>2. ASSUME NEW n \in Names, Sound(n)
        PROVE  Sound(n)'
    <3> SUFFICES ASSUME Present(n)', ~content'[names'[n]].whole
                 PROVE  \E b \in DOMAIN crew' : task'[b].file = names'[n]
      BY DEF Sound
    <3>1. Present(n) /\ names[n] \in Inodes
      BY <1>3, <2>1 DEF Present
    <3>2. names[n] # task[a].file /\ content'[names[n]] = content[names[n]]
      BY <1>3, <2>1, <3>1 DEF Written
    <3>3. PICK b \in DOMAIN crew : task[b].file = names[n]
      BY <2>1, <2>2, <3>1, <3>2 DEF Sound
    <3>4. b # a /\ b \in Actors
      BY <3>2, <3>3, RegistryAssumption DEF TypeInv, TypeOK
    <3>5. QED
      BY <2>1, <3>3, <3>4 DEF TypeInv, TypeOK
  <2>3. QED
    BY <2>1, <2>2 DEF WritersInv, Distinct, Alone, Names
<1>6. CASE Interrupted(a) /\ At(a, "write")
  <2>1. Alone /\ UNCHANGED <<names, content>>
    BY <1>6 DEF Interrupted
  <2>2. names["json"] # task[a].file /\ names["backup"] # task[a].file
    BY <1>6, <2>1 DEF LoneNext, OwnNext, WritersInv, Distinct, Names, Present
  <2>3. Sound("json")' /\ Sound("backup")'
    BY <1>1, <1>2, <2>1, <2>2, Soundness DEF WritersInv, Names
  <2>4. QED
    BY <2>1, <2>3 DEF WritersInv, Distinct, Alone
<1>7. CASE ~At(a, "write") /\ ~(\E i \in Inodes : Create(a, i))
  <2>1. content' = content
    BY <1>7 DEF Start, Load, LoadJson, LoadNoJson, LoadBackup, LoadNothing,
       LoadFails, Reads, ReadsTorn, Save, Unchanging, Change, ClearNext,
       CreateRefused, Write, ClearBackup, Exists, MoveAside, MoveAsideRefused,
       Replace, ReplaceFails, Restore, RestoreFails, DropBackup, Sync,
       Interrupted
  <2>2. Replace(a) => Sound("next")
    <3>1. CASE ~Alone
      BY <3>1 DEF WritersInv
    <3>2. ASSUME Alone, Replace(a)
          PROVE  content[names["next"]] = Written(task[a].loaded)
      BY <3>2 DEF Replace, At, LoneNext, OwnNext
    <3>3. \A ids : Written(ids).whole
      BY DEF Written
    <3>4. QED
      BY <3>1, <3>2, <3>3 DEF Sound
  <2>3. \/ names' = names
        \/ \E n \in Names : Unlink(n)
        \/ Rename("json", "backup") \/ Rename("backup", "json")
        \/ Replace(a) /\ Rename("next", "json")
    BY <1>7 DEF Start, Load, LoadJson, LoadNoJson, LoadBackup, LoadNothing,
       LoadFails, Reads, ReadsTorn, Save, Unchanging, Change, ClearNext,
       CreateRefused, Write, ClearBackup, Exists, MoveAside, MoveAsideRefused,
       Replace, ReplaceFails, Restore, RestoreFails, DropBackup, Sync,
       Interrupted, Names
  <2>4. QED
    BY <1>1, <1>2, <1>7, <2>1, <2>2, <2>3, Tidying
<1>8. At(a, "write") => Write(a) \/ Interrupted(a)
  BY DEF At, Start, Load, LoadJson, LoadNoJson, LoadBackup, LoadNothing,
     LoadFails, Save, Unchanging, Change, ClearNext, Create, CreateRefused,
     ClearBackup, Exists, MoveAside, MoveAsideRefused, Replace, ReplaceFails,
     Restore, RestoreFails, DropBackup, Sync
<1>9. QED
  BY <1>4, <1>5, <1>6, <1>7, <1>8

-----------------------------------------------------------------------------
(* One thread, whose calls are interrupted                                  *)

Holds(n) == Present(n) /\ content[names[n]] = Written(saved)

\* The last saved records are in registry.json, or only in the backup, or
\* nowhere.
Settled == Holds("json")

Aside == ~Present("json") /\ Holds("backup")

Bare == ~Present("json") /\ ~Present("backup")

\* A gap was left before, or there is nothing to lose.
Spent == gaps = 1 \/ saved = {}

\* Where the records are, call by call.
Kept(a) ==
  /\ task[a].pc \in {"idle", "loadJson", "change", "clearNext", "create",
                     "write", "clearBackup"} =>
       Settled \/ (Aside /\ Spent) \/ (Bare /\ saved = {})
  /\ At(a, "loadBackup") => (Aside /\ Spent) \/ (Bare /\ saved = {})
  /\ At(a, "exists") => Settled \/ (Bare /\ Spent)
  /\ At(a, "moveAside") => Settled
  /\ task[a].pc \in {"replace", "restore"} => Aside \/ (Bare /\ Spent)
  /\ task[a].pc \in {"dropBackup", "sync"} => Settled

\* What the thread has loaded, and then changed.
Knows(a) ==
  /\ At(a, "change") => task[a].loaded = saved
  /\ task[a].pc \in {"clearNext", "create", "write", "clearBackup", "exists",
                     "moveAside", "replace"} =>
       \/ task[a].op = "add" /\ task[a].loaded = saved \cup {task[a].id}
       \/ task[a].op = "forget" /\ task[a].loaded = saved \ {task[a].id}

Lone(a) == OwnNext(a) /\ (gaps < 2 => Kept(a) /\ Knows(a))

LoneInv == Alone => \A a \in DOMAIN crew : Lone(a)

\* A thread that ends leaves the records where the next call finds them, or a
\* second gap.
LEMMA Leaving ==
  ASSUME TypeInv, NEW a \in Actors, Alone, Lone(a), End(a),
         UNCHANGED <<names, content, saved>>
  PROVE  Lone(a)'
<1>1. task'[a].pc = "idle"
  BY Resting DEF End, Continue, TypeInv, TypeOK
<1>2. task[a].pc \in ProgramCounters /\ gaps \in 0..2
  BY DEF TypeInv, TypeOK, Task
<1>3. ASSUME gaps' < 2
      PROVE  Settled' \/ (Aside' /\ Spent') \/ (Bare' /\ saved' = {})
  <2>1. /\ gaps < 2
        /\ Gap /\ Saving(a) => gaps' = 1 /\ gaps = 0
        /\ ~(Gap /\ Saving(a)) => gaps' = gaps
    BY <1>2, <1>3 DEF End
  <2>2. /\ Settled \/ Aside \/ (Bare /\ Spent)
        /\ ~Saving(a) => Settled \/ (Aside /\ Spent) \/ (Bare /\ saved = {})
    BY <1>2, <2>1 DEF Lone, Kept, ProgramCounters, At, Spent, Saving
  <2>3. Settled' = Settled /\ Aside' = Aside /\ Bare' = Bare
    BY DEF Settled, Aside, Bare, Holds, Present
  <2>4. CASE Settled \/ ~Saving(a)
    BY <2>1, <2>2, <2>3, <2>4 DEF Spent
  <2>5. CASE Aside /\ Saving(a)
    BY <2>1, <2>3, <2>5 DEF Aside, Gap, Spent
  <2>6. CASE Bare /\ Spent /\ Saving(a)
    BY <2>1, <2>3, <2>6 DEF Bare, Gap, Spent
  <2>7. QED
    BY <2>2, <2>4, <2>5, <2>6
<1>4. QED
  BY <1>1, <1>3 DEF Lone, OwnNext, Kept, Knows, At

\* What one thread does to its local variables.
LEMMA Locals ==
  ASSUME TypeInv, NEW a \in Actors
  PROVE  /\ \A t : Continue(a, t) => task'[a] = t
         /\ \A pc : GoTo(a, pc) =>
              /\ task'[a].pc = pc /\ task'[a].loaded = task[a].loaded
              /\ task'[a].op = task[a].op /\ task'[a].id = task[a].id
              /\ task'[a].file = task[a].file
         /\ task[a] \in Task
<1>1. task[a] \in Task /\ task \in [Actors -> Task]
  BY DEF TypeInv, TypeOK
<1>2. \A t : Continue(a, t) => task'[a] = t
  BY <1>1 DEF Continue
<1>3. QED
  BY <1>1, <1>2 DEF GoTo, Task

\* What becomes of the three names.
LEMMA NamesAfter ==
  ASSUME TypeInv
  PROVE  /\ \A n \in Names : Unlink(n) =>
              \A k \in Names : names'[k] = IF k = n THEN NoInode ELSE names[k]
         /\ \A m, n \in Names : m # n /\ Rename(m, n) =>
              \A k \in Names : names'[k] = IF k = n THEN names[m]
                                  ELSE IF k = m THEN NoInode ELSE names[k]
BY Naming DEF Unlink, Rename

\* A load finds the records where they were left.
LEMMA LoneLoads ==
  ASSUME TypeInv, NEW a \in Actors, Alone, Lone(a),
         \/ \E op \in {"load", "add", "forget"}, id \in Ids : Start(a, op, id)
         \/ Load(a)
  PROVE  Lone(a)'
<1>1. ASSUME NEW op \in {"load", "add", "forget"}, NEW id \in Ids,
             Start(a, op, id)
      PROVE  Lone(a)'
  <2>1. task'[a].pc = "loadJson"
    BY <1>1, Locals, Resting DEF Start, Task
  <2>2. At(a, "idle") /\ UNCHANGED <<names, content, saved, gaps>>
    BY <1>1 DEF Start
  <2>3. QED
    BY <2>1, <2>2
       DEF Lone, OwnNext, Kept, Knows, At, Settled, Aside, Bare, Spent, Holds,
           Present
<1>2. ASSUME NEW n \in {"json", "backup"}, Reads(a, n),
             task[a].pc \in {"loadJson", "loadBackup"},
             gaps < 2 => Holds(n)
      PROVE  Lone(a)'
  <2>1. /\ task'[a].pc = "change"
        /\ task'[a].loaded = content[names[n]].ids
        /\ UNCHANGED <<names, content, saved, gaps>>
    BY <1>2, Locals DEF Reads, Task
  <2>2. gaps < 2 => task'[a].loaded = saved
    BY <1>2, <2>1 DEF Holds, Written
  <2>3. QED
    BY <1>2, <2>1, <2>2
       DEF Lone, OwnNext, Kept, Knows, At, Settled, Aside, Bare, Spent, Holds,
           Present
<1>3. CASE LoadJson(a)
  BY <1>2, <1>3
     DEF LoadJson, Reads, Lone, Kept, At, Settled, Aside, Bare, Present
<1>4. CASE LoadBackup(a)
  BY <1>2, <1>4 DEF LoadBackup, Reads, Lone, Kept, At, Aside, Bare, Present
<1>5. CASE LoadNoJson(a)
  <2>1. /\ task'[a].pc = "loadBackup" /\ At(a, "loadJson") /\ ~Present("json")
        /\ UNCHANGED <<names, content, saved, gaps>>
    BY <1>5, Locals DEF LoadNoJson
  <2>2. QED
    BY <2>1 DEF Lone, OwnNext, Kept, Knows, At, Settled, Aside, Bare, Spent,
                Holds, Present
<1>6. CASE LoadNothing(a)
  <2>1. /\ task'[a].pc = "change" /\ task'[a].loaded = {}
        /\ At(a, "loadBackup") /\ ~Present("backup")
        /\ UNCHANGED <<names, content, saved, gaps>>
    BY <1>6, Locals DEF LoadNothing, Task
  <2>2. QED
    BY <2>1 DEF Lone, OwnNext, Kept, Knows, At, Settled, Aside, Bare, Spent,
                Holds, Present
<1>7. CASE LoadFails(a)
  BY <1>7, Leaving DEF LoadFails, ReadsTorn
<1>8. QED
  BY <1>1, <1>3, <1>4, <1>5, <1>6, <1>7 DEF Load

\* Up to the renames registry.json and the backup are what they were.
LEMMA LoneWrites ==
  ASSUME TypeInv, Distinct, NEW a \in Actors, Alone, Lone(a),
         \/ Change(a) \/ ClearNext(a) \/ (\E i \in Inodes : Create(a, i))
         \/ Write(a)
  PROVE  Lone(a)'
<1>1. /\ names \in [Names -> Inodes \cup {NoInode}]
      /\ content \in [Inodes -> Content]
  BY Naming DEF TypeInv, TypeOK
<1>2. CASE Change(a)
  <2>1. /\ task'[a].pc = "clearNext"
        /\ \/ /\ task'[a].op = "add"
              /\ task'[a].loaded = task[a].loaded \cup {task'[a].id}
           \/ /\ task'[a].op = "forget"
              /\ task'[a].loaded = task[a].loaded \ {task'[a].id}
    <3>1. task[a] \in Task /\ \A t : Continue(a, t) => task'[a] = t
      BY Locals
    <3>2. PICK ids :
            /\ Continue(a, [task[a] EXCEPT !.pc = "clearNext", !.loaded = ids])
            /\ \/ /\ task[a].op = "add"
                  /\ ids = task[a].loaded \cup {task[a].id}
               \/ /\ task[a].op = "forget"
                  /\ ids = task[a].loaded \ {task[a].id}
      BY <1>2 DEF Change
    <3>3. task'[a] = [task[a] EXCEPT !.pc = "clearNext", !.loaded = ids]
      BY <3>1, <3>2
    <3>4. QED
      BY <3>1, <3>2, <3>3 DEF Task
  <2>2. At(a, "change") /\ UNCHANGED <<names, content, saved, gaps>>
    BY <1>2 DEF Change
  <2>3. QED
    BY <2>1, <2>2
       DEF Lone, OwnNext, Kept, Knows, At, Settled, Aside, Bare, Spent, Holds,
           Present
<1>3. ASSUME task[a].pc \in {"clearNext", "create", "write"},
             task'[a].pc \in {"create", "write", "clearBackup"},
             task'[a].op = task[a].op, task'[a].id = task[a].id,
             task'[a].loaded = task[a].loaded,
             OwnNext(a)', UNCHANGED <<saved, gaps>>,
             \A n \in {"json", "backup"} :
               /\ names'[n] = names[n]
               /\ Present(n) => content'[names[n]] = content[names[n]]
      PROVE  Lone(a)'
  BY <1>3 DEF Lone, Kept, Knows, At, Settled, Aside, Bare, Spent, Holds, Present
<1>4. CASE ClearNext(a)
  <2>1. \A k \in Names : names'[k] = IF k = "next" THEN NoInode ELSE names[k]
    BY <1>4, NamesAfter DEF ClearNext, Names
  <2>2. /\ At(a, "clearNext") /\ task'[a].pc = "create"
        /\ task'[a].op = task[a].op /\ task'[a].id = task[a].id
        /\ task'[a].loaded = task[a].loaded
        /\ UNCHANGED <<content, saved, gaps>>
    BY <1>4, Locals DEF ClearNext
  <2>3. OwnNext(a)'
    BY <2>1, <2>2 DEF OwnNext, At, Present, Names
  <2>4. QED
    BY <1>3, <2>1, <2>2, <2>3 DEF At, Names
<1>5. ASSUME NEW i \in Inodes, Create(a, i)
      PROVE  Lone(a)'
  <2>1. /\ names' = [names EXCEPT !["next"] = i]
        /\ content' = [content EXCEPT ![i] = Torn]
        /\ \A n \in Names : names[n] # i
        /\ At(a, "create") /\ UNCHANGED <<saved, gaps>>
    BY <1>1, <1>5 DEF Create
  <2>2. /\ task'[a].pc = "write" /\ task'[a].file = i
        /\ task'[a].op = task[a].op /\ task'[a].id = task[a].id
        /\ task'[a].loaded = task[a].loaded
    BY <1>5, Locals DEF Create, Task
  <2>3. /\ names'["next"] = i
        /\ \A n \in {"json", "backup"} :
             /\ names'[n] = names[n]
             /\ Present(n) => content'[names[n]] = content[names[n]]
    BY <1>1, <2>1 DEF Names, Present
  <2>4. OwnNext(a)'
    BY <2>2, <2>3, RegistryAssumption DEF OwnNext, At, Present
  <2>5. QED
    BY <1>3, <2>1, <2>2, <2>3, <2>4 DEF At
<1>6. CASE Write(a)
  <2>1. /\ content' = [content EXCEPT ![task[a].file] = Written(task[a].loaded)]
        /\ names' = names
        /\ At(a, "write") /\ UNCHANGED <<saved, gaps>>
    BY <1>6 DEF Write
  <2>2. /\ task'[a].pc = "clearBackup"
        /\ task'[a].op = task[a].op /\ task'[a].id = task[a].id
        /\ task'[a].loaded = task[a].loaded
    BY <1>6, Locals DEF Write, Task
  <2>3. Present("next") /\ names["next"] = task[a].file
    BY <2>1 DEF Lone, OwnNext
  <2>4. \A n \in {"json", "backup"} :
          Present(n) => content'[names[n]] = content[names[n]]
    BY <1>1, <2>1, <2>3 DEF Distinct, Names, Present
  <2>5. OwnNext(a)'
    BY <1>1, <2>1, <2>2, <2>3 DEF OwnNext, At, Present, Names
  <2>6. QED
    BY <1>3, <2>1, <2>2, <2>4, <2>5 DEF At
<1>7. QED
  BY <1>2, <1>4, <1>5, <1>6

\* The backup, the two renames, and the rename that takes the first one back.
LEMMA LoneRenames ==
  ASSUME TypeInv, Distinct, NEW a \in Actors, Alone, Lone(a),
         \/ ClearBackup(a) \/ Exists(a) \/ MoveAside(a) \/ Replace(a)
         \/ ReplaceFails(a) \/ Restore(a) \/ DropBackup(a)
  PROVE  Lone(a)'
<1>1. /\ names \in [Names -> Inodes \cup {NoInode}]
      /\ content \in [Inodes -> Content]
  BY Naming DEF TypeInv, TypeOK
<1>2. CASE ClearBackup(a)
  <2>1. \A k \in Names : names'[k] = IF k = "backup" THEN NoInode ELSE names[k]
    BY <1>2, NamesAfter DEF ClearBackup, Names
  <2>2. /\ At(a, "clearBackup") /\ task'[a].pc = "exists"
        /\ task'[a].op = task[a].op /\ task'[a].id = task[a].id
        /\ task'[a].loaded = task[a].loaded
        /\ UNCHANGED <<content, saved, gaps>>
    BY <1>2, Locals DEF ClearBackup
  <2>3. QED
    BY <2>1, <2>2
       DEF Lone, OwnNext, Kept, Knows, At, Settled, Aside, Bare, Spent, Holds,
           Present, Names
<1>3. CASE Exists(a)
  <2>1. /\ At(a, "exists")
        /\ task'[a].pc = IF Present("json") THEN "moveAside" ELSE "replace"
        /\ task'[a].op = task[a].op /\ task'[a].id = task[a].id
        /\ task'[a].loaded = task[a].loaded
        /\ UNCHANGED <<names, content, saved, gaps>>
    BY <1>3, Locals DEF Exists
  <2>2. QED
    BY <2>1 DEF Lone, OwnNext, Kept, Knows, At, Settled, Aside, Bare, Spent,
                Holds, Present
<1>4. CASE MoveAside(a)
  <2>1. \A k \in Names : names'[k] = IF k = "backup" THEN names["json"]
                                     ELSE IF k = "json" THEN NoInode
                                     ELSE names[k]
    BY <1>4, NamesAfter DEF MoveAside, Names
  <2>2. /\ At(a, "moveAside") /\ task'[a].pc = "replace"
        /\ task'[a].op = task[a].op /\ task'[a].id = task[a].id
        /\ task'[a].loaded = task[a].loaded
        /\ UNCHANGED <<content, saved, gaps>>
    BY <1>4, Locals DEF MoveAside
  <2>3. QED
    BY <2>1, <2>2
       DEF Lone, OwnNext, Kept, Knows, At, Settled, Aside, Bare, Spent, Holds,
           Present, Names
<1>5. CASE Replace(a)
  <2>1. \A k \in Names : names'[k] = IF k = "json" THEN names["next"]
                                     ELSE IF k = "next" THEN NoInode
                                     ELSE names[k]
    BY <1>5, NamesAfter DEF Replace, Names
  <2>2. /\ At(a, "replace") /\ Present("next") /\ task'[a].pc = "dropBackup"
        /\ saved' = content[names["next"]].ids
        /\ UNCHANGED <<content, gaps>>
    BY <1>5, Locals DEF Replace
  <2>3. content[names["next"]] = Written(task[a].loaded)
    BY <2>2 DEF Lone, OwnNext, At
  <2>4. saved' = task[a].loaded
    BY <2>2, <2>3 DEF Written
  <2>5. Settled'
    BY <2>1, <2>2, <2>3, <2>4 DEF Settled, Holds, Present, Names
  <2>6. QED
    BY <2>2, <2>5 DEF Lone, OwnNext, Kept, Knows, At
<1>6. CASE ReplaceFails(a)
  <2>1. /\ At(a, "replace") /\ task'[a].pc = "restore"
        /\ UNCHANGED <<names, content, saved, gaps>>
    BY <1>6, Locals DEF ReplaceFails
  <2>2. QED
    BY <2>1 DEF Lone, OwnNext, Kept, Knows, At, Settled, Aside, Bare, Spent,
                Holds, Present
<1>7. CASE Restore(a)
  <2>1. \A k \in Names : names'[k] = IF k = "json" THEN names["backup"]
                                     ELSE IF k = "backup" THEN NoInode
                                     ELSE names[k]
    BY <1>7, NamesAfter DEF Restore, Names
  <2>2. /\ At(a, "restore") /\ Present("backup") /\ task'[a].pc = "idle"
        /\ UNCHANGED <<content, saved, gaps>>
    BY <1>7, Locals, Resting DEF Restore
  <2>3. QED
    BY <2>1, <2>2
       DEF Lone, OwnNext, Kept, Knows, At, Settled, Aside, Bare, Spent, Holds,
           Present, Names
<1>8. CASE DropBackup(a)
  <2>1. \A k \in Names : names'[k] = IF k = "backup" THEN NoInode ELSE names[k]
    BY <1>8, NamesAfter DEF DropBackup, Names
  <2>2. /\ At(a, "dropBackup") /\ task'[a].pc = "sync"
        /\ UNCHANGED <<content, saved, gaps>>
    BY <1>8, Locals DEF DropBackup
  <2>3. QED
    BY <2>1, <2>2
       DEF Lone, OwnNext, Kept, Knows, At, Settled, Holds, Present, Names
<1>9. QED
  BY <1>2, <1>3, <1>4, <1>5, <1>6, <1>7, <1>8

\* Every call of a lone thread, completed or interrupted.
LEMMA LoneStep ==
  ASSUME TypeInv, Distinct, LoneInv, NEW a \in DOMAIN crew, crew' = crew,
         \/ \E op \in {"load", "add", "forget"}, id \in crew[a] :
              Start(a, op, id)
         \/ Load(a) \/ Save(a) \/ Interrupted(a)
  PROVE  LoneInv'
<1> SUFFICES ASSUME Alone
             PROVE  Lone(a)'
  BY DEF LoneInv, Alone
<1>1. a \in Actors /\ crew[a] \subseteq Ids /\ Lone(a)
  BY RegistryAssumption DEF TypeInv, TypeOK, LoneInv
<1>2. CASE \/ Unchanging(a) \/ CreateRefused(a) \/ MoveAsideRefused(a)
           \/ RestoreFails(a) \/ Sync(a) \/ Interrupted(a)
  BY <1>1, <1>2, Leaving
     DEF Unchanging, CreateRefused, MoveAsideRefused, RestoreFails, Sync,
         Interrupted
<1>3. QED
  BY <1>1, <1>2, LoneLoads, LoneWrites, LoneRenames DEF Save

-----------------------------------------------------------------------------
(* Theorems                                                                 *)

Inv == TypeInv /\ WritersInv /\ LoneInv

\* Without a registry there is nothing to lose.
LEMMA Initially ==
  ASSUME Init
  PROVE  Inv
<1>1. TypeInv
  BY Resting DEF Init, TypeInv, TypeOK, Content, Torn, At
<1>2. WritersInv
  BY DEF Init, WritersInv, Distinct, Sound, Present, Names
<1>3. \A a \in DOMAIN crew : task[a].pc = "idle"
  BY Resting, RegistryAssumption DEF Init
<1>4. LoneInv
  BY <1>3 DEF Init, LoneInv, Lone, OwnNext, Kept, Knows, Bare, Present, At
<1>5. QED
  BY <1>1, <1>2, <1>4 DEF Inv

\* Inv is inductive.
LEMMA Inductive ==
  ASSUME Inv, [Next]_vars
  PROVE  Inv'
<1>1. CASE Next
  <2>1. LoneNext
    BY DEF Inv, LoneInv, Lone, LoneNext
  <2>2. QED
    BY <1>1, <2>1, TypesStep, WritersStep, LoneStep DEF Next, Inv, WritersInv
<1>2. CASE UNCHANGED vars
  <2>1. UNCHANGED <<crew, names, content, task, saved, gaps>>
    BY <1>2 DEF vars
  <2>2. TypeInv'
    BY <2>1 DEF Inv, TypeInv, TypeOK, At
  <2>3. WritersInv'
    BY <2>1 DEF Inv, WritersInv, Distinct, Sound, Present, Alone
  <2>4. \A a : Lone(a) => Lone(a)'
    BY <2>1 DEF Lone, OwnNext, Kept, Knows, At, Settled, Aside, Bare, Spent,
                Holds, Present
  <2>5. LoneInv'
    BY <2>1, <2>4 DEF Inv, LoneInv, Alone
  <2>6. QED
    BY <2>2, <2>3, <2>5 DEF Inv
<1>3. QED
  BY <1>1, <1>2

\* Inv holds in every reachable state.
LEMMA Invariance == Spec => []Inv
<1>1. Init => Inv
  BY Initially
<1>2. Inv /\ [Next]_vars => Inv'
  BY Inductive
<1>3. QED
  BY <1>1, <1>2, PTL DEF Spec

\* The variables of the registry have their types, and a thread holds
\* registry.next open exactly while it writes it.
THEOREM RegistryTyped == Spec => []TypeInv
<1>1. Inv => TypeInv
  BY DEF Inv
<1>2. QED
  BY <1>1, Invariance, PTL

\* No interrupted save, and no saves that overlap, leave anything half written
\* that a load would read or that stops a save.
THEOREM NothingHalfWritten == Spec => []LeftoversAreHarmless
<1>1. ASSUME Inv
      PROVE  LeftoversAreHarmless
  <2>1. Sound("json") /\ Sound("backup")
    BY <1>1 DEF Inv, WritersInv
  <2>2. Alone => \A a \in DOMAIN crew : At(a, "create") => ~Present("next")
    BY <1>1 DEF Inv, LoneInv, Lone, OwnNext
  <2>3. QED
    BY <2>1, <2>2 DEF LeftoversAreHarmless, Sound
<1>2. QED
  BY <1>1, Invariance, PTL

\* Whatever was interrupted before, a load returns what the last completed save
\* wrote, up to the second gap.
THEOREM NothingForgotten == Spec => []LoadsAreCurrent
<1>1. Inv => LoadsAreCurrent
  BY DEF Inv, LoneInv, Lone, Knows, At, LoadsAreCurrent
<1>2. QED
  BY <1>1, Invariance, PTL

\* Up to the second gap the registry of a lone thread implements
\* AtomicRegistry: only the rename of registry.next changes what is saved, and
\* it adds or forgets one id.
THEOREM SavesAreAtomic == Spec => AtomicUnlessTwiceInterrupted
<1>1. Init => Atomic!Init
  BY DEF Init, Atomic!Init
<1>2. ASSUME Inv, [Next]_vars
      PROVE  [Alone /\ gaps < 2 => Atomic!Next]_saved
  <2> SUFFICES ASSUME saved' # saved, Alone, gaps < 2
               PROVE  Atomic!Next
    OBVIOUS
  <2>1. PICK a \in DOMAIN crew : Replace(a)
    BY <1>2 DEF vars, Next, Start, Load, LoadJson, LoadNoJson, LoadBackup,
       LoadNothing, LoadFails, Reads, ReadsTorn, Save, Unchanging, Change,
       ClearNext, Create, CreateRefused, Write, ClearBackup, Exists, MoveAside,
       MoveAsideRefused, ReplaceFails, Restore, RestoreFails, DropBackup, Sync,
       Interrupted
  <2>2. a \in Actors /\ Lone(a)
    BY <1>2, RegistryAssumption DEF Inv, LoneInv, TypeInv, TypeOK
  <2>3. content[names["next"]] = Written(task[a].loaded)
    BY <2>1, <2>2 DEF Replace, At, Lone, OwnNext
  <2>4. saved' = task[a].loaded
    BY <2>1, <2>3 DEF Replace, Written
  <2>5. task[a].id \in Ids
    BY <1>2, <2>2, Locals DEF Inv, Task
  <2>6. \/ saved' = saved \cup {task[a].id}
        \/ saved' = saved \ {task[a].id}
    BY <2>1, <2>2, <2>4 DEF Replace, At, Lone, Knows
  <2>7. QED
    BY <2>5, <2>6 DEF Atomic!Next, Atomic!Add, Atomic!Forget
<1>3. QED
  BY <1>1, <1>2, Invariance, PTL DEF Spec, AtomicUnlessTwiceInterrupted
=============================================================================
