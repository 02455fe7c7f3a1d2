-------------------------- MODULE GrabberAppProofs --------------------------
(***************************************************************************)
(* Proofs about GrabberApp, CatalogCache and CustomRecipes, for any number *)
(* of processes and recipes: what the window shows of the two stores and   *)
(* of its job, while commands change the stores beside it.                 *)
(***************************************************************************)
EXTENDS GrabberApp, TLAPS

-----------------------------------------------------------------------------
(* The store of recipes                                                     *)

\* An import has its answer when it is over, and its manifest is stored then;
\* what is stored under a key is a manifest of that key.
StoreInv ==
  /\ StoreTypeOK
  /\ ImportedMeansStored
  /\ \A p \in Importers : import[p].pc # "idle" => import[p].answer = "none"
  /\ \A k \in Keys :
       stored[k] # Absent => [key |-> k, content |-> stored[k]] \in Manifests

\* No key that is taken changes its content.
Immutable == \A k \in Keys : stored[k] # Absent => stored'[k] = stored[k]

\* A manifest is a key and a content, which is neither absent nor torn.
LEMMA ManifestsAre ==
  \A m \in Manifests :
    /\ m.key \in Keys /\ m.content \in Contents
    /\ m.content # Absent /\ m.content # Torn
    /\ m = [key |-> m.key, content |-> m.content]
<1>1. \A m \in Manifests : m \in [key: Keys, content: Contents]
  BY ManifestsAssumption
<1>2. Absent \notin Contents /\ Torn \notin Contents
  BY ManifestsAssumption
<1>3. QED
  BY <1>1, <1>2

\* Nothing is imported before an import.
LEMMA NoImportIs ==
  NoImport \in Import /\ NoImport.answer = "none" /\ NoImport.pc = "idle"
<1>1. (CHOOSE m \in Manifests : TRUE) \in Manifests
  BY ManifestsAssumption
<1>2. QED
  BY <1>1 DEF NoImport, Import

\* An import goes on, ends or is forgotten without a write.
LEMMA ImportGoesOn ==
  ASSUME StoreInv, NEW p \in Importers, NEW i \in Import,
         import' = [import EXCEPT ![p] = i], stored' = stored,
         i.answer = "imported" => stored[i.recipe.key] = i.recipe.content,
         i.pc # "idle" => i.answer = "none"
  PROVE  StoreInv' /\ Immutable
<1>1. \A q \in Importers : import'[q] = IF q = p THEN i ELSE import[q]
  BY DEF StoreInv, StoreTypeOK
<1>2. StoreTypeOK'
  BY DEF StoreInv, StoreTypeOK
<1>3. ImportedMeansStored'
  BY <1>1 DEF StoreInv, ImportedMeansStored, Loads
<1>4. \A q \in Importers : import'[q].pc # "idle" => import'[q].answer = "none"
  BY <1>1 DEF StoreInv
<1>5. QED
  BY <1>2, <1>3, <1>4 DEF StoreInv, Immutable

\* An import is called.
LEMMA ImportCalled ==
  ASSUME StoreInv, NEW p \in Importers, CallImport(p)
  PROVE  StoreInv' /\ Immutable
<1> DEFINE i == [NoImport EXCEPT !.pc = "read"]
<1>1. i \in Import /\ i.answer = "none"
  BY NoImportIs DEF Import
<1>2. import' = [import EXCEPT ![p] = i] /\ stored' = stored
  BY DEF CallImport
<1> HIDE DEF i
<1>3. QED
  BY <1>1, <1>2, ImportGoesOn

\* The answer of an import is no longer of use, or its process is gone.
LEMMA ImportForgotten ==
  ASSUME StoreInv, NEW p \in Importers, ForgetImport(p), stored' = stored
  PROVE  StoreInv' /\ Immutable
BY NoImportIs, ImportGoesOn DEF ForgetImport

\* A manifest is renamed to its place, where there was none.
LEMMA ImportPersists ==
  ASSUME StoreInv, NEW p \in Importers, Persist(p)
  PROVE  StoreInv' /\ Immutable
<1> DEFINE m == import[p].recipe
<1>1. import[p] \in Import /\ m \in Manifests
      /\ stored \in [Keys -> Contents \cup {Absent, Torn}]
      /\ import \in [Importers -> Import]
  BY DEF StoreInv, StoreTypeOK, Import
<1>2. m.key \in Keys /\ m.content \in Contents /\ m.content # Absent
      /\ m.content # Torn /\ [key |-> m.key, content |-> m.content] \in Manifests
  BY <1>1, ManifestsAre
<1>3. stored[m.key] = Absent /\ stored' = [stored EXCEPT ![m.key] = m.content]
  BY DEF Persist, Stores
<1>4. PICK answer \in {"imported", "failed"} : Ends(p, answer)
  BY DEF Persist
<1>5. \A q \in Importers :
        /\ import'[q].recipe = import[q].recipe
        /\ q # p => import'[q] = import[q]
        /\ import'[q] \in Import
  BY <1>1, <1>4 DEF Ends, Import
<1>6. import'[p].pc = "idle" /\ import'[p].answer = answer
  BY <1>1, <1>4 DEF Ends, Import
<1>7. \A k \in Keys : stored'[k] = IF k = m.key THEN m.content ELSE stored[k]
  BY <1>1, <1>3
<1>8. StoreTypeOK'
  <2>1. import' \in [Importers -> Import]
    BY <1>1, <1>4, <1>5 DEF Ends
  <2>2. QED
    BY <1>1, <1>2, <1>3, <2>1 DEF StoreTypeOK
<1>9. ImportedMeansStored'
  <2>1. ASSUME NEW q \in Importers, import'[q].answer = "imported"
        PROVE  stored'[import'[q].recipe.key] = import'[q].recipe.content
    <3>1. CASE q = p
      BY <1>2, <1>5, <1>7, <3>1
    <3>2. CASE q # p
      <4>1. import[q].answer = "imported" /\ import[q].recipe \in Manifests
        BY <1>1, <1>5, <2>1, <3>2 DEF Import
      <4>2. stored[import[q].recipe.key] = import[q].recipe.content
        BY <4>1 DEF StoreInv, ImportedMeansStored
      <4>3. import[q].recipe.key \in Keys /\ import[q].recipe.content # Absent
        BY <4>1, ManifestsAre
      <4>4. import[q].recipe.key # m.key
        BY <1>3, <4>2, <4>3
      <4>5. QED
        BY <1>5, <1>7, <4>2, <4>3, <4>4
    <3>3. QED
      BY <3>1, <3>2
  <2>2. Loads'
    BY <1>2, <1>7 DEF StoreInv, ImportedMeansStored, Loads
  <2>3. QED
    BY <2>1, <2>2 DEF ImportedMeansStored
<1>10. \A q \in Importers : import'[q].pc # "idle" => import'[q].answer = "none"
  BY <1>5, <1>6 DEF StoreInv
<1>11. \A k \in Keys :
         stored'[k] # Absent => [key |-> k, content |-> stored'[k]] \in Manifests
  BY <1>2, <1>7 DEF StoreInv
<1>12. Immutable
  BY <1>3, <1>7 DEF Immutable
<1>13. QED
  BY <1>8, <1>9, <1>10, <1>11, <1>12 DEF StoreInv

\* One step of an import.
LEMMA ImportKeeps ==
  ASSUME StoreInv, NEW p \in Importers, ImportStep(p)
  PROVE  StoreInv' /\ Immutable
<1>1. import[p] \in Import /\ import \in [Importers -> Import]
  BY DEF StoreInv, StoreTypeOK
<1>2. ASSUME NEW i \in Import, import' = [import EXCEPT ![p] = i],
             stored' = stored,
             i.answer = "imported" =>
               stored[i.recipe.key] = i.recipe.content,
             i.pc # "idle" => i.answer = "none"
      PROVE  StoreInv' /\ Immutable
  BY <1>2, ImportGoesOn
<1>3. import[p].pc # "idle" => import[p].answer = "none"
  BY DEF StoreInv
<1>4. ASSUME NEW m \in Manifests, Read(p, m)
      PROVE  StoreInv' /\ Immutable
  <2> DEFINE i == [import[p] EXCEPT !.pc = "exists", !.recipe = m]
  <2>1. import' = [import EXCEPT ![p] = i] /\ stored' = stored
    BY <1>1, <1>4 DEF Read
  <2>2. i \in Import /\ i.answer = "none"
    BY <1>1, <1>3, <1>4 DEF Import, Read, Reaches
  <2> HIDE DEF i
  <2>3. QED
    BY <1>2, <2>1, <2>2
<1>5. ASSUME NEW pc \in {"persist", "compare"}, Moves(p, pc), stored' = stored,
             import[p].answer = "none"
      PROVE  StoreInv' /\ Immutable
  <2> DEFINE i == [import[p] EXCEPT !.pc = pc]
  <2>1. import' = [import EXCEPT ![p] = i]
    BY <1>1, <1>5 DEF Moves
  <2>2. i \in Import /\ i.answer = "none"
    BY <1>1, <1>5 DEF Import
  <2> HIDE DEF i
  <2>3. QED
    BY <1>2, <1>5, <2>1, <2>2
<1>6. ASSUME NEW answer \in {"imported", "failed"}, Ends(p, answer),
             stored' = stored,
             answer = "imported" =>
               stored[import[p].recipe.key] = import[p].recipe.content
      PROVE  StoreInv' /\ Immutable
  <2> DEFINE i == [import[p] EXCEPT !.pc = "idle", !.answer = answer]
  <2>1. import' = [import EXCEPT ![p] = i]
    BY <1>1, <1>6 DEF Ends
  <2>2. i \in Import /\ i.answer = answer /\ i.pc = "idle"
        /\ i.recipe = import[p].recipe
    BY <1>1 DEF Import
  <2> HIDE DEF i
  <2>3. QED
    BY <1>2, <1>6, <2>1, <2>2
<1>7. CASE Exists(p)
  BY <1>3, <1>5, <1>7 DEF Exists, Reaches
<1>8. CASE Persist(p)
  BY <1>8, ImportPersists
<1>9. CASE PersistRefused(p)
  BY <1>3, <1>5, <1>9 DEF PersistRefused, Reaches
<1>10. CASE Compare(p)
  BY <1>6, <1>10 DEF Compare
<1>11. CASE ImportFails(p)
  BY <1>6, <1>11 DEF ImportFails
<1>12. QED
  BY <1>4, <1>7, <1>8, <1>9, <1>10, <1>11 DEF ImportStep

-----------------------------------------------------------------------------
(* The cache of the catalog                                                 *)

\* What a call knows: only what verified is stored, or answered; it has a file
\* open exactly while it writes, and begins to store with catalog.json.
CallOK(q) ==
  /\ client[q].pc # "idle" => client[q].answer = "none"
  /\ client[q].pc \in Storing \/ client[q].answer \in {"cached", "refreshed"} =>
       client[q].got = "catalog"
  /\ client[q].pc = "write" <=> client[q].file # "closed"
  /\ client[q].pc \notin Storing => client[q].part = "json"

\* How far a store is that no other one overlaps.
Undisturbed(p) ==
  /\ \A q \in Processes \ {p} : client[q].pc \notin Storing
  /\ client[p].answer # "refused"
  /\ client[p].answer = "refreshed" => Verifies(files["json"], files["sig"])
  /\ client[p].pc = "create" => files["next"] = "absent"
  /\ client[p].pc = "write" => client[p].file = "next"
  /\ client[p].pc \in {"unlink", "rename"} => files["next"] = Payload(p)
  /\ client[p].pc \in Storing /\ client[p].part = "sig" =>
       files["json"] = "catalog"

Signed == \A n \in Names : files[n] # "unsigned"

CacheInv ==
  /\ CacheTypeOK
  /\ \A q \in Processes : CallOK(q)
  /\ Signed
  /\ \A p \in Processes : lone = p => Undisturbed(p)

\* A call that is over does not change.
AnswersStay ==
  \A q \in Processes : client[q].pc = "idle" =>
    /\ client'[q].pc = "idle"
    /\ client'[q].answer = client[q].answer
    /\ client'[q].got = client[q].got

\* The calls of other processes than p are where they were; a file that one of
\* them writes may have got another name.
OthersStay(p) ==
  \A q \in Processes \ {p} :
    /\ client'[q].pc = client[q].pc
    /\ client'[q].part = client[q].part
    /\ client'[q].got = client[q].got
    /\ client'[q].answer = client[q].answer
    /\ client'[q].file = "closed" <=> client[q].file = "closed"

\* Before a call there is nothing to know.
LEMMA NoCallIs ==
  /\ NoCall \in Client /\ NoCall.pc = "idle" /\ NoCall.answer = "none"
  /\ NoCall.file = "closed" /\ NoCall.part = "json" /\ NoCall.got = "absent"
BY DEF NoCall, Client, Names, Bytes, Answers

\* One call changes, no file does, and it stores neither before nor after.
LEMMA CallGoesOn ==
  ASSUME CacheInv, NEW p \in Processes, NEW c \in Client,
         client' = [client EXCEPT ![p] = c], UNCHANGED <<files, lone>>,
         c.pc \notin Storing, c.answer \notin {"refused", "refreshed"},
         c.pc # "idle" => c.answer = "none",
         c.answer = "cached" => c.got = "catalog", c.file = "closed",
         c.part = "json"
  PROVE  CacheInv'
<1>1. /\ \A q \in Processes : client'[q] = IF q = p THEN c ELSE client[q]
      /\ client' \in [Processes -> Client]
  BY DEF CacheInv, CacheTypeOK
<1>2. CacheTypeOK' /\ Signed'
  BY <1>1 DEF CacheInv, CacheTypeOK, Signed
<1>3. \A q \in Processes : CallOK(q)'
  BY <1>1 DEF CacheInv, CallOK, Storing
<1>4. ASSUME NEW q \in Processes, lone' = q
      PROVE  Undisturbed(q)'
  <2>1. Undisturbed(q)
    BY <1>4 DEF CacheInv
  <2>2. QED
    BY <1>1, <2>1 DEF Undisturbed, Storing, Payload
<1>5. QED
  BY <1>2, <1>3, <1>4 DEF CacheInv

\* A process calls refresh or load_fresh.
LEMMA CallBegins ==
  ASSUME CacheInv, NEW p \in Processes, NEW pc \in {"fetch", "loadCatalog"},
         Call(p, pc)
  PROVE  CacheInv'
<1> DEFINE c == [NoCall EXCEPT !.pc = pc]
<1>1. /\ c \in Client /\ c.pc = pc /\ c.answer = "none"
      /\ c.file = "closed" /\ c.part = "json"
  BY NoCallIs DEF Client
<1>2. client' = [client EXCEPT ![p] = c] /\ UNCHANGED <<files, lone>>
  BY DEF Call
<1> HIDE DEF c
<1>3. QED
  BY <1>1, <1>2, CallGoesOn DEF Storing

\* An answer that was taken, or the call of a process that is gone.
LEMMA CallForgotten ==
  ASSUME CacheInv, NEW p \in Processes, Forget(p), UNCHANGED <<files, lone>>
  PROVE  CacheInv'
BY NoCallIs, CallGoesOn DEF Forget, Storing

\* A call that does not store ends with an answer.
LEMMA CallAnswers ==
  ASSUME CacheInv, NEW p \in Processes,
         NEW answer \in {"failed", "missing", "cached"}, NEW got \in Bytes,
         answer = "cached" => got = "catalog",
         Replies(p, answer, got), UNCHANGED <<files, lone>>
  PROVE  CacheInv'
<1> DEFINE c == [NoCall EXCEPT !.answer = answer, !.got = got]
<1>1. /\ c \in Client /\ c.pc = "idle" /\ c.answer = answer
      /\ c.got = got /\ c.file = "closed" /\ c.part = "json"
  BY NoCallIs DEF Client, Answers
<1>2. client' = [client EXCEPT ![p] = c]
  BY DEF Replies
<1> HIDE DEF c
<1>3. QED
  BY <1>1, <1>2, CallGoesOn DEF Storing

\* A download verifies and its store begins, or it does not and nothing does.
LEMMA FetchKeeps ==
  ASSUME CacheInv, NEW p \in Processes, NEW data \in {"catalog", "unsigned"},
         Fetch(p, data)
  PROVE  CacheInv' /\ OthersStay(p)
<1>1. client \in [Processes -> Client] /\ client[p] \in Client
      /\ client[p].pc = "fetch" /\ lone \in Processes \cup {Nobody}
  BY DEF CacheInv, CacheTypeOK, Fetch, At
<1>2. CASE ~Verifies(data, "signature")
  <2>1. Replies(p, "failed", "absent") /\ UNCHANGED <<files, lone>>
    BY <1>2 DEF Fetch
  <2>2. CacheInv'
    BY <2>1, CallAnswers DEF Bytes
  <2>3. QED
    BY <1>1, <2>1, <2>2 DEF Replies, OthersStay
<1>3. CASE Verifies(data, "signature")
  <2> DEFINE c == [client[p] EXCEPT !.pc = "clear", !.got = "catalog"]
  <2>1. client' = [client EXCEPT ![p] = c] /\ files' = files
        /\ lone' = IF \E q \in Processes \ {p} : client[q].pc \in Storing
                   THEN Nobody ELSE p
    BY <1>1, <1>3 DEF Fetch, Verifies
  <2>2. c \in Client /\ c.pc = "clear" /\ c.got = "catalog"
        /\ c.answer = client[p].answer /\ c.file = client[p].file
        /\ c.part = client[p].part
    BY <1>1 DEF Client, Storing, Bytes
  <2>3. CallOK(p)
    BY DEF CacheInv
  <2> HIDE DEF c
  <2>4. \A q \in Processes : client'[q] = IF q = p THEN c ELSE client[q]
    BY <1>1, <2>1
  <2>5. CacheTypeOK' /\ Signed'
    BY <1>1, <2>1, <2>2, <2>4 DEF CacheInv, CacheTypeOK, Signed
  <2>6. \A q \in Processes : CallOK(q)'
    BY <1>1, <2>2, <2>3, <2>4 DEF CacheInv, CallOK, Storing
  <2>7. ASSUME NEW q \in Processes, lone' = q
        PROVE  Undisturbed(q)'
    <3>1. q = p /\ \A r \in Processes \ {p} : client[r].pc \notin Storing
      BY <2>1, <2>7, CacheAssumption
    <3>2. QED
      BY <1>1, <2>1, <2>2, <2>3, <2>4, <3>1
      DEF Undisturbed, CallOK, Storing
  <2>8. QED
    BY <2>4, <2>5, <2>6, <2>7 DEF CacheInv, OthersStay
<1>4. QED
  BY <1>2, <1>3

\* What a storing call needs to know of itself, and that no other one stores if
\* it is the lone one.
LEMMA StoringCall ==
  ASSUME CacheInv, NEW p \in Processes, client[p].pc \in Storing,
         NEW q \in Processes, lone = q
  PROVE  q = p /\ Undisturbed(p)
<1>1. Undisturbed(q)
  BY DEF CacheInv
<1>2. QED
  BY <1>1 DEF Undisturbed

\* A storing call goes on, or is refused, and changes the files; the invariant
\* is left to show for it alone.
LEMMA StoreGoesOn ==
  ASSUME CacheInv, NEW p \in Processes, client[p].pc \in Storing,
         lone' = lone,
         files' \in [Names -> Bytes], \A n \in Names : files'[n] # "unsigned",
         client' \in [Processes -> Client], OthersStay(p), CallOK(p)',
         Undisturbed(p) => Undisturbed(p)'
  PROVE  CacheInv'
<1>1. CacheTypeOK' /\ Signed'
  BY DEF CacheInv, CacheTypeOK, Signed
<1>2. \A q \in Processes : CallOK(q)'
  BY DEF CacheInv, CallOK, OthersStay
<1>3. ASSUME NEW q \in Processes, lone' = q
      PROVE  Undisturbed(q)'
  BY <1>3, StoringCall
<1>4. QED
  BY <1>1, <1>2, <1>3 DEF CacheInv

\* Which file a process writes to is what Unlink and Rename change for others.
LEMMA Unlinking ==
  ASSUME CacheInv, NEW p \in Processes, NEW n \in Names, NEW pc \in Storing,
         Unlink(p, n, pc), client[p].pc \in Storing, pc # "write",
         client[p].pc # "write"
  PROVE  /\ client' \in [Processes -> Client] /\ OthersStay(p)
         /\ files' = [files EXCEPT ![n] = "absent"] /\ lone' = lone
         /\ files' \in [Names -> Bytes]
         /\ \A m \in Names : files'[m] # "unsigned"
         /\ client'[p] = [client[p] EXCEPT !.pc = pc]
         /\ client'[p].pc = pc /\ client'[p].part = client[p].part
         /\ client'[p].got = client[p].got
         /\ client'[p].answer = client[p].answer
         /\ CallOK(p)'
<1>1. client \in [Processes -> Client] /\ client[p] \in Client
      /\ files \in [Names -> Bytes]
  BY DEF CacheInv, CacheTypeOK
<1>2. [client[p] EXCEPT !.pc = pc] \in Client
      /\ \A q \in Processes :
           [client[q] EXCEPT !.file = "unlinked"] \in Client
  BY <1>1 DEF Client, Storing
<1>3. \A q \in Processes : client'[q] =
        IF q = p THEN [client[p] EXCEPT !.pc = pc]
        ELSE IF client[q].file = n THEN [client[q] EXCEPT !.file = "unlinked"]
        ELSE client[q]
  BY DEF Unlink
<1>4. client' \in [Processes -> Client]
  BY <1>1, <1>2 DEF Unlink
<1>5. OthersStay(p)
  <2>1. ASSUME NEW q \in Processes \ {p}
        PROVE  /\ client'[q].pc = client[q].pc
               /\ client'[q].part = client[q].part
               /\ client'[q].got = client[q].got
               /\ client'[q].answer = client[q].answer
               /\ client'[q].file = "closed" <=> client[q].file = "closed"
    <3>1. client[q] \in Client /\ n # "closed"
      BY <1>1 DEF Names
    <3>2. CASE client[q].file = n
      <4>1. client'[q] = [client[q] EXCEPT !.file = "unlinked"]
        BY <1>3, <3>2
      <4>2. QED
        BY <3>1, <3>2, <4>1 DEF Client
    <3>3. CASE client[q].file # n
      BY <1>3, <3>3
    <3>4. QED
      BY <3>2, <3>3
  <2>2. QED
    BY <2>1 DEF OthersStay
<1>6. files' = [files EXCEPT ![n] = "absent"] /\ lone' = lone
      /\ files' \in [Names -> Bytes]
      /\ \A m \in Names : files'[m] # "unsigned"
  BY <1>1 DEF Unlink, CacheInv, Signed, Bytes
<1>7. /\ client'[p] = [client[p] EXCEPT !.pc = pc]
      /\ client'[p].pc = pc /\ client'[p].part = client[p].part
      /\ client'[p].got = client[p].got /\ client'[p].file = client[p].file
      /\ client'[p].answer = client[p].answer
  BY <1>1, <1>3 DEF Client
<1>8. CallOK(p)'
  <2>1. CallOK(p)
    BY DEF CacheInv
  <2>2. client[p].pc # "idle" /\ pc # "idle"
    BY DEF Storing
  <2>3. QED
    BY <1>7, <2>1, <2>2 DEF CallOK
<1>9. QED
  BY <1>4, <1>5, <1>6, <1>7, <1>8

\* The leftover of an earlier store is removed, and then the old file.
LEMMA UnlinksKeep ==
  ASSUME CacheInv, NEW p \in Processes, Clear(p) \/ UnlinkOld(p)
  PROVE  CacheInv' /\ OthersStay(p)
<1>1. client[p] \in Client /\ files \in [Names -> Bytes]
  BY DEF CacheInv, CacheTypeOK
<1>2. CASE Clear(p)
  <2>1. Unlink(p, "next", "create") /\ client[p].pc = "clear"
    BY <1>2 DEF Clear, At
  <2>2. "next" \in Names /\ "create" \in Storing /\ client[p].pc \in Storing
        /\ client[p].pc # "write" /\ "create" # "write"
    BY <2>1 DEF Names, Storing
  <2>3. /\ client' \in [Processes -> Client] /\ OthersStay(p)
        /\ files' = [files EXCEPT !["next"] = "absent"] /\ lone' = lone
        /\ files' \in [Names -> Bytes]
        /\ \A m \in Names : files'[m] # "unsigned"
        /\ client'[p].pc = "create" /\ client'[p].part = client[p].part
        /\ client'[p].answer = client[p].answer
        /\ CallOK(p)'
    BY <2>1, <2>2, Unlinking
  <2>4. Undisturbed(p) => Undisturbed(p)'
    <3>1. files'["next"] = "absent" /\ files'["json"] = files["json"]
          /\ files'["sig"] = files["sig"]
      BY <1>1, <2>3 DEF Names
    <3>2. QED
      BY <2>1, <2>2, <2>3, <3>1 DEF Undisturbed, OthersStay
  <2>5. QED
    BY <2>1, <2>2, <2>3, <2>4, StoreGoesOn
<1>3. CASE UnlinkOld(p)
  <2> DEFINE part == client[p].part
  <2>1. Unlink(p, part, "rename") /\ client[p].pc = "unlink"
    BY <1>3 DEF UnlinkOld, At
  <2>2. part \in Names /\ part # "next" /\ part \in {"json", "sig"}
        /\ "rename" \in Storing /\ "unlink" \in Storing
    BY <1>1 DEF Names, Storing, Client
  <2>3. /\ client' \in [Processes -> Client] /\ OthersStay(p)
        /\ files' = [files EXCEPT ![part] = "absent"] /\ lone' = lone
        /\ files' \in [Names -> Bytes]
        /\ \A m \in Names : files'[m] # "unsigned"
        /\ client'[p].pc = "rename" /\ client'[p].part = part
        /\ client'[p].got = client[p].got
        /\ client'[p].answer = client[p].answer
        /\ CallOK(p)'
    BY <2>1, <2>2, Unlinking
  <2>4. Undisturbed(p) => Undisturbed(p)'
    <3>1. files'["next"] = files["next"]
          /\ part = "sig" => files'["json"] = files["json"]
      BY <1>1, <2>2, <2>3 DEF Names
    <3>2. Payload(p)' = Payload(p)
      BY <2>3 DEF Payload
    <3>3. client[p].answer = "none"
      BY <2>1 DEF CacheInv, CallOK
    <3>4. QED
      BY <2>1, <2>2, <2>3, <3>1, <3>2, <3>3 DEF Undisturbed, OthersStay
  <2>5. QED
    BY <2>1, <2>2, <2>3, <2>4, StoreGoesOn
<1>4. QED
  BY <1>2, <1>3

\* catalog.next is created.
LEMMA CreateKeeps ==
  ASSUME CacheInv, NEW p \in Processes, Create(p)
  PROVE  CacheInv' /\ OthersStay(p)
<1> DEFINE c == [client[p] EXCEPT !.pc = "write", !.file = "next"]
<1>1. client \in [Processes -> Client] /\ client[p] \in Client
      /\ files \in [Names -> Bytes] /\ client[p].pc = "create"
  BY DEF CacheInv, CacheTypeOK, Create, At
<1>2. client[p].pc \in Storing /\ client[p].pc # "idle"
  BY <1>1 DEF Storing
<1>3. CallOK(p)
  BY DEF CacheInv
<1>4. client' = [client EXCEPT ![p] = c] /\ lone' = lone
      /\ files' = [files EXCEPT !["next"] = "torn"]
  BY <1>1 DEF Create
<1>5. c \in Client /\ c.pc = "write" /\ c.file = "next" /\ c.got = client[p].got
      /\ c.part = client[p].part /\ c.answer = client[p].answer
  BY <1>1 DEF Client, Storing, Names
<1> HIDE DEF c
<1>6. /\ client' \in [Processes -> Client] /\ client'[p] = c
      /\ \A q \in Processes \ {p} : client'[q] = client[q]
  BY <1>1, <1>4, <1>5
<1>7. OthersStay(p)
  BY <1>6 DEF OthersStay
<1>8. CallOK(p)'
  BY <1>2, <1>3, <1>5, <1>6 DEF CallOK, Storing
<1>9. files' \in [Names -> Bytes] /\ \A n \in Names : files'[n] # "unsigned"
  BY <1>1, <1>4 DEF CacheInv, Signed, Bytes
<1>10. Undisturbed(p) => Undisturbed(p)'
  <2>1. files'["json"] = files["json"] /\ files'["sig"] = files["sig"]
    BY <1>1, <1>4 DEF Names
  <2>2. QED
    BY <1>2, <1>3, <1>5, <1>6, <2>1 DEF Undisturbed, CallOK
<1>11. QED
  BY <1>2, <1>4, <1>6, <1>7, <1>8, <1>9, <1>10, StoreGoesOn

\* Another store's catalog.next is there, or is gone already: not if this store
\* is the lone one.
LEMMA RefusalKeeps ==
  ASSUME CacheInv, NEW p \in Processes, CreateRefused(p) \/ RenameRefused(p)
  PROVE  CacheInv' /\ OthersStay(p)
<1> DEFINE c == [NoCall EXCEPT !.answer = "refused", !.got = "absent"]
<1>1. client \in [Processes -> Client] /\ client[p] \in Client
      /\ client[p].pc \in {"create", "rename"} /\ files \in [Names -> Bytes]
  BY DEF CacheInv, CacheTypeOK, CreateRefused, RenameRefused, At
<1>2. client[p].pc \in Storing /\ client[p].pc # "idle"
  BY <1>1 DEF Storing
<1>3. client' = [client EXCEPT ![p] = c] /\ UNCHANGED <<files, lone>>
  BY DEF CreateRefused, RenameRefused, Replies
<1>4. c \in Client /\ c.pc = "idle" /\ c.answer = "refused"
      /\ c.file = "closed" /\ c.part = "json"
  BY NoCallIs DEF Client, Answers, Bytes
<1> HIDE DEF c
<1>5. /\ client' \in [Processes -> Client] /\ client'[p] = c
      /\ \A q \in Processes \ {p} : client'[q] = client[q]
  BY <1>1, <1>3, <1>4
<1>6. OthersStay(p)
  BY <1>5 DEF OthersStay
<1>7. CallOK(p)'
  BY <1>4, <1>5 DEF CallOK, Storing
<1>8. files' \in [Names -> Bytes] /\ \A n \in Names : files'[n] # "unsigned"
  BY <1>1, <1>3 DEF CacheInv, Signed
<1>9. Undisturbed(p) => FALSE
  <2>1. Payload(p) # "absent"
    BY <1>2 DEF CacheInv, CallOK, Payload
  <2>2. CASE CreateRefused(p)
    BY <2>2 DEF Undisturbed, CreateRefused, At
  <2>3. CASE RenameRefused(p)
    BY <2>1, <2>3 DEF Undisturbed, RenameRefused, At
  <2>4. QED
    BY <2>2, <2>3
<1>10. QED
  BY <1>2, <1>3, <1>5, <1>6, <1>7, <1>8, <1>9, StoreGoesOn

\* What was downloaded is written, under whatever name the file has by now.
LEMMA WriteKeeps ==
  ASSUME CacheInv, NEW p \in Processes, Write(p)
  PROVE  CacheInv' /\ OthersStay(p)
<1> DEFINE c == [client[p] EXCEPT !.pc = "unlink", !.file = "closed"]
<1>1. client \in [Processes -> Client] /\ client[p] \in Client
      /\ files \in [Names -> Bytes] /\ client[p].pc = "write"
  BY DEF CacheInv, CacheTypeOK, Write, At
<1>2. client[p].pc \in Storing /\ client[p].pc # "idle"
  BY <1>1 DEF Storing
<1>3. CallOK(p)
  BY DEF CacheInv
<1>4. client' = [client EXCEPT ![p] = c] /\ lone' = lone
      /\ files' = [n \in Names |->
                     IF n = client[p].file THEN Payload(p) ELSE files[n]]
  BY <1>1 DEF Write
<1>5. c \in Client /\ c.pc = "unlink" /\ c.file = "closed"
      /\ c.got = client[p].got /\ c.part = client[p].part
      /\ c.answer = client[p].answer
  BY <1>1 DEF Client, Storing
<1> HIDE DEF c
<1>6. /\ client' \in [Processes -> Client] /\ client'[p] = c
      /\ \A q \in Processes \ {p} : client'[q] = client[q]
  BY <1>1, <1>4, <1>5
<1>7. OthersStay(p)
  BY <1>6 DEF OthersStay
<1>8. CallOK(p)'
  BY <1>2, <1>3, <1>5, <1>6 DEF CallOK, Storing
<1>9. Payload(p) \in Bytes /\ Payload(p) # "unsigned"
  BY <1>2, <1>3 DEF Payload, CallOK, Bytes
<1>10. files' \in [Names -> Bytes] /\ \A n \in Names : files'[n] # "unsigned"
  BY <1>1, <1>4, <1>9 DEF CacheInv, Signed
<1>11. Undisturbed(p) => Undisturbed(p)'
  <2>1. ASSUME Undisturbed(p)
        PROVE  files'["next"] = Payload(p) /\ files'["json"] = files["json"]
    <3>1. client[p].file = "next"
      BY <1>1, <2>1 DEF Undisturbed
    <3>2. QED
      BY <1>4, <3>1 DEF Names
  <2>2. Payload(p)' = Payload(p)
    BY <1>5, <1>6 DEF Payload
  <2>3. client[p].answer = "none"
    BY <1>2, <1>3 DEF CallOK
  <2>4. QED
    BY <1>2, <1>5, <1>6, <2>1, <2>2, <2>3 DEF Undisturbed
<1>12. QED
  BY <1>2, <1>4, <1>6, <1>7, <1>8, <1>10, <1>11, StoreGoesOn

\* catalog.next becomes catalog.json, and then the signature; the store that
\* does this alone has put both there.
LEMMA RenameKeeps ==
  ASSUME CacheInv, NEW p \in Processes, Rename(p)
  PROVE  CacheInv' /\ OthersStay(p)
<1> DEFINE part == client[p].part
           c == IF part = "json"
                THEN [client[p] EXCEPT !.pc = "clear", !.part = "sig"]
                ELSE [NoCall EXCEPT !.answer = "refreshed",
                                    !.got = client[p].got]
<1>1. client \in [Processes -> Client] /\ client[p] \in Client
      /\ files \in [Names -> Bytes] /\ client[p].pc = "rename"
      /\ part \in {"json", "sig"}
  BY DEF CacheInv, CacheTypeOK, Rename, At, Client
<1>2. client[p].pc \in Storing /\ client[p].pc # "idle"
  BY <1>1 DEF Storing
<1>3. CallOK(p) /\ client[p].got = "catalog" /\ client[p].file = "closed"
  BY <1>1, <1>2 DEF CacheInv, CallOK
<1>4. /\ client' = [q \in Processes |->
            IF q # p THEN [client[q] EXCEPT !.file = Renamed(q, part)] ELSE c]
      /\ lone' = lone
      /\ files' = [files EXCEPT ![part] = files["next"], !["next"] = "absent"]
  BY DEF Rename
<1>5. /\ c \in Client /\ c.file = "closed" /\ c.got = "catalog"
      /\ part = "json" =>
           c.pc = "clear" /\ c.part = "sig" /\ c.answer = client[p].answer
      /\ part = "sig" =>
           c.pc = "idle" /\ c.part = "json" /\ c.answer = "refreshed"
  <2>1. CASE part = "json"
    BY <1>1, <1>3, <2>1 DEF Client, Storing
  <2>2. CASE part = "sig"
    BY <1>1, <1>3, <2>2, NoCallIs DEF Client, Answers
  <2>3. QED
    BY <1>1, <2>1, <2>2
<1> HIDE DEF c
<1>6. ASSUME NEW q \in Processes \ {p}
      PROVE  /\ client'[q] \in Client
             /\ client'[q].pc = client[q].pc
             /\ client'[q].part = client[q].part
             /\ client'[q].got = client[q].got
             /\ client'[q].answer = client[q].answer
             /\ client'[q].file = "closed" <=> client[q].file = "closed"
  <2>1. client'[q] = [client[q] EXCEPT !.file = Renamed(q, part)]
        /\ client[q] \in Client
    BY <1>1, <1>4, <1>6
  <2>2. Renamed(q, part) \in Names \cup {"closed", "unlinked"}
        /\ (Renamed(q, part) = "closed" <=> client[q].file = "closed")
    BY <1>1, <2>1 DEF Renamed, Client, Names
  <2>3. QED
    BY <2>1, <2>2 DEF Client
<1>7. client' \in [Processes -> Client] /\ client'[p] = c
  BY <1>4, <1>5, <1>6
<1>8. OthersStay(p)
  BY <1>6 DEF OthersStay
<1>9. CallOK(p)'
  <2>1. CASE part = "json"
    BY <1>2, <1>3, <1>5, <1>7, <2>1 DEF CallOK, Storing
  <2>2. CASE part = "sig"
    BY <1>5, <1>7, <2>2 DEF CallOK, Storing
  <2>3. QED
    BY <1>1, <2>1, <2>2
<1>10. files' \in [Names -> Bytes] /\ \A n \in Names : files'[n] # "unsigned"
  BY <1>1, <1>4 DEF CacheInv, Signed, Bytes, Names
<1>11. ASSUME Undisturbed(p)
       PROVE  Undisturbed(p)'
  <2>1. files["next"] = Payload(p)
    BY <1>1, <1>11 DEF Undisturbed
  <2>2. CASE part = "json"
    <3>1. files'["json"] = "catalog"
      BY <1>1, <1>3, <1>4, <2>1, <2>2 DEF Payload, Names
    <3>2. c.answer = "none" /\ c.pc = "clear" /\ c.part = "sig"
      BY <1>2, <1>3, <1>5, <2>2 DEF CallOK
    <3>3. QED
      BY <1>7, <1>11, <3>1, <3>2, <1>8 DEF Undisturbed, OthersStay
  <2>3. CASE part = "sig"
    <3>1. files'["json"] = "catalog" /\ files'["sig"] = "signature"
      BY <1>1, <1>2, <1>4, <1>11, <2>1, <2>3
      DEF Payload, Names, Undisturbed
    <3>2. c.answer = "refreshed" /\ c.pc = "idle"
      BY <1>5, <2>3
    <3>3. QED
      BY <1>7, <1>11, <3>1, <3>2, <1>8
      DEF Undisturbed, OthersStay, Verifies, Storing
  <2>4. QED
    BY <1>1, <2>2, <2>3
<1>12. QED
  BY <1>2, <1>4, <1>7, <1>8, <1>9, <1>10, <1>11, StoreGoesOn

\* One step of refresh or load_fresh.
LEMMA CacheKeeps ==
  ASSUME CacheInv, NEW p \in Processes, CacheStep(p)
  PROVE  CacheInv' /\ AnswersStay
<1>1. SUFFICES CacheInv' /\ OthersStay(p)
  <2>1. client[p].pc # "idle"
    BY DEF CacheStep, Fetch, Clear, Create, CreateRefused, Write, UnlinkOld,
           Rename, RenameRefused, LoadMissing, LoadCatalog, LoadSignature,
           CallFails, At
  <2>2. QED
    BY <2>1 DEF AnswersStay, OthersStay
<1>2. client \in [Processes -> Client] /\ client[p] \in Client
      /\ files \in [Names -> Bytes] /\ CallOK(p)
  BY DEF CacheInv, CacheTypeOK
<1>3. ASSUME NEW answer \in {"failed", "missing", "cached"}, NEW got \in Bytes,
             answer = "cached" => got = "catalog",
             Replies(p, answer, got), UNCHANGED <<files, lone>>
      PROVE  CacheInv' /\ OthersStay(p)
  <2>1. CacheInv'
    BY <1>3, CallAnswers
  <2>2. QED
    BY <1>2, <1>3, <2>1 DEF Replies, OthersStay
<1>4. "absent" \in Bytes
  BY DEF Bytes
<1>5. CASE \E data \in {"catalog", "unsigned"} : Fetch(p, data)
  BY <1>5, FetchKeeps
<1>6. CASE Clear(p) \/ UnlinkOld(p)
  BY <1>6, UnlinksKeep
<1>7. CASE Create(p)
  BY <1>7, CreateKeeps
<1>8. CASE CreateRefused(p) \/ RenameRefused(p)
  BY <1>8, RefusalKeeps
<1>9. CASE Write(p)
  BY <1>9, WriteKeeps
<1>10. CASE Rename(p)
  BY <1>10, RenameKeeps
<1>11. CASE LoadMissing(p)
  BY <1>3, <1>4, <1>11 DEF LoadMissing
<1>12. CASE LoadCatalog(p)
  <2> DEFINE c == [client[p] EXCEPT !.pc = "loadSignature",
                                    !.got = files["json"]]
  <2>1. client' = [client EXCEPT ![p] = c] /\ UNCHANGED <<files, lone>>
        /\ client[p].pc = "loadCatalog"
    BY <1>2, <1>12 DEF LoadCatalog, At
  <2>2. c \in Client /\ c.pc = "loadSignature" /\ c.answer = "none"
        /\ c.file = "closed" /\ c.part = "json"
    BY <1>2, <2>1 DEF Client, CallOK, Names, Storing
  <2> HIDE DEF c
  <2>3. CacheInv'
    BY <2>1, <2>2, CallGoesOn DEF Storing
  <2>4. QED
    BY <1>2, <2>1, <2>3 DEF OthersStay
<1>13. CASE LoadSignature(p)
  BY <1>2, <1>3, <1>4, <1>13 DEF LoadSignature, Verifies, Client
<1>14. CASE CallFails(p)
  BY <1>3, <1>4, <1>14 DEF CallFails
<1>15. QED
  BY <1>5, <1>6, <1>7, <1>8, <1>9, <1>10, <1>11, <1>12, <1>13, <1>14
  DEF CacheStep

-----------------------------------------------------------------------------
(* The window and its job                                                   *)

\* A recipe on the screen is the stored one, and an approved one is on the
\* screen as it was when its box was ticked.
ScreenInv ==
  /\ shown \in [Keys -> Contents \cup {Absent}]
  /\ approved \subseteq Keys /\ ticked \subseteq Manifests
  /\ \A k \in Keys : shown[k] # Absent => shown[k] = stored[k]
  /\ \A k \in approved :
       shown[k] # Absent /\ [key |-> k, content |-> shown[k]] \in ticked

Last == messages[Len(messages)]

\* A thread runs for a job, has sent nothing but progress, and finds its flag set
\* only after a click.
JobInv ==
  /\ phase \in {"down", "loading", "up"}
  /\ job \in {"none", "install", "refresh", "import"}
  /\ messages \in Seq({"progress"} \cup Results)
  /\ \A i \in 1..Len(messages) - 1 : messages[i] = "progress"
  /\ widgets \in Widgets /\ worker \in Worker
  /\ clicked \in BOOLEAN /\ session \in Sessions
  /\ phase # "up" => job = "none"
  /\ job = "none" => messages = <<>> /\ ~worker.running
  /\ messages # <<>> /\ Last = "progress" => job = "install"
  /\ worker.running => /\ messages # <<>> => Last = "progress"
                       /\ worker.cancel => clicked
  /\ CancelledByItsUser
  /\ WidgetsFollowTheJob

\* The catalog on the screen is bundled or verified, and a refresh that has
\* reported success still has its catalog.
CatalogInv ==
  /\ catalog \in {"bundled", "catalog"}
  /\ job = "refresh" /\ messages # <<>> /\ Last = "ok" =>
       client[Gui].pc = "idle" /\ client[Gui].answer = "refreshed"

Inv == StoreInv /\ CacheInv /\ ScreenInv /\ JobInv /\ CatalogInv

\* Everything is empty at first.
LEMMA Initially ==
  ASSUME Init
  PROVE  Inv
<1>1. StoreInv
  <2>1. StoreTypeOK
    BY NoImportIs DEF Init, StoreInit, StoreTypeOK
  <2>2. ImportedMeansStored
    BY NoImportIs, ManifestsAssumption
    DEF Init, StoreInit, ImportedMeansStored, Loads
  <2>3. QED
    BY <2>1, <2>2, NoImportIs DEF Init, StoreInit, StoreInv
<1>2. CacheInv
  <2>1. files \in [Names -> Bytes] /\ Signed
    <3>1. files \in {Pair("absent", "absent"), Pair("oldCatalog", "oldSignature")}
      BY DEF Init, CacheInit
    <3>2. QED
      BY <3>1 DEF Pair, Names, Bytes, Signed
  <2>2. CacheTypeOK
    BY <2>1, NoCallIs DEF Init, CacheInit, CacheTypeOK
  <2>3. \A q \in Processes : CallOK(q)
    BY NoCallIs DEF Init, CacheInit, CallOK, Storing
  <2>4. lone \notin Processes
    BY CacheAssumption DEF Init, CacheInit
  <2>5. QED
    BY <2>1, <2>2, <2>3, <2>4 DEF CacheInv
<1>3. ScreenInv
  BY DEF Init, ScreenInv
<1>4. NoWorker \in Worker /\ NoWidgets \in Widgets /\ ~NoWorker.running
  BY AppAssumption DEF NoWorker, NoWidgets, Worker, Widgets
<1>5. JobInv
  <2>1. /\ messages = <<>> /\ Len(messages) = 0
        /\ messages \in Seq({"progress"} \cup Results)
    BY DEF Init
  <2>2. CancelledByItsUser /\ WidgetsFollowTheJob
    BY <2>1 DEF Init, CancelledByItsUser, WidgetsFollowTheJob, NoWidgets
  <2>3. widgets \in Widgets /\ worker \in Worker /\ ~worker.running
        /\ session \in Sessions /\ clicked \in BOOLEAN
        /\ phase = "down" /\ job = "none"
    BY <1>4 DEF Init
  <2>4. \A i \in 1..Len(messages) - 1 : messages[i] = "progress"
    BY <2>1
  <2>5. QED
    BY <2>1, <2>2, <2>3, <2>4 DEF JobInv
<1>6. CatalogInv
  BY DEF Init, CatalogInv
<1>7. QED
  BY <1>1, <1>2, <1>3, <1>5, <1>6 DEF Inv

\* Every step of the program keeps the store: what is imported stays.
LEMMA StoreStep ==
  ASSUME StoreInv, Next
  PROVE  StoreInv' /\ Immutable
<1>1. ASSUME UNCHANGED storeVars
      PROVE  StoreInv' /\ Immutable
  BY <1>1 DEF storeVars, StoreInv, StoreTypeOK, ImportedMeansStored, Loads, Immutable
<1>2. Gui \in Importers /\ Clis \subseteq Importers /\ Processes = Importers
  BY AppAssumption DEF Clis
<1>3. ASSUME NEW p \in Importers, ForgetImport(p), UNCHANGED stored
      PROVE  StoreInv' /\ Immutable
  BY <1>3, ImportForgotten
<1>4. CASE Launch
  BY <1>1, <1>4 DEF Launch
<1>5. CASE Quit
  BY <1>2, <1>3, <1>5 DEF Quit
<1>6. CASE \E k \in Keys : Tick(k) \/ Untick(k)
  BY <1>1, <1>6 DEF Tick, Untick
<1>7. CASE \E recipe \in Offered, fisheye \in BOOLEAN :
             StartInstall(recipe, fisheye)
  BY <1>1, <1>7 DEF StartInstall
<1>8. CASE StartRefresh
  BY <1>1, <1>8 DEF StartRefresh
<1>9. CASE StartImport
  BY <1>2, <1>9, ImportCalled DEF StartImport
<1>10. CASE Cancel
  BY <1>1, <1>10 DEF Cancel
<1>11. CASE Loaded
  BY <1>1, <1>11 DEF Loaded
<1>12. CASE PollProgress
  BY <1>1, <1>12 DEF PollProgress
<1>13. CASE \E result \in Results : Poll(result)
  BY <1>2, <1>3, <1>13 DEF Poll
<1>14. CASE Report
  BY <1>1, <1>14 DEF Report
<1>15. CASE WorkerEnds
  BY <1>1, <1>15 DEF WorkerEnds, InstallEnds, RefreshEnds, ImportEnds, Sends
<1>16. ASSUME NEW p \in Clis, Command(p)
       PROVE  StoreInv' /\ Immutable
  <2>1. CASE CliRefresh(p) \/ CliList(p)
    BY <1>1, <2>1 DEF CliRefresh, CliList
  <2>2. CASE CliImport(p)
    BY <1>2, <2>2, ImportCalled DEF CliImport
  <2>3. CASE CliExit(p)
    BY <1>2, <1>3, <2>3 DEF CliExit
  <2>4. QED
    BY <1>16, <2>1, <2>2, <2>3 DEF Command
<1>17. CASE \E p \in Processes : Calls(p)
  BY <1>1, <1>2, <1>17, ImportKeeps DEF Calls
<1>18. QED
  BY <1>4, <1>5, <1>6, <1>7, <1>8, <1>9, <1>10, <1>11, <1>12, <1>13, <1>14,
     <1>15, <1>16, <1>17
  DEF Next, User, Polls

\* Every step of the program keeps the cache.
LEMMA CacheIsKept ==
  ASSUME CacheInv, Next
  PROVE  CacheInv'
<1>1. ASSUME UNCHANGED cacheVars
      PROVE  CacheInv'
  <2>1. UNCHANGED <<files, client, lone>>
    BY <1>1 DEF cacheVars
  <2>2. CacheTypeOK' /\ Signed'
    BY <2>1 DEF CacheInv, CacheTypeOK, Signed
  <2>3. \A q \in Processes : CallOK(q)'
    BY <2>1 DEF CacheInv, CallOK
  <2>4. \A q \in Processes : lone' = q => Undisturbed(q)'
    BY <2>1 DEF CacheInv, Undisturbed, Payload
  <2>5. QED
    BY <2>2, <2>3, <2>4 DEF CacheInv
<1>2. Gui \in Processes /\ Clis \subseteq Processes
  BY AppAssumption DEF Clis
<1>3. ASSUME NEW p \in Processes, Forget(p), UNCHANGED <<files, lone>>
      PROVE  CacheInv'
  BY <1>3, CallForgotten
<1>4. CASE Launch
  BY <1>2, <1>4, CallBegins DEF Launch
<1>5. CASE Quit
  BY <1>2, <1>3, <1>5 DEF Quit
<1>6. CASE \E k \in Keys : Tick(k) \/ Untick(k)
  BY <1>1, <1>6 DEF Tick, Untick
<1>7. CASE \E recipe \in Offered, fisheye \in BOOLEAN :
             StartInstall(recipe, fisheye)
  BY <1>1, <1>7 DEF StartInstall
<1>8. CASE StartRefresh
  BY <1>2, <1>8, CallBegins DEF StartRefresh
<1>9. CASE StartImport
  BY <1>1, <1>9 DEF StartImport
<1>10. CASE Cancel
  BY <1>1, <1>10 DEF Cancel
<1>11. CASE Loaded
  BY <1>2, <1>3, <1>11 DEF Loaded
<1>12. CASE PollProgress
  BY <1>1, <1>12 DEF PollProgress
<1>13. CASE \E result \in Results : Poll(result)
  BY <1>2, <1>3, <1>13 DEF Poll
<1>14. CASE Report
  BY <1>1, <1>14 DEF Report
<1>15. CASE WorkerEnds
  BY <1>1, <1>15 DEF WorkerEnds, InstallEnds, RefreshEnds, ImportEnds, Sends
<1>16. ASSUME NEW p \in Clis, Command(p)
       PROVE  CacheInv'
  <2>1. CASE CliRefresh(p) \/ CliList(p)
    BY <1>2, <2>1, CallBegins DEF CliRefresh, CliList
  <2>2. CASE CliImport(p)
    BY <1>1, <2>2 DEF CliImport
  <2>3. CASE CliExit(p)
    BY <1>2, <1>3, <2>3 DEF CliExit
  <2>4. QED
    BY <1>16, <2>1, <2>2, <2>3 DEF Command
<1>17. CASE \E p \in Processes : Calls(p)
  BY <1>1, <1>17, CacheKeeps DEF Calls
<1>18. QED
  BY <1>4, <1>5, <1>6, <1>7, <1>8, <1>9, <1>10, <1>11, <1>12, <1>13, <1>14,
     <1>15, <1>16, <1>17
  DEF Next, User, Polls

\* A tick is for what is on the screen, which the store keeps.
LEMMA ScreenStep ==
  ASSUME StoreInv, Immutable, StoreInv', ScreenInv, Next
  PROVE  ScreenInv'
<1>1. ASSUME UNCHANGED <<shown, approved, ticked>>
      PROVE  ScreenInv'
  BY <1>1 DEF ScreenInv, Immutable
<1>2. ASSUME NEW where, Reset(where)
      PROVE  ScreenInv'
  BY <1>2 DEF Reset, ScreenInv
<1>3. stored \in [Keys -> Contents \cup {Absent, Torn}]
  BY DEF StoreInv, StoreTypeOK
<1>4. CASE Launch \/ Quit
  BY <1>2, <1>4 DEF Launch, Quit
<1>5. ASSUME NEW k \in Keys, Tick(k) \/ Untick(k)
      PROVE  ScreenInv'
  <2> DEFINE m == [key |-> k, content |-> shown[k]]
  <2>1. shown' = shown /\ stored' = stored /\ shown[k] # Absent
    BY <1>5 DEF Tick, Untick, storeVars
  <2>2. m \in Manifests
    BY <2>1 DEF ScreenInv, StoreInv
  <2>3. \/ approved' = approved \cup {k}
           /\ ticked' = {n \in ticked : n.key # k} \cup {m}
        \/ approved' = approved \ {k}
           /\ ticked' = {n \in ticked : n.key # k}
    BY <1>5 DEF Tick, Untick
  <2>4. approved' \subseteq Keys /\ ticked' \subseteq Manifests
    BY <2>2, <2>3 DEF ScreenInv
  <2>5. ASSUME NEW a \in approved'
        PROVE  /\ shown[a] # Absent
               /\ [key |-> a, content |-> shown[a]] \in ticked'
    <3>1. CASE a = k
      BY <2>1, <2>3, <3>1
    <3>2. CASE a # k
      <4>1. a \in approved
        BY <2>3, <3>2
      <4>2. [key |-> a, content |-> shown[a]] \in ticked
        BY <4>1 DEF ScreenInv
      <4>3. [key |-> a, content |-> shown[a]].key # k
        BY <3>2
      <4>4. QED
        BY <2>3, <4>1, <4>2, <4>3 DEF ScreenInv
    <3>3. QED
      BY <3>1, <3>2
  <2>6. QED
    BY <2>1, <2>4, <2>5 DEF ScreenInv
<1>6. ASSUME approved' \subseteq approved, ticked' = ticked, stored' = stored,
             shown' = shown \/ (shown' = stored /\ Loads)
      PROVE  ScreenInv'
  <2>1. shown' \in [Keys -> Contents \cup {Absent}]
    BY <1>3, <1>6 DEF ScreenInv, Loads
  <2>2. \A k \in Keys : shown'[k] # Absent => shown'[k] = stored[k]
    BY <1>6 DEF ScreenInv
  <2>3. \A k \in approved : shown'[k] = shown[k]
    BY <1>6 DEF ScreenInv
  <2>4. QED
    BY <1>6, <2>1, <2>2, <2>3 DEF ScreenInv
<1>7. CASE \E recipe \in Offered, fisheye \in BOOLEAN :
             StartInstall(recipe, fisheye)
  BY <1>1, <1>7 DEF StartInstall, Spawn
<1>8. CASE StartRefresh
  BY <1>1, <1>8 DEF StartRefresh, Spawn
<1>9. CASE StartImport
  BY <1>1, <1>9 DEF StartImport, Spawn
<1>10. CASE Cancel
  BY <1>1, <1>10 DEF Cancel
<1>11. CASE Loaded
  BY <1>6, <1>11 DEF Loaded, storeVars
<1>12. CASE PollProgress
  BY <1>1, <1>12 DEF PollProgress
<1>13. CASE \E result \in Results : Poll(result)
  <2>1. PICK result \in Results : Poll(result)
    BY <1>13
  <2>2. approved' \subseteq approved /\ ticked' = ticked /\ stored' = stored
        /\ (shown' = shown \/ (shown' = stored /\ Loads))
    BY <2>1 DEF Poll, Result
  <2>3. QED
    BY <1>6, <2>2
<1>14. CASE Report
  BY <1>1, <1>14 DEF Report
<1>15. CASE WorkerEnds
  BY <1>1, <1>15 DEF WorkerEnds, InstallEnds, RefreshEnds, ImportEnds, Sends
<1>16. CASE \E p \in Clis : Command(p)
  BY <1>1, <1>16
  DEF Command, CliRefresh, CliList, CliImport, CliExit, guiVars
<1>17. CASE \E p \in Processes : Calls(p)
  BY <1>1, <1>17 DEF Calls, guiVars
<1>18. QED
  BY <1>4, <1>5, <1>7, <1>8, <1>9, <1>10, <1>11, <1>12, <1>13, <1>14, <1>15,
     <1>16, <1>17
  DEF Next, User, Polls

\* A message at the end of the channel.
LEMMA Sending ==
  ASSUME messages \in Seq({"progress"} \cup Results),
         NEW m \in {"progress"} \cup Results,
         messages' = Append(messages, m),
         \A i \in 1..Len(messages) - 1 : messages[i] = "progress",
         messages # <<>> => Last = "progress"
  PROVE  /\ messages' \in Seq({"progress"} \cup Results)
         /\ messages' # <<>> /\ Last' = m
         /\ \A i \in 1..Len(messages') - 1 : messages'[i] = "progress"
<1>1. /\ messages' \in Seq({"progress"} \cup Results)
      /\ Len(messages) \in Nat /\ Len(messages') = Len(messages) + 1
      /\ messages'[Len(messages')] = m
      /\ \A i \in 1..Len(messages) : messages'[i] = messages[i]
  OBVIOUS
<1>2. ASSUME NEW i \in 1..Len(messages') - 1
      PROVE  messages'[i] = "progress"
  <2>1. i \in 1..Len(messages) /\ messages # <<>>
    BY <1>1
  <2>2. CASE i = Len(messages)
    BY <1>1, <2>1, <2>2 DEF Last
  <2>3. CASE i # Len(messages)
    BY <1>1, <2>1, <2>3
  <2>4. QED
    BY <2>2, <2>3
<1>3. messages' # <<>>
  BY <1>1
<1>4. QED
  BY <1>1, <1>2, <1>3 DEF Last

\* A channel that was drained or is new.
LEMMA Drained ==
  ASSUME messages' = <<>>
  PROVE  /\ messages' \in Seq({"progress"} \cup Results)
         /\ \A i \in 1..Len(messages') - 1 : messages'[i] = "progress"
         /\ CancelledByItsUser'
BY DEF CancelledByItsUser

\* The widgets that a job sets and clears.
LEMMA WidgetsAre ==
  /\ NoWidgets \in Widgets
  /\ ~NoWidgets.label /\ ~NoWidgets.cancel /\ ~NoWidgets.progress
  /\ ~NoWidgets.refreshing /\ ~NoWidgets.fisheye
  /\ NoWorker \in Worker /\ ~NoWorker.running /\ ~NoWorker.cancel
BY AppAssumption DEF NoWidgets, Widgets, NoWorker, Worker

\* A job that starts has its own flag, channel and widgets.
LEMMA Spawning ==
  ASSUME JobInv, NEW kind \in {"install", "refresh", "import"},
         NEW w \in Widgets, NEW recipe \in Manifests \cup {Curated, NoRecipe},
         Spawn(kind, w, recipe),
         w.label, w.cancel <=> kind = "install",
         w.refreshing <=> kind = "refresh",
         w.progress \/ w.fisheye => kind = "install"
  PROVE  JobInv'
<1>1. /\ phase' = "up" /\ job' = kind /\ messages' = <<>> /\ widgets' = w
      /\ clicked' = FALSE /\ session' = session
      /\ worker' = [NoWorker EXCEPT !.running = TRUE, !.recipe = recipe]
  BY DEF Spawn
<1>2. worker' \in Worker /\ ~worker'.cancel
  <2>1. 0 \in 0..MaxReports
    BY AppAssumption
  <2>2. worker' = [running |-> TRUE, recipe |-> recipe, cancel |-> FALSE,
                   reports |-> 0]
    BY <1>1 DEF NoWorker
  <2>3. QED
    BY <2>1, <2>2 DEF Worker
<1>3. WidgetsFollowTheJob'
  BY <1>1 DEF WidgetsFollowTheJob
<1>4. QED
  BY <1>1, <1>2, <1>3, Drained DEF JobInv

\* The thread sends its result, and nothing after it.
LEMMA Ending ==
  ASSUME JobInv, NEW result \in Results, worker.running, Sends(result),
         result = "cancelled" => worker.cancel
  PROVE  JobInv'
<1>1. /\ UNCHANGED <<phase, job, widgets, clicked, session>>
      /\ messages' = Append(messages, result)
      /\ worker' = [worker EXCEPT !.running = FALSE, !.recipe = NoRecipe,
                                  !.reports = 0]
  BY DEF Sends
<1>2. worker' \in Worker /\ ~worker'.running
  <2>1. 0 \in 0..MaxReports /\ worker \in Worker
    BY AppAssumption DEF JobInv
  <2>2. worker' = [running |-> FALSE, recipe |-> NoRecipe,
                   cancel |-> worker.cancel, reports |-> 0]
    BY <1>1, <2>1 DEF Worker
  <2>3. QED
    BY <2>1, <2>2 DEF Worker
<1>3. /\ messages' \in Seq({"progress"} \cup Results)
      /\ messages' # <<>> /\ Last' = result
      /\ \A i \in 1..Len(messages') - 1 : messages'[i] = "progress"
  BY <1>1, Sending DEF JobInv
<1>4. result # "progress"
  BY DEF Results
<1>5. CancelledByItsUser'
  BY <1>1, <1>3 DEF JobInv, CancelledByItsUser, Last
<1>6. WidgetsFollowTheJob' /\ job # "none"
  BY <1>1 DEF JobInv, WidgetsFollowTheJob
<1>7. QED
  BY <1>1, <1>2, <1>3, <1>4, <1>5, <1>6 DEF JobInv

\* A result ends the job, and with it what the window shows of it.
LEMMA Polling ==
  ASSUME JobInv, NEW result \in Results, Poll(result)
  PROVE  JobInv'
<1>1. /\ UNCHANGED <<phase, worker, session>> /\ job # "none"
      /\ messages # <<>> /\ Last = result
      /\ messages' = <<>> /\ job' = "none" /\ clicked' = FALSE
      /\ widgets' = [NoWidgets EXCEPT
                       !.refreshing = widgets.refreshing /\ job # "refresh"]
  BY DEF Poll, Last, Cleared
<1>2. ~worker.running
  BY <1>1 DEF JobInv, Results
<1>3. ~(widgets.refreshing /\ job # "refresh")
  BY DEF JobInv, WidgetsFollowTheJob
<1>4. /\ widgets' \in Widgets
      /\ ~widgets'.label /\ ~widgets'.cancel /\ ~widgets'.progress
      /\ ~widgets'.refreshing /\ ~widgets'.fisheye
  BY <1>1, <1>3 DEF NoWidgets, Widgets
<1>5. WidgetsFollowTheJob'
  BY <1>1, <1>4 DEF WidgetsFollowTheJob
<1>6. QED
  BY <1>1, <1>2, <1>4, <1>5, Drained DEF JobInv

\* Every step of the program.
LEMMA JobStep ==
  ASSUME ScreenInv, StoreInv, JobInv, Next
  PROVE  JobInv'
<1>1. ASSUME UNCHANGED <<phase, job, messages, widgets, worker, clicked, session>>
      PROVE  JobInv'
  BY <1>1 DEF JobInv, Last, CancelledByItsUser, WidgetsFollowTheJob
<1>2. ASSUME NEW where \in {"down", "loading"}, Reset(where)
      PROVE  JobInv'
  <2>1. /\ phase' = where /\ job' = "none" /\ messages' = <<>>
        /\ widgets' = NoWidgets /\ worker' = NoWorker /\ clicked' = FALSE
        /\ session' = session
    BY <1>2 DEF Reset
  <2>2. WidgetsFollowTheJob'
    BY <2>1, WidgetsAre DEF WidgetsFollowTheJob
  <2>3. QED
    BY <2>1, <2>2, WidgetsAre, Drained DEF JobInv
<1>3. CASE Launch \/ Quit
  BY <1>2, <1>3 DEF Launch, Quit
<1>4. CASE \E k \in Keys : Tick(k) \/ Untick(k)
  BY <1>1, <1>4 DEF Tick, Untick
<1>5. ASSUME NEW recipe \in Offered, NEW fisheye \in BOOLEAN,
             StartInstall(recipe, fisheye)
      PROVE  JobInv'
  <2> DEFINE w == [widgets EXCEPT !.label = TRUE, !.cancel = TRUE,
                                  !.progress = FALSE, !.fisheye = fisheye]
  <2>1. Spawn("install", w, recipe) /\ job = "none"
    BY <1>5 DEF StartInstall, Spawn
  <2>2. w \in Widgets /\ w.label /\ w.cancel /\ w.refreshing = widgets.refreshing
    BY DEF JobInv, Widgets
  <2>3. ~widgets.refreshing
    BY <2>1 DEF JobInv, WidgetsFollowTheJob
  <2>4. recipe \in Manifests \cup {Curated, NoRecipe}
    BY DEF Offered, ScreenInv, StoreInv
  <2> HIDE DEF w
  <2>5. QED
    BY <2>1, <2>2, <2>3, <2>4, Spawning
<1>6. CASE StartRefresh
  <2> DEFINE w == [widgets EXCEPT !.label = TRUE, !.cancel = FALSE,
                                  !.refreshing = TRUE]
  <2>1. Spawn("refresh", w, NoRecipe) /\ job = "none"
    BY <1>6 DEF StartRefresh, Spawn
  <2>2. w \in Widgets /\ w.label /\ ~w.cancel /\ w.refreshing
        /\ w.progress = widgets.progress /\ w.fisheye = widgets.fisheye
    BY DEF JobInv, Widgets
  <2>3. ~(widgets.progress \/ widgets.fisheye)
    BY <2>1 DEF JobInv, WidgetsFollowTheJob
  <2> HIDE DEF w
  <2>4. QED
    BY <2>1, <2>2, <2>3, Spawning
<1>7. CASE StartImport
  <2> DEFINE w == [widgets EXCEPT !.label = TRUE, !.cancel = FALSE]
  <2>1. Spawn("import", w, NoRecipe) /\ job = "none"
    BY <1>7 DEF StartImport, Spawn
  <2>2. w \in Widgets /\ w.label /\ ~w.cancel
        /\ w.refreshing = widgets.refreshing
        /\ w.progress = widgets.progress /\ w.fisheye = widgets.fisheye
    BY DEF JobInv, Widgets
  <2>3. ~(widgets.progress \/ widgets.fisheye) /\ ~widgets.refreshing
    BY <2>1 DEF JobInv, WidgetsFollowTheJob
  <2> HIDE DEF w
  <2>4. QED
    BY <2>1, <2>2, <2>3, Spawning
<1>8. CASE Cancel
  <2>1. /\ UNCHANGED <<phase, job, messages, widgets, session>>
        /\ clicked' = TRUE /\ worker' = [worker EXCEPT !.cancel = TRUE]
    BY <1>8 DEF Cancel
  <2>2. worker' \in Worker /\ worker'.running = worker.running
    BY <2>1 DEF JobInv, Worker
  <2>3. CancelledByItsUser' /\ WidgetsFollowTheJob'
    BY <2>1 DEF JobInv, CancelledByItsUser, WidgetsFollowTheJob
  <2>4. QED
    BY <2>1, <2>2, <2>3 DEF JobInv, Last
<1>9. CASE Loaded
  <2>1. /\ phase' = "up"
        /\ UNCHANGED <<job, messages, widgets, worker, clicked, session>>
    BY <1>9 DEF Loaded
  <2>2. QED
    BY <2>1 DEF JobInv, Last, CancelledByItsUser, WidgetsFollowTheJob
<1>10. CASE PollProgress
  <2>1. /\ UNCHANGED <<phase, job, worker, clicked, session>>
        /\ messages # <<>> /\ Last = "progress" /\ messages' = <<>>
        /\ widgets' = [widgets EXCEPT !.progress = TRUE]
    BY <1>10 DEF PollProgress, Last
  <2>2. job = "install"
    BY <2>1 DEF JobInv
  <2>3. /\ widgets' \in Widgets
        /\ widgets'.label = widgets.label /\ widgets'.cancel = widgets.cancel
        /\ widgets'.refreshing = widgets.refreshing
    BY <2>1 DEF JobInv, Widgets
  <2>4. WidgetsFollowTheJob'
    BY <2>1, <2>2, <2>3 DEF JobInv, WidgetsFollowTheJob
  <2>5. QED
    BY <2>1, <2>2, <2>3, <2>4, Drained DEF JobInv
<1>11. CASE \E result \in Results : Poll(result)
  BY <1>11, Polling
<1>12. CASE Report
  <2>1. /\ UNCHANGED <<phase, job, widgets, clicked, session>>
        /\ messages' = Append(messages, "progress")
        /\ worker' = [worker EXCEPT !.reports = @ + 1]
        /\ worker.running /\ job = "install" /\ worker.reports < MaxReports
    BY <1>12 DEF Report
  <2>2. worker' \in Worker /\ worker'.running = worker.running
        /\ worker'.cancel = worker.cancel
    <3>1. worker \in Worker
      BY DEF JobInv
    <3>2. worker.reports \in 0..MaxReports
      BY <3>1 DEF Worker
    <3>3. worker.reports + 1 \in 0..MaxReports
      BY <2>1, <3>2, AppAssumption
    <3>4. worker' = [running |-> worker.running, recipe |-> worker.recipe,
                     cancel |-> worker.cancel, reports |-> worker.reports + 1]
      BY <2>1, <3>1 DEF Worker
    <3>5. QED
      BY <3>1, <3>3, <3>4 DEF Worker
  <2>3. /\ messages' \in Seq({"progress"} \cup Results)
        /\ messages' # <<>> /\ Last' = "progress"
        /\ \A i \in 1..Len(messages') - 1 : messages'[i] = "progress"
    BY <2>1, Sending DEF JobInv
  <2>4. CancelledByItsUser'
    BY <2>3 DEF CancelledByItsUser, Last
  <2>5. WidgetsFollowTheJob'
    BY <2>1 DEF JobInv, WidgetsFollowTheJob
  <2>6. QED
    BY <2>1, <2>2, <2>3, <2>4, <2>5 DEF JobInv
<1>13. CASE WorkerEnds
  <2>1. CASE \E result \in Results : InstallEnds(result)
    BY <2>1, Ending DEF InstallEnds
  <2>2. CASE RefreshEnds
    BY <2>2, Ending DEF RefreshEnds, Results
  <2>3. CASE ImportEnds
    BY <2>3, Ending DEF ImportEnds, Results
  <2>4. QED
    BY <1>13, <2>1, <2>2, <2>3 DEF WorkerEnds
<1>14. CASE \E p \in Clis : Command(p)
  BY <1>1, <1>14
  DEF Command, CliRefresh, CliList, CliImport, CliExit, guiVars
<1>15. CASE \E p \in Processes : Calls(p)
  BY <1>1, <1>15 DEF Calls, guiVars
<1>16. QED
  BY <1>3, <1>4, <1>5, <1>6, <1>7, <1>8, <1>9, <1>10, <1>11, <1>12, <1>13,
     <1>14, <1>15
  DEF Next, User, Polls

\* What is shown was read from the cache or downloaded, and verified.
LEMMA CatalogStep ==
  ASSUME CacheInv, JobInv, CatalogInv, Next
  PROVE  CatalogInv'
<1>1. /\ Gui \in Processes /\ Clis = Processes \ {Gui}
      /\ client \in [Processes -> Client]
      /\ \A q \in Processes :
           client[q].answer \in {"cached", "refreshed"} =>
             client[q].got = "catalog"
  BY AppAssumption DEF Clis, CacheInv, CacheTypeOK, CallOK
<1>2. ASSUME UNCHANGED <<catalog, job, messages>>,
             client[Gui].pc = "idle" =>
               /\ client'[Gui].pc = "idle"
               /\ client'[Gui].answer = client[Gui].answer
      PROVE  CatalogInv'
  BY <1>2 DEF CatalogInv, Last
<1>3. ASSUME UNCHANGED <<catalog, job, messages, client>>
      PROVE  CatalogInv'
  BY <1>2, <1>3
<1>4. ASSUME catalog' \in {"bundled", "catalog"},
             messages' = <<>> \/ job' # "refresh"
      PROVE  CatalogInv'
  BY <1>4 DEF CatalogInv
<1>5. catalog \in {"bundled", "catalog"}
  BY DEF CatalogInv
<1>6. CASE Launch \/ Quit
  BY <1>4, <1>6 DEF Launch, Quit, Reset
<1>7. CASE \E k \in Keys : Tick(k) \/ Untick(k)
  BY <1>3, <1>7 DEF Tick, Untick, cacheVars
<1>8. CASE \E recipe \in Offered, fisheye \in BOOLEAN :
             StartInstall(recipe, fisheye)
  BY <1>4, <1>5, <1>8 DEF StartInstall, Spawn
<1>9. CASE StartRefresh
  BY <1>4, <1>5, <1>9 DEF StartRefresh, Spawn
<1>10. CASE StartImport
  BY <1>4, <1>5, <1>10 DEF StartImport, Spawn
<1>11. CASE Cancel
  BY <1>3, <1>11 DEF Cancel, cacheVars
<1>12. CASE Loaded
  <2>1. job' = "none"
    BY <1>12 DEF Loaded, JobInv
  <2>2. catalog' \in {"bundled", "catalog"}
    BY <1>1, <1>12 DEF Loaded
  <2>3. QED
    BY <1>4, <2>1, <2>2
<1>13. CASE PollProgress
  BY <1>4, <1>5, <1>13 DEF PollProgress
<1>14. CASE \E result \in Results : Poll(result)
  <2>1. PICK result \in Results : Poll(result)
    BY <1>14
  <2>2. messages # <<>> /\ Last = result /\ messages' = <<>> /\ Result(result)
    BY <2>1 DEF Poll, Last
  <2>3. job = "refresh" /\ result = "ok" => client[Gui].got = "catalog"
    BY <1>1, <2>2 DEF CatalogInv
  <2>4. catalog' \in {"bundled", "catalog"}
    BY <1>5, <2>2, <2>3 DEF Result
  <2>5. QED
    BY <1>4, <2>2, <2>4
<1>15. CASE Report
  BY <1>4, <1>5, <1>15 DEF Report
<1>16. CASE WorkerEnds
  <2>1. CASE \E result \in Results : InstallEnds(result)
    BY <1>4, <1>5, <2>1 DEF InstallEnds, Sends
  <2>2. CASE RefreshEnds
    <3> DEFINE m == IF client[Gui].answer = "refreshed" THEN "ok" ELSE "error"
    <3>1. /\ client[Gui].pc = "idle" /\ worker.running
          /\ UNCHANGED <<catalog, job, client>>
          /\ messages' = Append(messages, m)
      BY <2>2 DEF RefreshEnds, Sends, At, cacheVars
    <3>2. Last' = m
      BY <3>1, Sending DEF JobInv, Results
    <3>3. QED
      BY <1>5, <3>1, <3>2 DEF CatalogInv
  <2>3. CASE ImportEnds
    BY <1>4, <1>5, <2>3 DEF ImportEnds, Sends
  <2>4. QED
    BY <1>16, <2>1, <2>2, <2>3 DEF WorkerEnds
<1>17. ASSUME NEW p \in Clis, Command(p)
       PROVE  CatalogInv'
  <2>1. client'[Gui] = client[Gui] \/ client' = client
    BY <1>1, <1>17
    DEF Command, CliRefresh, CliList, CliImport, CliExit, Call, Forget, cacheVars
  <2>2. UNCHANGED <<catalog, job, messages>>
    BY <1>17 DEF Command, CliRefresh, CliList, CliImport, CliExit, guiVars
  <2>3. QED
    BY <1>2, <2>1, <2>2
<1>18. ASSUME NEW p \in Processes, Calls(p)
       PROVE  CatalogInv'
  <2>1. UNCHANGED <<catalog, job, messages>>
    BY <1>18 DEF Calls, guiVars
  <2>2. CASE CacheStep(p)
    BY <1>1, <1>2, <2>1, <2>2, CacheKeeps DEF AnswersStay
  <2>3. CASE UNCHANGED cacheVars
    BY <1>3, <2>1, <2>3 DEF cacheVars
  <2>4. QED
    BY <1>18, <2>2, <2>3 DEF Calls
<1>19. QED
  BY <1>6, <1>7, <1>8, <1>9, <1>10, <1>11, <1>12, <1>13, <1>14, <1>15, <1>16,
     <1>17, <1>18
  DEF Next, User, Polls

\* Inv is inductive.
LEMMA Step ==
  ASSUME Inv, [Next]_vars
  PROVE  Inv'
<1>1. CASE Next
  BY <1>1, StoreStep, CacheIsKept, ScreenStep, JobStep, CatalogStep DEF Inv
<1>2. CASE UNCHANGED vars
  <2>1. UNCHANGED <<files, client, lone, stored, import, phase, catalog, shown,
                    approved, job, messages, widgets, worker, ticked, clicked,
                    session>>
    BY <1>2 DEF vars, cacheVars, storeVars, guiVars
  <2>2. StoreInv'
    BY <2>1 DEF Inv, StoreInv, StoreTypeOK, ImportedMeansStored, Loads
  <2>3. CacheInv'
    <3>1. CacheTypeOK' /\ Signed' /\ \A q \in Processes : CallOK(q)'
      BY <2>1 DEF Inv, CacheInv, CacheTypeOK, Signed, CallOK
    <3>2. \A q \in Processes : lone' = q => Undisturbed(q)'
      BY <2>1 DEF Inv, CacheInv, Undisturbed, Payload
    <3>3. QED
      BY <3>1, <3>2 DEF CacheInv
  <2>4. ScreenInv'
    BY <2>1 DEF Inv, ScreenInv
  <2>5. JobInv'
    BY <2>1 DEF Inv, JobInv, Last, CancelledByItsUser, WidgetsFollowTheJob
  <2>6. CatalogInv'
    BY <2>1 DEF Inv, CatalogInv, Last
  <2>7. QED
    BY <2>2, <2>3, <2>4, <2>5, <2>6 DEF Inv
<1>3. QED
  BY <1>1, <1>2

\* The inductive invariant of the GUI, the two stores and the commands.
THEOREM AppInvariance == Spec => []Inv
<1>1. Init => Inv
  BY Initially
<1>2. Inv /\ [Next]_vars => Inv'
  BY Step
<1>3. QED
  BY <1>1, <1>2, PTL DEF Spec

-----------------------------------------------------------------------------
(* What follows from it                                                     *)

\* Every variable of the three modules has its type.
THEOREM AppTyped == Spec => []TypeOK
<1>1. Inv => TypeOK
  <2>1. ASSUME Inv
        PROVE  TypeOK
    <3>1. catalog \in {"bundled"} \cup (Bytes \ {"absent"})
      BY <2>1 DEF Inv, CatalogInv, Bytes
    <3>2. QED
      BY <2>1, <3>1
      DEF Inv, TypeOK, CacheInv, StoreInv, ScreenInv, JobInv
  <2>2. QED
    BY <2>1
<1>2. QED
  BY <1>1, AppInvariance, PTL

\* An import that reports success has stored its own content, and whatever
\* overlaps or dies, load_all finds every manifest whole.
THEOREM Imported == Spec => []ImportedMeansStored
<1>1. Inv => ImportedMeansStored
  BY DEF Inv, StoreInv
<1>2. QED
  BY <1>1, AppInvariance, PTL

\* Nothing unsigned gets into the cache, and a refresh that no other one
\* overlaps is not refused and repairs the pair.
THEOREM Healed == Spec => []RefreshHeals
<1>1. Inv => RefreshHeals
  BY DEF Inv, CacheInv, Signed, Undisturbed, RefreshHeals
<1>2. QED
  BY <1>1, AppInvariance, PTL

\* What the window shows and what load_fresh answers was signed for this release.
THEOREM Released == Spec => []LoadedIsReleased
<1>1. Inv => LoadedIsReleased
  BY DEF Inv, CacheInv, CallOK, CatalogInv, LoadedIsReleased
<1>2. QED
  BY <1>1, AppInvariance, PTL

\* An install ends as cancelled only if it was.
THEOREM Clicked == Spec => []CancelledByItsUser
<1>1. Inv => CancelledByItsUser
  BY DEF Inv, JobInv
<1>2. QED
  BY <1>1, AppInvariance, PTL

\* Nothing of a job stays in the window after it.
THEOREM Follows == Spec => []WidgetsFollowTheJob
<1>1. Inv => WidgetsFollowTheJob
  BY DEF Inv, JobInv
<1>2. QED
  BY <1>1, AppInvariance, PTL

\* No custom recipe is installed with a content that was not on the screen when
\* its box was ticked, although approvals are kept by id and version.
THEOREM Approved == Spec => ApprovedAsShown
<1>1. ASSUME Inv, [Next]_vars,
             worker'.recipe \in Manifests \ {worker.recipe}
      PROVE  worker'.recipe \in ticked
  <2>1. worker' # worker /\ worker'.recipe # NoRecipe
    BY <1>1, AppAssumption
  <2>2. worker \in Worker
    BY <1>1 DEF Inv, JobInv
  <2>3. PICK recipe \in Offered, fisheye \in BOOLEAN :
          StartInstall(recipe, fisheye)
    <3>1. Next
      BY <1>1, <2>1 DEF vars, guiVars
    <3>2. ~Report /\ ~Cancel
      BY <1>1, <2>2 DEF Report, Cancel, Worker
    <3>3. ~Launch /\ ~Quit /\ ~StartRefresh /\ ~StartImport /\ ~WorkerEnds
      <4>1. NoWorker.recipe = NoRecipe
            /\ [NoWorker EXCEPT !.running = TRUE,
                                !.recipe = NoRecipe].recipe = NoRecipe
        BY DEF NoWorker
      <4>2. [worker EXCEPT !.running = FALSE, !.recipe = NoRecipe,
                           !.reports = 0].recipe = NoRecipe
        BY <2>2 DEF Worker
      <4>3. QED
        BY <2>1, <4>1, <4>2
        DEF Launch, Quit, Reset, StartRefresh, StartImport, Spawn,
            WorkerEnds, InstallEnds, RefreshEnds, ImportEnds, Sends
    <3>4. ~Loaded /\ ~Polls /\ \A k \in Keys : ~Tick(k) /\ ~Untick(k)
      BY <2>1 DEF Loaded, Polls, PollProgress, Poll, Tick, Untick
    <3>5. \A p \in Clis : ~Command(p)
      BY <2>1 DEF Command, CliRefresh, CliList, CliImport, CliExit, guiVars
    <3>6. \A p \in Processes : ~Calls(p)
      BY <2>1 DEF Calls, guiVars
    <3>7. QED
      BY <3>1, <3>2, <3>3, <3>4, <3>5, <3>6 DEF Next, User
  <2>4. worker'.recipe = recipe
    BY <2>3 DEF StartInstall, Spawn, NoWorker
  <2>5. recipe # Curated
    BY <1>1, <2>4, AppAssumption
  <2>6. QED
    BY <1>1, <2>4, <2>5 DEF Offered, Inv, ScreenInv
<1>2. Inv /\ [Next]_vars =>
        [worker'.recipe \in Manifests \ {worker.recipe}
           => worker'.recipe \in ticked]_vars
  BY <1>1
<1>3. QED
  BY <1>2, AppInvariance, PTL DEF Spec, ApprovedAsShown
=============================================================================
