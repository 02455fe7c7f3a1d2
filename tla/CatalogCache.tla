---------------------------- MODULE CatalogCache ----------------------------
(***************************************************************************)
(* catalog.rs: the cache of this release's signed catalog.  store replaces *)
(* catalog.json and then catalog.sig, both through the one temporary name  *)
(* catalog.next; load_fresh reads one file and then the other; refresh     *)
(* downloads a pair, verifies it and stores it.  One action per            *)
(* file-system call, so that the calls of two processes interleave and a   *)
(* process may die between any two.                                        *)
(*                                                                         *)
(* Verifying is abstracted to whether the two files are the pair that this *)
(* release's one-time key signed.  That a catalog expires is left out.     *)
(***************************************************************************)

CONSTANT Processes

VARIABLES
  files,     \* files[n]: what the file with name n holds
  client,    \* client[p]: the call that process p is in, or its answer
  lone       \* history: the process that began to store last, if no other
             \* was storing then

cacheVars == <<files, client, lone>>

Names == {"json", "sig", "next"}

\* A file holds this release's catalog or signature, those of the release
\* that was installed before, or nothing yet, when it was just created.  Only
\* a download may be a catalog that nobody signed.
Bytes == {"absent", "torn", "catalog", "signature", "oldCatalog",
          "oldSignature", "unsigned"}

Nobody == "nobody"

ASSUME CacheAssumption == Nobody \notin Processes

Answers == {"none", "refreshed", "refused", "failed", "cached", "missing"}

Storing == {"clear", "create", "write", "unlink", "rename"}

\* part: the file that store is at; file: the name that the file a process
\* has open goes by now, which others may rename or unlink; got: the catalog
\* that was downloaded or read.
Client ==
  [pc: {"idle", "fetch", "loadCatalog", "loadSignature"} \cup Storing,
   part: {"json", "sig"},
   file: Names \cup {"closed", "unlinked"},
   got: Bytes,
   answer: Answers]

CacheTypeOK ==
  /\ files \in [Names -> Bytes]
  /\ client \in [Processes -> Client]
  /\ lone \in Processes \cup {Nobody}

NoCall ==
  [pc |-> "idle", part |-> "json", file |-> "closed", got |-> "absent",
   answer |-> "none"]

Pair(json, sig) == [n \in Names |-> CASE n = "json" -> json
                                      [] n = "sig" -> sig
                                      [] OTHER -> "absent"]

\* A first start, or the first one after an update of the application.
CacheInit ==
  /\ files \in {Pair("absent", "absent"), Pair("oldCatalog", "oldSignature")}
  /\ client = [p \in Processes |-> NoCall]
  /\ lone = Nobody

Verifies(catalog, signature) ==
  catalog = "catalog" /\ signature = "signature"

At(p, pc) == client[p].pc = pc

Goes(p, pc) == client' = [client EXCEPT ![p].pc = pc]

Replies(p, answer, got) ==
  client' = [client EXCEPT ![p] = [NoCall EXCEPT !.answer = answer,
                                                 !.got = got]]

Call(p, pc) ==
  /\ At(p, "idle")
  /\ client' = [client EXCEPT ![p] = [NoCall EXCEPT !.pc = pc]]
  /\ UNCHANGED <<files, lone>>

Forget(p) == client' = [client EXCEPT ![p] = NoCall]

-----------------------------------------------------------------------------
(* refresh: download and verify, then store                                 *)

\* A download that does not verify ends the call before the cache is touched.
Fetch(p, catalog) ==
  /\ At(p, "fetch")
  /\ IF Verifies(catalog, "signature")
     THEN /\ client' = [client EXCEPT ![p].pc = "clear", ![p].got = catalog]
          /\ lone' = IF \E q \in Processes \ {p} : client[q].pc \in Storing
                     THEN Nobody
                     ELSE p
     ELSE /\ Replies(p, "failed", "absent")
          /\ UNCHANGED lone
  /\ UNCHANGED files

-----------------------------------------------------------------------------
(* atomic_write, for client[p].part                                         *)

\* Other processes keep the file that goes by name n open without a name.
Unlink(p, n, pc) ==
  /\ files' = [files EXCEPT ![n] = "absent"]
  /\ client' = [q \in Processes |->
       IF q = p THEN [client[p] EXCEPT !.pc = pc]
       ELSE IF client[q].file = n THEN [client[q] EXCEPT !.file = "unlinked"]
       ELSE client[q]]
  /\ UNCHANGED lone

\* Mutant: a leftover of an interrupted store stays.
KeepNext(p) ==
  /\ At(p, "clear")
  /\ Goes(p, "create")
  /\ UNCHANGED <<files, lone>>

Clear(p) == At(p, "clear") /\ Unlink(p, "next", "create")

Create(p) ==
  /\ At(p, "create")
  /\ files["next"] = "absent"
  /\ files' = [files EXCEPT !["next"] = "torn"]
  /\ client' = [client EXCEPT ![p].pc = "write", ![p].file = "next"]
  /\ UNCHANGED lone

CreateRefused(p) ==
  /\ At(p, "create")
  /\ files["next"] # "absent"
  /\ Replies(p, "refused", "absent")
  /\ UNCHANGED <<files, lone>>

Payload(p) == IF client[p].part = "json" THEN client[p].got ELSE "signature"

Write(p) ==
  /\ At(p, "write")
  /\ files' = [n \in Names |->
                 IF n = client[p].file THEN Payload(p) ELSE files[n]]
  /\ client' = [client EXCEPT ![p].pc = "unlink", ![p].file = "closed"]
  /\ UNCHANGED lone

UnlinkOld(p) == At(p, "unlink") /\ Unlink(p, client[p].part, "rename")

\* The file at catalog.next moves to the path, whoever created it.
Renamed(q, part) ==
  CASE client[q].file = "next" -> part
    [] client[q].file = part -> "unlinked"
    [] OTHER -> client[q].file

Rename(p) ==
  /\ At(p, "rename")
  /\ files["next"] # "absent"
  /\ LET part == client[p].part IN
     /\ files' = [files EXCEPT ![part] = files["next"], !["next"] = "absent"]
     /\ client' = [q \in Processes |->
          IF q # p THEN [client[q] EXCEPT !.file = Renamed(q, part)]
          ELSE IF part = "json" THEN [client[p] EXCEPT !.pc = "clear",
                                                       !.part = "sig"]
          ELSE [NoCall EXCEPT !.answer = "refreshed", !.got = client[p].got]]
  /\ UNCHANGED lone

RenameRefused(p) ==
  /\ At(p, "rename")
  /\ files["next"] = "absent"
  /\ Replies(p, "refused", "absent")
  /\ UNCHANGED <<files, lone>>

-----------------------------------------------------------------------------
(* load_fresh                                                               *)

\* There is no catalog.json, or it is older than a day.
LoadMissing(p) ==
  /\ At(p, "loadCatalog")
  /\ Replies(p, "missing", "absent")
  /\ UNCHANGED <<files, lone>>

LoadCatalog(p) ==
  /\ At(p, "loadCatalog")
  /\ files["json"] # "absent"
  /\ client' = [client EXCEPT ![p].pc = "loadSignature",
                              ![p].got = files["json"]]
  /\ UNCHANGED <<files, lone>>

\* Mutant: what store once verified is not verified again.
LoadUnverified(p) ==
  /\ At(p, "loadSignature")
  /\ Replies(p, "cached", client[p].got)
  /\ UNCHANGED <<files, lone>>

LoadSignature(p) ==
  /\ At(p, "loadSignature")
  /\ IF Verifies(client[p].got, files["sig"])
     THEN Replies(p, "cached", client[p].got)
     ELSE Replies(p, "failed", "absent")
  /\ UNCHANGED <<files, lone>>

\* A download or a file-system call fails.
CallFails(p) ==
  /\ ~At(p, "idle")
  /\ Replies(p, "failed", "absent")
  /\ UNCHANGED <<files, lone>>

CacheStep(p) ==
  \/ \E catalog \in {"catalog", "unsigned"} : Fetch(p, catalog)
  \/ Clear(p)
  \/ Create(p)
  \/ CreateRefused(p)
  \/ Write(p)
  \/ UnlinkOld(p)
  \/ Rename(p)
  \/ RenameRefused(p)
  \/ LoadMissing(p)
  \/ LoadCatalog(p)
  \/ LoadSignature(p)
  \/ CallFails(p)

-----------------------------------------------------------------------------
(* Properties                                                               *)

\* Nothing reaches a file of the cache that did not verify when it was
\* downloaded (CatalogClient::refresh, verify before store), whoever else
\* writes: a failed download never replaces the cached catalog.  And a refresh
\* that no other refresh overlaps is stopped neither by what an interrupted one
\* left behind (atomic_write clears catalog.next first) nor by the cache of an
\* older release, and when it reports success the pair in the cache verifies.
RefreshHeals ==
  /\ \A n \in Names : files[n] # "unsigned"
  /\ \A p \in Processes :
       lone = p => /\ client[p].answer # "refused"
                   /\ client[p].answer = "refreshed" =>
                        Verifies(files["json"], files["sig"])

=============================================================================
