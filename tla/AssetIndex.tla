----------------------------- MODULE AssetIndex -----------------------------
(***************************************************************************)
(* The asset index of the proxy (assets.py), its SQLite tables             *)
(* (persist.py), and the handlers that work on both (app.py): upload,      *)
(* from-hash, from-path, delete, and the sweep of expired assets.          *)
(*                                                                         *)
(* A handler runs up to its next await in one step.  An input upload       *)
(* awaits ComfyUI between looking its bytes up by hash and adding its      *)
(* record; a delete awaits a thread that empties the tables before the     *)
(* event loop empties memory.  Contents stand for their hash, and a        *)
(* request also names the asset id it would draw (uuid4).                  *)
(***************************************************************************)
EXTENDS Naturals, FiniteSets

CONSTANTS Requests,       \* uploads, registrations and deletes
          Blobs,          \* contents
          None,           \* no content, or no id
          CatalogIds,     \* does ComfyUI return ids of its own asset catalog
          MaxCrashes,     \* bound: how often the process may die
          MaxStoreErrors  \* bound: how often a SQLite call may raise

ASSUME AssetsAssumption ==
  /\ None \notin Requests \cup Blobs /\ Requests \cap Blobs = {}
  /\ CatalogIds \in BOOLEAN /\ MaxCrashes \in Nat /\ MaxStoreErrors \in Nat

VARIABLES up, durable,    \* the process runs; it was started with --state-dir
          phase,          \* how far a request has come
          bytes, victim,  \* what it uploads, or which asset it deletes
          answer,         \* the asset id it was answered with
          record, slot,   \* _by_id: the content of each asset; _id_by_hash
          expiring,       \* assets with an expires_at
          rows, hashRows, \* tables assets and asset_hash_index
          removed,        \* history: assets a delete or the sweep has taken away
          crashes, storeErrors

memory == <<record, slot, expiring>>
tables == <<rows, hashRows>>
request == <<bytes, victim, answer>>
faults == <<crashes, storeErrors>>
vars == <<up, durable, phase, request, memory, tables, removed, faults>>

\* An asset id is drawn by a request, or ComfyUI's own for a content.
Ids == Requests \cup Blobs

Phases == {"idle", "uploading",    \* not arrived; awaiting POST /upload/image
           "deleting", "erased",   \* awaiting the thread; the thread is done
           "answered", "gone",     \* 200 or 201 with an asset; 204
           "refused", "failed",    \* an error of the request; 500
           "lost"}                 \* the process died under the request

Nothing == [i \in Ids |-> None]
Vacant == [b \in Blobs |-> None]

Init == /\ up = TRUE /\ durable \in BOOLEAN
        /\ phase = [r \in Requests |-> "idle"]
        /\ bytes = [r \in Requests |-> None] /\ victim = [r \in Requests |-> None]
        /\ answer = [r \in Requests |-> None]
        /\ record = Nothing /\ slot = Vacant /\ expiring = {}
        /\ rows = Nothing /\ hashRows = Vacant
        /\ removed = {} /\ crashes = 0 /\ storeErrors = 0

-----------------------------------------------------------------------------
(* The index and its tables *)

Stored == {i \in Ids : record[i] # None}

\* get_by_hash finds nothing.
Missing(b) == slot[b] \notin Stored

\* setdefault, and ON CONFLICT(hash) DO NOTHING: the first writer keeps the slot.
Claimed(slots, b, id) == IF slots[b] = None THEN [slots EXCEPT ![b] = id] ELSE slots

\* Slots of an asset are given up with it.
Vacated(slots, id) == [b \in Blobs |-> IF slots[b] = id THEN None ELSE slots[b]]

\* Mutant of AddInMemory: the record keeps its id where its hash belongs.
AddInMemory_IdForHash(id, b) ==
  /\ record' = [record EXCEPT ![id] = id]
  /\ slot' = Claimed(slot, b, id)
  /\ expiring' \in {expiring \cup {id}, expiring \ {id}}

AddInMemory(id, b) ==
  /\ record' = [record EXCEPT ![id] = b]
  /\ slot' = Claimed(slot, b, id)
  /\ expiring' \in {expiring \cup {id}, expiring \ {id}}

\* Mutant of UpsertAsset: a hash that is taken keeps the record out as well.
UpsertAsset_OnlyFirst(id, b) ==
  /\ rows' = IF durable /\ hashRows[b] = None THEN [rows EXCEPT ![id] = b] ELSE rows
  /\ hashRows' = IF durable THEN Claimed(hashRows, b, id) ELSE hashRows

UpsertAsset(id, b) ==
  /\ rows' = IF durable THEN [rows EXCEPT ![id] = b] ELSE rows
  /\ hashRows' = IF durable THEN Claimed(hashRows, b, id) ELSE hashRows

\* Mutant of DeleteAsset: the second DELETE is missing.
DeleteAsset_HashKept(id) ==
  /\ rows' = IF durable THEN [rows EXCEPT ![id] = None] ELSE rows
  /\ hashRows' = hashRows

DeleteAsset(id) ==
  /\ rows' = IF durable THEN [rows EXCEPT ![id] = None] ELSE rows
  /\ hashRows' = IF durable THEN Vacated(hashRows, id) ELSE hashRows

\* A SQLite call raised: its first statement may have taken effect, and without a
\* rollback the next commit makes it last.
Halfway(id, content) ==
  /\ rows' \in {rows, [rows EXCEPT ![id] = content]}
  /\ hashRows' = hashRows

Answer(r, p) == up /\ up' = up /\ phase' = [phase EXCEPT ![r] = p]

-----------------------------------------------------------------------------
(* Uploads and registrations *)

\* Everything that ends a request before it touches the index.
Refuse(r) == /\ phase[r] = "idle" /\ Answer(r, "refused")
             /\ UNCHANGED <<durable, request, memory, tables, removed, faults>>

\* The content is there: upload, from-path and from-hash answer with its asset.
Deduplicate(r, b) ==
  /\ phase[r] = "idle" /\ ~Missing(b) /\ Answer(r, "answered")
  /\ answer' = [answer EXCEPT ![r] = slot[b]]
  /\ UNCHANGED <<durable, bytes, victim, memory, tables, removed, faults>>

Add(r, id, b) ==
  /\ Answer(r, "answered") /\ answer' = [answer EXCEPT ![r] = id]
  /\ AddInMemory(id, b) /\ UpsertAsset(id, b)
  /\ UNCHANGED <<durable, victim, removed, faults>>

\* A placed model file or a host file: no await between the look-up and the record.
Register(r, b) == phase[r] = "idle" /\ Missing(b) /\ Add(r, r, b) /\ UNCHANGED bytes

\* An input upload, up to the await of POST /upload/image ...
SendInput(r, b) ==
  /\ phase[r] = "idle" /\ Missing(b) /\ Answer(r, "uploading")
  /\ bytes' = [bytes EXCEPT ![r] = b]
  /\ UNCHANGED <<durable, victim, answer, memory, tables, removed, faults>>

\* The id of an input: a new one, or the one ComfyUI has for the content.
InputIds(r) == {r} \cup (IF CatalogIds THEN {bytes[r]} ELSE {})

\* ... and after it.
Received(r) == /\ phase[r] = "uploading"
               /\ \E id \in InputIds(r) : Add(r, id, bytes[r])
               /\ UNCHANGED bytes

UploadFails(r) == /\ phase[r] = "uploading" /\ Answer(r, "refused")
                  /\ UNCHANGED <<durable, request, memory, tables, removed, faults>>

\* What the next step of r may add.
Adding(r, id, b) == \/ phase[r] = "idle" /\ Missing(b) /\ id = r
                    \/ phase[r] = "uploading" /\ b = bytes[r] /\ id \in InputIds(r)

\* upsert_asset raises: memory has the record, the caller a 500.
AddFails(r, id, b) ==
  /\ durable /\ storeErrors < MaxStoreErrors /\ Adding(r, id, b)
  /\ Answer(r, "failed")
  /\ AddInMemory(id, b) /\ (UpsertAsset(id, b) \/ Halfway(id, b))
  /\ storeErrors' = storeErrors + 1
  /\ UNCHANGED <<durable, request, removed, crashes>>

-----------------------------------------------------------------------------
(* Deletes and expiry *)

\* remove_in_memory, of one asset or of those a sweep finds expired.
Forget(S) == /\ record' = [i \in Ids |-> IF i \in S THEN None ELSE record[i]]
             /\ slot' = [b \in Blobs |-> IF \E i \in S : slot[b] = i /\ record[i] = b
                                         THEN None ELSE slot[b]]
             /\ expiring' = expiring \ S

\* Mutant of StartDelete: memory is emptied first, and the thread finds nothing.
StartDelete_MemoryFirst(r, id) ==
  /\ phase[r] = "idle" /\ record[id] # None /\ Answer(r, "deleting")
  /\ victim' = [victim EXCEPT ![r] = id] /\ Forget({id})
  /\ UNCHANGED <<durable, bytes, answer, tables, removed, faults>>

\* Up to the await of the thread.
StartDelete(r, id) ==
  /\ phase[r] = "idle" /\ record[id] # None /\ Answer(r, "deleting")
  /\ victim' = [victim EXCEPT ![r] = id]
  /\ UNCHANGED <<durable, bytes, answer, memory, tables, removed, faults>>

\* The thread: persist_delete looks into memory, then empties the tables.
Erase(r) ==
  /\ phase[r] = "deleting" /\ Answer(r, "erased")
  /\ IF record[victim[r]] # None
     THEN DeleteAsset(victim[r]) /\ removed' = removed \cup {victim[r]}
     ELSE UNCHANGED <<tables, removed>>
  /\ UNCHANGED <<durable, request, memory, faults>>

EraseFails(r) ==
  /\ durable /\ storeErrors < MaxStoreErrors
  /\ phase[r] = "deleting" /\ record[victim[r]] # None /\ Answer(r, "failed")
  /\ DeleteAsset(victim[r]) \/ Halfway(victim[r], None)
  /\ removed' = removed \cup {victim[r]} /\ storeErrors' = storeErrors + 1
  /\ UNCHANGED <<durable, request, memory, crashes>>

\* Back on the event loop, also when the client has gone away meanwhile.
FinishDelete(r) == /\ phase[r] = "erased" /\ Answer(r, "gone")
                   /\ Forget({victim[r]})
                   /\ UNCHANGED <<durable, request, tables, removed, faults>>

\* _cleanup_loop, which runs only without --state-dir.
Sweep(S) == /\ up /\ ~durable /\ S # {} /\ S \subseteq expiring
            /\ Forget(S) /\ removed' = removed \cup S
            /\ UNCHANGED <<up, durable, phase, request, tables, faults>>

-----------------------------------------------------------------------------
(* Death of the process, and startup *)

Die(dead) == /\ up /\ up' = FALSE
             /\ crashes < MaxCrashes /\ crashes' = crashes + 1
             /\ phase' = [r \in Requests |-> IF r \in dead THEN "lost" ELSE phase[r]]
             /\ record' = Nothing /\ slot' = Vacant /\ expiring' = {}
             /\ UNCHANGED <<durable, request, removed, storeErrors>>

UnderWay == {r \in Requests : phase[r] \in {"uploading", "deleting", "erased"}}

Crash == Die(UnderWay) /\ UNCHANGED tables

\* The record is committed, the answer never sent.
CrashInAdd(r, id, b) == /\ durable /\ Adding(r, id, b)
                        /\ Die(UnderWay \cup {r}) /\ UpsertAsset(id, b)

\* Mutant of Restart: only the hash index is loaded.
Restart_RecordsNotLoaded ==
  /\ ~up /\ up' = TRUE
  /\ record' = Nothing /\ slot' = hashRows /\ expiring' = {}
  /\ UNCHANGED <<durable, phase, request, tables, removed, faults>>

\* attach_persist.  The tables have no column for expires_at.
Restart == /\ ~up /\ up' = TRUE
           /\ record' = rows /\ slot' = hashRows /\ expiring' = {}
           /\ UNCHANGED <<durable, phase, request, tables, removed, faults>>

-----------------------------------------------------------------------------
Next ==
  \/ \E r \in Requests :
       \/ Refuse(r) \/ Received(r) \/ UploadFails(r)
       \/ Erase(r) \/ EraseFails(r) \/ FinishDelete(r)
       \/ \E b \in Blobs : \/ Deduplicate(r, b) \/ Register(r, b) \/ SendInput(r, b)
                           \/ \E id \in Ids : AddFails(r, id, b) \/ CrashInAdd(r, id, b)
       \/ \E id \in Ids : StartDelete(r, id)
  \/ \E S \in SUBSET expiring : Sweep(S)
  \/ Crash \/ Restart

Spec == Init /\ [][Next]_vars

-----------------------------------------------------------------------------
(* Properties *)

\* Every variable stays in its range.
TypeOK ==
  /\ up \in BOOLEAN /\ durable \in BOOLEAN
  /\ phase \in [Requests -> Phases]
  /\ bytes \in [Requests -> Blobs \cup {None}] /\ victim \in [Requests -> Ids \cup {None}]
  /\ answer \in [Requests -> Ids \cup {None}]
  /\ record \in [Ids -> Blobs \cup {None}] /\ slot \in [Blobs -> Ids \cup {None}]
  /\ rows \in [Ids -> Blobs \cup {None}] /\ hashRows \in [Blobs -> Ids \cup {None}]
  /\ expiring \subseteq Ids /\ removed \subseteq Ids
  /\ crashes \in 0..MaxCrashes /\ storeErrors \in 0..MaxStoreErrors

\* A hash leads to an asset of that content, in memory and in the tables, across
\* duplicates, concurrent deletes and restarts (assets.py:76-81: HEAD by-hash
\* looks at the slot alone, from-hash at the record too).
LeadsHome(slots, contents) == \A b \in Blobs : slots[b] # None => contents[slots[b]] = b
IndexSound == storeErrors = 0 => LeadsHome(slot, record) /\ LeadsHome(hashRows, rows)

\* "hash dedup and asset ids survive a proxy restart" (assets.py:17-19): an asset
\* a caller was given is there until a delete or the sweep takes it away.
Survives(id) == /\ durable => rows[id] # None
                /\ (up /\ (durable \/ crashes = 0)) => record[id] # None
IdsSurvive ==
  \A r \in Requests : answer[r] \notin removed \cup {None} => Survives(answer[r])

\* It is so as long as no SQLite call raises, whatever the order of uploads,
\* duplicates, deletes, crashes and restarts.
AnsweredAssetSurvives == storeErrors = 0 => IdsSurvive

\* A deleted asset does not come back, from a restart or from an upload that was
\* under way.  (An id of ComfyUI's catalog may be given out again.)
DeletedStaysDeleted ==
  \A r \in Requests : (phase[r] = "gone" /\ victim[r] \in Requests)
    => record[victim[r]] = None /\ rows[victim[r]] = None

\* Memory and table hold the same assets, but for those a delete is busy with, and
\* for catalog ids a delete once took away: an upload under way may be given the id
\* again between the thread of its delete and the event loop, which then takes the
\* new record out of memory and leaves its row.
Busy == {victim[r] : r \in {q \in Requests : phase[q] \in {"deleting", "erased"}}}
Reissued == Blobs \cap removed
RecordsAgree ==
  (up /\ durable /\ storeErrors = 0) =>
    \A i \in Ids \ (Busy \cup Reissued) : record[i] = rows[i]

\* The index is "write-through" (assets.py:18): with no delete under way, memory
\* and table lead a hash to the same asset.
HashIndexAgrees == (up /\ durable /\ Busy = {}) => slot = hashRows
=============================================================================
