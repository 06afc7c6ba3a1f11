-------------------------- MODULE AssetIndexProofs --------------------------
(***************************************************************************)
(* Types, the soundness of the hash index, the life of an answered asset,  *)
(* the death of a deleted one and the agreement of memory and table, for   *)
(* any number of requests, contents and crashes; all but the types and the *)
(* deletes rest on no SQLite call raising, as the properties say.          *)
(***************************************************************************)
EXTENDS AssetIndex, TLAPS

\* The types, with what a request carries in each phase.
TypeInv ==
  /\ TypeOK
  /\ \A r \in Requests : phase[r] = "uploading" => bytes[r] \in Blobs
  /\ \A r \in Requests : phase[r] \in {"deleting", "erased", "gone"} => victim[r] \in Ids

\* The places a step can name.
LEMMA Names ==
  /\ None \notin Ids /\ None \notin Requests /\ None \notin Blobs
  /\ Requests \subseteq Ids /\ Blobs \subseteq Ids /\ Requests \cap Blobs = {}
  BY AssetsAssumption DEF AssetsAssumption, Ids

LEMMA ClaimedType ==
  ASSUME NEW s \in [Blobs -> Ids \cup {None}], NEW b, NEW id \in Ids
  PROVE  Claimed(s, b, id) \in [Blobs -> Ids \cup {None}]
  BY DEF Claimed

LEMMA VacatedType ==
  ASSUME NEW s \in [Blobs -> Ids \cup {None}], NEW id
  PROVE  Vacated(s, id) \in [Blobs -> Ids \cup {None}]
  BY DEF Vacated

\* The types of memory and of the tables.
MemoryOK == /\ record \in [Ids -> Blobs \cup {None}] /\ slot \in [Blobs -> Ids \cup {None}]
            /\ expiring \subseteq Ids
TablesOK == rows \in [Ids -> Blobs \cup {None}] /\ hashRows \in [Blobs -> Ids \cup {None}]

LEMMA AddedType ==
  ASSUME MemoryOK, NEW id \in Ids, NEW b \in Blobs, AddInMemory(id, b) PROVE MemoryOK'
  BY ClaimedType DEF MemoryOK, AddInMemory

LEMMA UpsertedType ==
  ASSUME TablesOK, NEW id \in Ids, NEW b \in Blobs, UpsertAsset(id, b) \/ Halfway(id, b)
  PROVE  TablesOK'
  BY ClaimedType DEF TablesOK, UpsertAsset, Halfway

LEMMA ErasedType ==
  ASSUME TablesOK, NEW id \in Ids, DeleteAsset(id) \/ Halfway(id, None) PROVE TablesOK'
  BY VacatedType DEF TablesOK, DeleteAsset, Halfway

LEMMA ForgottenType ==
  ASSUME MemoryOK, NEW S, Forget(S) PROVE MemoryOK'
  BY DEF MemoryOK, Forget

\* Which content a request adds, and under which id.
LEMMA AddingNames ==
  ASSUME TypeInv, NEW r \in Requests, NEW b \in Blobs, NEW id, Adding(r, id, b)
  PROVE  id \in Ids /\ (id = r \/ id = b)
  BY Names DEF Adding, InputIds

\* What the process leaves behind.
LEMMA DeathType ==
  ASSUME TypeInv, NEW dead, Die(dead), TablesOK' PROVE TypeInv'
<1>1. /\ up' \in BOOLEAN /\ durable' \in BOOLEAN /\ removed' \subseteq Ids
      /\ crashes' \in 0..MaxCrashes /\ storeErrors' \in 0..MaxStoreErrors
  <2>1. crashes < MaxCrashes /\ crashes' = crashes + 1 /\ UNCHANGED <<durable, removed, storeErrors>>
    BY DEF Die
  <2>2. up' \in BOOLEAN
    BY DEF Die
  <2> QED BY <2>1, <2>2, AssetsAssumption DEF TypeInv, TypeOK, AssetsAssumption
<1>2. MemoryOK'
  BY DEF Die, MemoryOK, Nothing, Vacant
<1>3. /\ phase' \in [Requests -> Phases]
      /\ \A r \in Requests : phase'[r] \in {phase[r], "lost"}
  BY DEF Die, TypeInv, TypeOK, Phases
<1>4. UNCHANGED <<bytes, victim, answer>>
  BY DEF Die, request
<1> QED BY <1>1, <1>2, <1>3, <1>4 DEF TypeInv, TypeOK, MemoryOK, TablesOK

LEMMA TypeStep == TypeInv /\ [Next]_vars => TypeInv'
<1> SUFFICES ASSUME TypeInv, [Next]_vars PROVE TypeInv'
  OBVIOUS
<1> USE Names DEF TypeInv, TypeOK, Phases, request, memory, tables, faults
<1>0. MemoryOK /\ TablesOK
  BY DEF MemoryOK, TablesOK
<1>1. CASE UNCHANGED vars
  BY <1>1 DEF vars
<1>2. ASSUME NEW r \in Requests, Refuse(r) \/ UploadFails(r) PROVE TypeInv'
  BY <1>2 DEF Refuse, UploadFails, Answer
<1>3. ASSUME NEW r \in Requests, Received(r) PROVE TypeInv'
  <2>1. PICK id \in InputIds(r) : Add(r, id, bytes[r])
    BY <1>3 DEF Received
  <2>2. id \in Ids /\ bytes[r] \in Blobs
    BY <1>3, <2>1 DEF Received, InputIds
  <2>3. MemoryOK' /\ TablesOK'
    BY <1>0, <2>1, <2>2, AddedType, UpsertedType DEF Add
  <2> QED BY <1>3, <2>1, <2>2, <2>3 DEF Received, Add, Answer, MemoryOK, TablesOK
<1>4. ASSUME NEW r \in Requests, Erase(r) PROVE TypeInv'
  <2>1. TablesOK'
    BY <1>0, <1>4, ErasedType DEF Erase, TablesOK
  <2> QED BY <1>4, <2>1 DEF Erase, Answer, TablesOK
<1>5. ASSUME NEW r \in Requests, EraseFails(r) PROVE TypeInv'
  <2>1. TablesOK'
    BY <1>0, <1>5, ErasedType DEF EraseFails
  <2> QED BY <1>5, <2>1, AssetsAssumption DEF EraseFails, Answer, TablesOK, AssetsAssumption
<1>6. ASSUME NEW r \in Requests, FinishDelete(r) PROVE TypeInv'
  <2>1. MemoryOK'
    BY <1>0, <1>6, ForgottenType DEF FinishDelete
  <2> QED BY <1>6, <2>1 DEF FinishDelete, Answer, MemoryOK
<1>7. ASSUME NEW r \in Requests, NEW b \in Blobs, Deduplicate(r, b) PROVE TypeInv'
  BY <1>7 DEF Deduplicate, Answer
<1>8. ASSUME NEW r \in Requests, NEW b \in Blobs, Register(r, b) PROVE TypeInv'
  <2>1. MemoryOK' /\ TablesOK'
    BY <1>0, <1>8, AddedType, UpsertedType DEF Register, Add
  <2> QED BY <1>8, <2>1 DEF Register, Add, Answer, MemoryOK, TablesOK
<1>9. ASSUME NEW r \in Requests, NEW b \in Blobs, SendInput(r, b) PROVE TypeInv'
  BY <1>9 DEF SendInput, Answer
<1>10. ASSUME NEW r \in Requests, NEW b \in Blobs, NEW id \in Ids, AddFails(r, id, b)
       PROVE  TypeInv'
  <2>1. MemoryOK' /\ TablesOK'
    BY <1>0, <1>10, AddedType, UpsertedType DEF AddFails
  <2> QED BY <1>10, <2>1, AssetsAssumption DEF AddFails, Answer, MemoryOK, TablesOK, AssetsAssumption
<1>11. ASSUME NEW r \in Requests, NEW b \in Blobs, NEW id \in Ids, CrashInAdd(r, id, b)
       PROVE  TypeInv'
  <2>1. TablesOK'
    BY <1>0, <1>11, UpsertedType DEF CrashInAdd
  <2> QED BY <1>11, <2>1, DeathType DEF CrashInAdd
<1>12. ASSUME NEW r \in Requests, NEW id \in Ids, StartDelete(r, id) PROVE TypeInv'
  BY <1>12 DEF StartDelete, Answer
<1>13. ASSUME NEW S \in SUBSET expiring, Sweep(S) PROVE TypeInv'
  <2>1. MemoryOK'
    BY <1>0, <1>13, ForgottenType DEF Sweep
  <2> QED BY <1>13, <2>1 DEF Sweep, MemoryOK
<1>14. CASE Crash
  <2>1. TablesOK'
    BY <1>0, <1>14 DEF Crash, TablesOK
  <2> QED BY <1>14, <2>1, DeathType DEF Crash
<1>15. CASE Restart
  BY <1>15 DEF Restart
<1> HIDE DEF TypeInv
<1> QED BY <1>1, <1>2, <1>3, <1>4, <1>5, <1>6, <1>7, <1>8, <1>9, <1>10, <1>11, <1>12,
           <1>13, <1>14, <1>15 DEF Next

LEMMA TypeInit == Init => TypeInv
  BY Names, AssetsAssumption DEF Init, TypeInv, TypeOK, Phases, Nothing, Vacant, AssetsAssumption

\* Every variable keeps its type.
THEOREM AssetTypes == Spec => []TypeOK
<1>1. TypeInv => TypeOK
  BY DEF TypeInv
<1> QED BY <1>1, TypeInit, TypeStep, PTL DEF Spec

-----------------------------------------------------------------------------
(* The hash index *)

\* A catalog id names its own content, and a request that has not added its
\* record yet has none: so an id is never given to two contents.
IdsFresh ==
  /\ \A b \in Blobs : record[b] \in {None, b} /\ rows[b] \in {None, b}
  /\ \A r \in Requests : phase[r] \in {"idle", "uploading"} => record[r] = None /\ rows[r] = None

IndexInv == TypeInv /\ IdsFresh /\ IndexSound

\* The id a request adds has no other content.
LEMMA AddingFresh ==
  ASSUME TypeInv, IdsFresh, NEW r \in Requests, NEW b \in Blobs, NEW id, Adding(r, id, b)
  PROVE  record[id] \in {None, b} /\ rows[id] \in {None, b}
<1>1. phase[r] \in {"idle", "uploading"}
  BY DEF Adding
<1> QED BY <1>1, AddingNames DEF IdsFresh

LEMMA AddedHome ==
  ASSUME MemoryOK, LeadsHome(slot, record), NEW id \in Ids, NEW b \in Blobs,
         record[id] \in {None, b}, AddInMemory(id, b)
  PROVE  LeadsHome(slot', record')
  BY Names DEF MemoryOK, LeadsHome, AddInMemory, Claimed

LEMMA UpsertedHome ==
  ASSUME TablesOK, LeadsHome(hashRows, rows), NEW id \in Ids, NEW b \in Blobs,
         rows[id] \in {None, b}, UpsertAsset(id, b)
  PROVE  LeadsHome(hashRows', rows')
  BY Names DEF TablesOK, LeadsHome, UpsertAsset, Claimed

LEMMA ErasedHome ==
  ASSUME TablesOK, LeadsHome(hashRows, rows), NEW id \in Ids, DeleteAsset(id)
  PROVE  LeadsHome(hashRows', rows')
  BY Names DEF TablesOK, LeadsHome, DeleteAsset, Vacated

LEMMA ForgottenHome ==
  ASSUME MemoryOK, LeadsHome(slot, record), NEW S, Forget(S) PROVE LeadsHome(slot', record')
  BY Names DEF MemoryOK, LeadsHome, Forget

\* A step that adds content b under id and settles request r.
LEMMA FreshAdded ==
  ASSUME TypeInv, IdsFresh, NEW r \in Requests, NEW b \in Blobs, NEW id, Adding(r, id, b),
         record' \in {record, Nothing, [record EXCEPT ![id] = b]},
         rows' \in {rows, [rows EXCEPT ![id] = b]},
         \A q \in Requests : phase'[q] \in {"idle", "uploading"} => q # r /\ phase'[q] = phase[q]
  PROVE  IdsFresh'
<1>1. id \in Ids /\ (id = r \/ id = b)
  BY AddingNames
<1>2. \A i \in Ids : /\ i # id => record'[i] \in {None, record[i]} /\ rows'[i] = rows[i]
                     /\ record'[id] \in {None, record[id], b} /\ rows'[id] \in {rows[id], b}
  BY <1>1 DEF TypeInv, TypeOK, Nothing
<1>3. ASSUME NEW c \in Blobs PROVE record'[c] \in {None, c} /\ rows'[c] \in {None, c}
  <2>1. CASE c = id
    BY <1>1, <1>2, <2>1, Names DEF IdsFresh
  <2>2. CASE c # id
    BY <1>2, <2>2, Names DEF IdsFresh
  <2> QED BY <2>1, <2>2
<1>4. ASSUME NEW q \in Requests, phase'[q] \in {"idle", "uploading"}
      PROVE  record'[q] = None /\ rows'[q] = None
  <2>1. q # r /\ phase[q] \in {"idle", "uploading"}
    BY <1>4
  <2>2. q # id /\ q \in Ids
    BY <1>1, <2>1, Names
  <2> QED BY <1>2, <2>1, <2>2 DEF IdsFresh
<1> QED BY <1>3, <1>4 DEF IdsFresh

\* A step that only takes records away.
LEMMA FreshKept ==
  ASSUME TypeInv, IdsFresh,
         \A i \in Ids : record'[i] \in {None, record[i], rows[i]} /\ rows'[i] \in {None, rows[i]},
         \A q \in Requests : phase'[q] \in {"idle", "uploading"} => phase[q] \in {"idle", "uploading"}
  PROVE  IdsFresh'
  BY Names DEF IdsFresh

LEMMA ForgottenLess ==
  ASSUME MemoryOK, NEW S, Forget(S) PROVE \A i \in Ids : record'[i] \in {None, record[i]}
  BY DEF MemoryOK, Forget

LEMMA ErasedLess ==
  ASSUME TablesOK, NEW id \in Ids, DeleteAsset(id) \/ Halfway(id, None)
  PROVE  \A i \in Ids : rows'[i] \in {None, rows[i]}
  BY DEF TablesOK, DeleteAsset, Halfway

LEMMA IdsFreshStep == TypeInv /\ IdsFresh /\ [Next]_vars => IdsFresh'
<1> SUFFICES ASSUME TypeInv, IdsFresh, [Next]_vars PROVE IdsFresh'
  OBVIOUS
<1>0. /\ MemoryOK /\ TablesOK
      /\ phase \in [Requests -> Phases]
      /\ \A r \in Requests : phase[r] \in {"deleting", "erased"} => victim[r] \in Ids
  BY DEF TypeInv, TypeOK, MemoryOK, TablesOK
<1>1. CASE UNCHANGED vars
  BY <1>1 DEF vars, memory, tables, IdsFresh
<1>2. ASSUME NEW r \in Requests, Refuse(r) \/ UploadFails(r) PROVE IdsFresh'
  BY <1>0, <1>2, FreshKept DEF Refuse, UploadFails, Answer, memory, tables
<1>3. ASSUME NEW r \in Requests, Received(r) PROVE IdsFresh'
  <2>1. PICK id \in InputIds(r) : Add(r, id, bytes[r])
    BY <1>3 DEF Received
  <2>2. bytes[r] \in Blobs /\ Adding(r, id, bytes[r])
    BY <1>3, <2>1 DEF Received, Adding, TypeInv
  <2>3. /\ record' = [record EXCEPT ![id] = bytes[r]]
        /\ rows' \in {rows, [rows EXCEPT ![id] = bytes[r]]}
    BY <2>1 DEF Add, AddInMemory, UpsertAsset
  <2>4. phase' = [phase EXCEPT ![r] = "answered"]
    BY <2>1 DEF Add, Answer
  <2> QED BY <1>0, <2>2, <2>3, <2>4, FreshAdded
<1>4. ASSUME NEW r \in Requests, Erase(r) PROVE IdsFresh'
  <2>1. \A i \in Ids : rows'[i] \in {None, rows[i]}
    BY <1>0, <1>4, ErasedLess DEF Erase, tables
  <2> QED BY <1>0, <1>4, <2>1, FreshKept DEF Erase, Answer, memory
<1>5. ASSUME NEW r \in Requests, EraseFails(r) PROVE IdsFresh'
  <2>1. \A i \in Ids : rows'[i] \in {None, rows[i]}
    BY <1>0, <1>5, ErasedLess DEF EraseFails
  <2> QED BY <1>0, <1>5, <2>1, FreshKept DEF EraseFails, Answer, memory
<1>6. ASSUME NEW r \in Requests, FinishDelete(r) PROVE IdsFresh'
  <2>1. \A i \in Ids : record'[i] \in {None, record[i]}
    BY <1>0, <1>6, ForgottenLess DEF FinishDelete
  <2> QED BY <1>0, <1>6, <2>1, FreshKept DEF FinishDelete, Answer, tables
<1>7. ASSUME NEW r \in Requests, NEW b \in Blobs, Deduplicate(r, b) PROVE IdsFresh'
  BY <1>0, <1>7, FreshKept DEF Deduplicate, Answer, memory, tables
<1>8. ASSUME NEW r \in Requests, NEW b \in Blobs, Register(r, b) PROVE IdsFresh'
  <2>1. Adding(r, r, b)
    BY <1>8 DEF Register, Adding
  <2>2. /\ record' = [record EXCEPT ![r] = b]
        /\ rows' \in {rows, [rows EXCEPT ![r] = b]}
        /\ phase' = [phase EXCEPT ![r] = "answered"]
    BY <1>8 DEF Register, Add, AddInMemory, UpsertAsset, Answer
  <2> QED BY <1>0, <2>1, <2>2, FreshAdded
<1>9. ASSUME NEW r \in Requests, NEW b \in Blobs, SendInput(r, b) PROVE IdsFresh'
  BY <1>0, <1>9, FreshKept DEF SendInput, Answer, memory, tables
<1>10. ASSUME NEW r \in Requests, NEW b \in Blobs, NEW id \in Ids, AddFails(r, id, b)
       PROVE  IdsFresh'
  <2>1. Adding(r, id, b) /\ phase' = [phase EXCEPT ![r] = "failed"]
    BY <1>10 DEF AddFails, Answer
  <2>2. /\ record' = [record EXCEPT ![id] = b]
        /\ rows' \in {rows, [rows EXCEPT ![id] = b]}
    BY <1>10 DEF AddFails, AddInMemory, UpsertAsset, Halfway
  <2> QED BY <1>0, <2>1, <2>2, FreshAdded
<1>11. ASSUME NEW r \in Requests, NEW b \in Blobs, NEW id \in Ids, CrashInAdd(r, id, b)
       PROVE  IdsFresh'
  <2>1. Adding(r, id, b) /\ record' = Nothing
    BY <1>11 DEF CrashInAdd, Die
  <2>2. rows' \in {rows, [rows EXCEPT ![id] = b]}
    BY <1>11 DEF CrashInAdd, UpsertAsset
  <2>3. phase' = [q \in Requests |-> IF q \in UnderWay \cup {r} THEN "lost" ELSE phase[q]]
    BY <1>11 DEF CrashInAdd, Die
  <2>4. \A q \in Requests : phase'[q] \in {"idle", "uploading"} => q # r /\ phase'[q] = phase[q]
    BY <2>3
  <2> QED BY <2>1, <2>2, <2>4, FreshAdded
<1>12. ASSUME NEW r \in Requests, NEW id \in Ids, StartDelete(r, id) PROVE IdsFresh'
  BY <1>0, <1>12, FreshKept DEF StartDelete, Answer, memory, tables
<1>13. ASSUME NEW S \in SUBSET expiring, Sweep(S) PROVE IdsFresh'
  <2>1. \A i \in Ids : record'[i] \in {None, record[i]}
    BY <1>0, <1>13, ForgottenLess DEF Sweep
  <2> QED BY <1>13, <2>1, FreshKept DEF Sweep, tables
<1>14. CASE Crash
  <2>1. \A i \in Ids : record'[i] = None
    BY <1>14 DEF Crash, Die, Nothing
  <2>2. \A q \in Requests : phase'[q] \in {phase[q], "lost"}
    BY <1>14 DEF Crash, Die
  <2> QED BY <1>14, <2>1, <2>2, FreshKept DEF Crash, tables
<1>15. CASE Restart
  BY <1>15, FreshKept DEF Restart, tables
<1> QED BY <1>1, <1>2, <1>3, <1>4, <1>5, <1>6, <1>7, <1>8, <1>9, <1>10, <1>11, <1>12,
           <1>13, <1>14, <1>15 DEF Next

\* Errors are counted up.
LEMMA ErrorsGrow == [Next]_vars => storeErrors' \in {storeErrors, storeErrors + 1}
<1> SUFFICES ASSUME [Next]_vars PROVE storeErrors' \in {storeErrors, storeErrors + 1}
  OBVIOUS
<1> USE DEF faults
<1>1. ASSUME NEW r \in Requests, \/ Refuse(r) \/ Received(r) \/ UploadFails(r)
                                \/ Erase(r) \/ EraseFails(r) \/ FinishDelete(r)
      PROVE  storeErrors' \in {storeErrors, storeErrors + 1}
  BY <1>1 DEF Refuse, Received, Add, UploadFails, Erase, EraseFails, FinishDelete
<1>2. ASSUME NEW r \in Requests, NEW b \in Blobs,
             Deduplicate(r, b) \/ Register(r, b) \/ SendInput(r, b)
      PROVE  storeErrors' \in {storeErrors, storeErrors + 1}
  BY <1>2 DEF Deduplicate, Register, Add, SendInput
<1>3. ASSUME NEW r \in Requests, NEW b \in Blobs, NEW id \in Ids,
             AddFails(r, id, b) \/ CrashInAdd(r, id, b)
      PROVE  storeErrors' \in {storeErrors, storeErrors + 1}
  BY <1>3 DEF AddFails, CrashInAdd, Die
<1>4. ASSUME NEW S, Sweep(S) PROVE storeErrors' \in {storeErrors, storeErrors + 1}
  BY <1>4 DEF Sweep
<1>5. CASE Crash \/ Restart \/ UNCHANGED vars
  BY <1>5 DEF Crash, Die, Restart, vars
<1>6. ASSUME NEW r \in Requests, NEW id \in Ids, StartDelete(r, id)
      PROVE  storeErrors' \in {storeErrors, storeErrors + 1}
  BY <1>6 DEF StartDelete
<1> QED BY <1>1, <1>2, <1>3, <1>4, <1>5, <1>6 DEF Next

LEMMA HomeStep == IndexInv /\ [Next]_vars => IndexSound'
<1> SUFFICES ASSUME IndexInv, [Next]_vars, storeErrors' = 0
             PROVE  LeadsHome(slot', record') /\ LeadsHome(hashRows', rows')
  BY DEF IndexSound, LeadsHome
<1>0. /\ MemoryOK /\ TablesOK /\ TypeInv /\ IdsFresh /\ storeErrors \in Nat
      /\ \A r \in Requests : phase[r] \in {"deleting", "erased"} => victim[r] \in Ids
  BY AssetsAssumption DEF IndexInv, TypeInv, TypeOK, MemoryOK, TablesOK, AssetsAssumption
<1>a. storeErrors = 0
  BY <1>0, ErrorsGrow
<1>b. LeadsHome(slot, record) /\ LeadsHome(hashRows, rows)
  BY <1>a DEF IndexInv, IndexSound
<1>c. ASSUME UNCHANGED memory PROVE LeadsHome(slot', record')
  BY <1>b, <1>c DEF memory
<1>d. ASSUME UNCHANGED tables PROVE LeadsHome(hashRows', rows')
  BY <1>b, <1>d DEF tables
<1>e. ASSUME NEW dead, Die(dead) PROVE LeadsHome(slot', record')
  BY <1>e DEF Die, Vacant, LeadsHome
<1>1. CASE UNCHANGED vars
  BY <1>1, <1>c, <1>d DEF vars
<1>2. ASSUME NEW r \in Requests, Refuse(r) \/ UploadFails(r)
      PROVE  LeadsHome(slot', record') /\ LeadsHome(hashRows', rows')
  BY <1>2, <1>c, <1>d DEF Refuse, UploadFails
<1>3. ASSUME NEW r \in Requests, Received(r)
      PROVE  LeadsHome(slot', record') /\ LeadsHome(hashRows', rows')
  <2>1. PICK id \in InputIds(r) : Add(r, id, bytes[r])
    BY <1>3 DEF Received
  <2>2. bytes[r] \in Blobs /\ Adding(r, id, bytes[r])
    BY <1>0, <1>3, <2>1 DEF Received, Adding, TypeInv
  <2> QED BY <1>0, <1>b, <2>1, <2>2, AddingNames, AddingFresh, AddedHome, UpsertedHome DEF Add
<1>4. ASSUME NEW r \in Requests, Erase(r)
      PROVE  LeadsHome(slot', record') /\ LeadsHome(hashRows', rows')
  BY <1>0, <1>4, <1>b, <1>c, <1>d, ErasedHome DEF Erase
<1>5. ASSUME NEW r \in Requests, EraseFails(r) PROVE FALSE
  BY <1>0, <1>5, <1>a DEF EraseFails
<1>6. ASSUME NEW r \in Requests, FinishDelete(r)
      PROVE  LeadsHome(slot', record') /\ LeadsHome(hashRows', rows')
  BY <1>0, <1>6, <1>b, <1>d, ForgottenHome DEF FinishDelete
<1>7. ASSUME NEW r \in Requests, NEW b \in Blobs, Deduplicate(r, b)
      PROVE  LeadsHome(slot', record') /\ LeadsHome(hashRows', rows')
  BY <1>7, <1>c, <1>d DEF Deduplicate
<1>8. ASSUME NEW r \in Requests, NEW b \in Blobs, Register(r, b)
      PROVE  LeadsHome(slot', record') /\ LeadsHome(hashRows', rows')
  <2>1. Adding(r, r, b) /\ Add(r, r, b)
    BY <1>8 DEF Register, Adding
  <2> QED BY <1>0, <1>b, <2>1, AddingNames, AddingFresh, AddedHome, UpsertedHome DEF Add
<1>9. ASSUME NEW r \in Requests, NEW b \in Blobs, SendInput(r, b)
      PROVE  LeadsHome(slot', record') /\ LeadsHome(hashRows', rows')
  BY <1>9, <1>c, <1>d DEF SendInput
<1>10. ASSUME NEW r \in Requests, NEW b \in Blobs, NEW id \in Ids, AddFails(r, id, b)
       PROVE  FALSE
  BY <1>0, <1>10, <1>a DEF AddFails
<1>11. ASSUME NEW r \in Requests, NEW b \in Blobs, NEW id \in Ids, CrashInAdd(r, id, b)
       PROVE  LeadsHome(slot', record') /\ LeadsHome(hashRows', rows')
  BY <1>0, <1>11, <1>b, <1>e, AddingNames, AddingFresh, UpsertedHome DEF CrashInAdd
<1>12. ASSUME NEW r \in Requests, NEW id \in Ids, StartDelete(r, id)
       PROVE  LeadsHome(slot', record') /\ LeadsHome(hashRows', rows')
  BY <1>12, <1>c, <1>d DEF StartDelete
<1>13. ASSUME NEW S \in SUBSET expiring, Sweep(S)
       PROVE  LeadsHome(slot', record') /\ LeadsHome(hashRows', rows')
  BY <1>0, <1>13, <1>b, <1>d, ForgottenHome DEF Sweep
<1>14. CASE Crash
  BY <1>14, <1>d, <1>e DEF Crash
<1>15. CASE Restart
  BY <1>15, <1>b, <1>d DEF Restart
<1> QED BY <1>1, <1>2, <1>3, <1>4, <1>5, <1>6, <1>7, <1>8, <1>9, <1>10, <1>11, <1>12,
           <1>13, <1>14, <1>15 DEF Next

\* A hash always leads to a live asset of its content, in memory and in the
\* tables, as long as no SQLite call raises.
THEOREM HashLeadsHome == Spec => []IndexSound
<1>1. Init => IndexInv
  BY TypeInit DEF IndexInv, IdsFresh, IndexSound, LeadsHome, Init, Nothing, Vacant, Ids
<1>2. IndexInv /\ [Next]_vars => IndexInv'
  BY TypeStep, IdsFreshStep, HomeStep DEF IndexInv
<1>3. IndexInv => IndexSound
  BY DEF IndexInv
<1> QED BY <1>1, <1>2, <1>3, PTL DEF Spec

-----------------------------------------------------------------------------
(* Deleted assets *)

\* Why a drawn id stays dead: a row is never without its record while the process
\* runs, so that a restart cannot bring back what memory forgot; a delete finds
\* only ids whose request has added them, and no request adds one twice.
DeleteInv ==
  /\ ~durable => \A i \in Ids : rows[i] = None
  /\ up => \A i \in Requests : rows[i] # None => record[i] # None
  /\ \A r \in Requests : (phase[r] \in {"deleting", "erased", "gone"} /\ victim[r] \in Requests)
       => phase[victim[r]] \notin {"idle", "uploading"}
  /\ \A r \in Requests : (phase[r] = "erased" /\ victim[r] \in Requests) => rows[victim[r]] = None
  /\ DeletedStaysDeleted

\* A step of request r that adds b under id: id is r's own or no request's.
LEMMA DeletedAdded ==
  ASSUME TypeInv, DeleteInv, NEW r \in Requests, NEW b \in Blobs, NEW id, Adding(r, id, b),
         NEW p \in {"answered", "failed"}, phase' = [phase EXCEPT ![r] = p], up,
         record' = [record EXCEPT ![id] = b],
         rows' \in {rows, IF durable THEN [rows EXCEPT ![id] = b] ELSE rows},
         UNCHANGED <<up, durable, victim>>
  PROVE  DeleteInv'
<1>1. id \in Ids /\ (id = r \/ id = b) /\ phase[r] \in {"idle", "uploading"}
  BY AddingNames DEF Adding
<1>2. ASSUME NEW i \in Requests, i # r PROVE i \in Ids /\ record'[i] = record[i] /\ rows'[i] = rows[i]
  BY <1>1, <1>2, Names DEF TypeInv, TypeOK
<1>3. ~durable => rows' = rows
  OBVIOUS
<1>4. up' => \A i \in Requests : rows'[i] # None => record'[i] # None
  BY <1>1, <1>2, Names DEF DeleteInv, TypeInv, TypeOK
<1>5. \A q \in Requests : phase'[q] = IF q = r THEN p ELSE phase[q]
  BY DEF TypeInv, TypeOK
<1>6. ASSUME NEW q \in Requests, phase'[q] \in {"deleting", "erased", "gone"}, victim'[q] \in Requests
      PROVE  q # r /\ phase[q] = phase'[q] /\ victim'[q] # r
             /\ phase'[victim'[q]] \notin {"idle", "uploading"}
  BY <1>1, <1>5, <1>6 DEF DeleteInv
<1>7. \A q \in Requests : (phase'[q] = "erased" /\ victim'[q] \in Requests) => rows'[victim'[q]] = None
  BY <1>2, <1>6 DEF DeleteInv
<1>8. DeletedStaysDeleted'
  BY <1>2, <1>6 DEF DeleteInv, DeletedStaysDeleted
<1> QED BY <1>3, <1>4, <1>6, <1>7, <1>8 DEF DeleteInv

\* A step that adds nothing and deletes nothing.
LEMMA DeletedKept ==
  ASSUME DeleteInv, UNCHANGED <<up, durable, victim, record, rows>>,
         \A q \in Requests : /\ phase'[q] = phase[q] \/ phase'[q] \notin {"deleting", "erased", "gone"}
                             /\ phase'[q] \in {"idle", "uploading"} => phase[q] \in {"idle", "uploading"}
  PROVE  DeleteInv'
  BY DEF DeleteInv, DeletedStaysDeleted

\* The death of the process, with or without a record just committed.
LEMMA DeletedDeath ==
  ASSUME TypeInv, DeleteInv, NEW dead, Die(dead), UnderWay \subseteq dead,
         \A i \in Requests : rows'[i] = rows[i] \/ phase[i] \in {"idle", "uploading"},
         ~durable => rows' = rows
  PROVE  DeleteInv'
<1>1. /\ ~up' /\ victim' = victim /\ durable' = durable /\ record' = Nothing
      /\ phase' = [q \in Requests |-> IF q \in dead THEN "lost" ELSE phase[q]]
  BY DEF Die, request
<1>2. \A q \in Requests : /\ phase'[q] \in {phase[q], "lost"}
                          /\ phase'[q] # "erased"
  BY <1>1 DEF UnderWay
<1>3. \A i \in Requests : record'[i] = None
  BY <1>1, Names DEF Nothing
<1>4. DeletedStaysDeleted'
  BY <1>1, <1>2, <1>3 DEF DeleteInv, DeletedStaysDeleted
<1> QED BY <1>1, <1>2, <1>4 DEF DeleteInv

LEMMA DeleteStep == TypeInv /\ IdsFresh /\ DeleteInv /\ [Next]_vars => DeleteInv'
<1> SUFFICES ASSUME TypeInv, IdsFresh, DeleteInv, [Next]_vars PROVE DeleteInv'
  OBVIOUS
<1>0. /\ phase \in [Requests -> Phases] /\ rows \in [Ids -> Blobs \cup {None}]
      /\ victim \in [Requests -> Ids \cup {None}] /\ record \in [Ids -> Blobs \cup {None}]
      /\ \A r \in Requests : phase[r] \in {"deleting", "erased"} => victim[r] \in Ids
  BY DEF TypeInv, TypeOK
<1> USE DEF request, memory, tables
<1>1. CASE UNCHANGED vars
  BY <1>1, DeletedKept DEF vars
<1>2. ASSUME NEW r \in Requests, Refuse(r) \/ UploadFails(r) PROVE DeleteInv'
  BY <1>0, <1>2, DeletedKept DEF Refuse, UploadFails, Answer
<1>3. ASSUME NEW r \in Requests, Received(r) PROVE DeleteInv'
  <2>1. PICK id \in InputIds(r) : Add(r, id, bytes[r])
    BY <1>3 DEF Received
  <2>2. bytes[r] \in Blobs /\ Adding(r, id, bytes[r])
    BY <1>3, <2>1 DEF Received, Adding, TypeInv
  <2> QED BY <2>1, <2>2, DeletedAdded DEF Add, Answer, AddInMemory, UpsertAsset
<1>4. ASSUME NEW r \in Requests, Erase(r) PROVE DeleteInv'
  <2>1. /\ up /\ UNCHANGED <<up, durable, victim, record>>
        /\ phase[r] = "deleting" /\ phase' = [phase EXCEPT ![r] = "erased"] /\ victim[r] \in Ids
    BY <1>0, <1>4 DEF Erase, Answer
  <2>2. rows' = IF durable /\ record[victim[r]] # None THEN [rows EXCEPT ![victim[r]] = None] ELSE rows
    BY <1>4 DEF Erase, DeleteAsset
  <2>3. \A i \in Ids : rows'[i] \in {None, rows[i]}
    BY <1>0, <2>2
  <2>4. victim[r] \in Requests => rows'[victim[r]] = None
    BY <1>0, <2>1, <2>2 DEF DeleteInv
  <2>5. \A q \in Requests : phase'[q] = IF q = r THEN "erased" ELSE phase[q]
    BY <1>0, <2>1
  <2>6. DeletedStaysDeleted'
    BY <2>1, <2>3, <2>5, Names DEF DeleteInv, DeletedStaysDeleted
  <2> QED BY <2>1, <2>3, <2>4, <2>5, <2>6, Names DEF DeleteInv
<1>5. ASSUME NEW r \in Requests, EraseFails(r) PROVE DeleteInv'
  <2>1. /\ UNCHANGED <<up, durable, victim, record>> /\ durable
        /\ phase[r] = "deleting" /\ phase' = [phase EXCEPT ![r] = "failed"] /\ victim[r] \in Ids
    BY <1>0, <1>5 DEF EraseFails, Answer
  <2>2. \A i \in Ids : rows'[i] \in {None, rows[i]}
    BY <1>0, <1>5, <2>1, ErasedLess DEF EraseFails, TypeInv, TypeOK, TablesOK
  <2>3. \A q \in Requests : phase'[q] = IF q = r THEN "failed" ELSE phase[q]
    BY <1>0, <2>1
  <2>4. DeletedStaysDeleted'
    BY <2>1, <2>2, <2>3, Names DEF DeleteInv, DeletedStaysDeleted
  <2> QED BY <2>1, <2>2, <2>3, <2>4, Names DEF DeleteInv
<1>6. ASSUME NEW r \in Requests, FinishDelete(r) PROVE DeleteInv'
  <2>1. /\ UNCHANGED <<up, durable, victim, rows>>
        /\ phase[r] = "erased" /\ phase' = [phase EXCEPT ![r] = "gone"] /\ victim[r] \in Ids
    BY <1>0, <1>6 DEF FinishDelete, Answer
  <2>2. record' = [i \in Ids |-> IF i \in {victim[r]} THEN None ELSE record[i]]
    BY <1>6 DEF FinishDelete, Forget
  <2>3. \A q \in Requests : phase'[q] = IF q = r THEN "gone" ELSE phase[q]
    BY <1>0, <2>1
  <2>4. \A i \in Requests : record'[i] = IF i = victim[r] THEN None ELSE record[i]
    BY <2>2, Names
  <2>5. DeletedStaysDeleted'
    BY <2>1, <2>3, <2>4 DEF DeleteInv, DeletedStaysDeleted
  <2> QED BY <2>1, <2>3, <2>4, <2>5 DEF DeleteInv
<1>7. ASSUME NEW r \in Requests, NEW b \in Blobs, Deduplicate(r, b) PROVE DeleteInv'
  BY <1>0, <1>7, DeletedKept DEF Deduplicate, Answer
<1>8. ASSUME NEW r \in Requests, NEW b \in Blobs, Register(r, b) PROVE DeleteInv'
  <2>1. Adding(r, r, b) /\ Add(r, r, b)
    BY <1>8 DEF Register, Adding
  <2> QED BY <2>1, DeletedAdded DEF Add, Answer, AddInMemory, UpsertAsset
<1>9. ASSUME NEW r \in Requests, NEW b \in Blobs, SendInput(r, b) PROVE DeleteInv'
  BY <1>0, <1>9, DeletedKept DEF SendInput, Answer
<1>10. ASSUME NEW r \in Requests, NEW b \in Blobs, NEW id \in Ids, AddFails(r, id, b)
       PROVE  DeleteInv'
  BY <1>10, DeletedAdded DEF AddFails, Answer, AddInMemory, UpsertAsset, Halfway
<1>11. ASSUME NEW r \in Requests, NEW b \in Blobs, NEW id \in Ids, CrashInAdd(r, id, b)
       PROVE  DeleteInv'
  <2>1. Adding(r, id, b) /\ durable /\ rows' = [rows EXCEPT ![id] = b]
    BY <1>11 DEF CrashInAdd, UpsertAsset
  <2>2. phase[r] \in {"idle", "uploading"} /\ (id = r \/ id = b)
    BY <2>1, AddingNames DEF Adding
  <2>3. \A i \in Requests : rows'[i] = rows[i] \/ i = r
    BY <1>0, <2>1, <2>2, Names
  <2> QED BY <1>11, <2>1, <2>2, <2>3, DeletedDeath DEF CrashInAdd
<1>12. ASSUME NEW r \in Requests, NEW id \in Ids, StartDelete(r, id) PROVE DeleteInv'
  <2>1. /\ UNCHANGED <<up, durable, record, rows>> /\ record[id] # None
        /\ phase[r] = "idle" /\ phase' = [phase EXCEPT ![r] = "deleting"]
        /\ victim' = [victim EXCEPT ![r] = id]
    BY <1>12 DEF StartDelete, Answer
  <2>2. id \in Requests => phase[id] \notin {"idle", "uploading"}
    BY <2>1 DEF IdsFresh
  <2>3. \A q \in Requests : /\ phase'[q] = IF q = r THEN "deleting" ELSE phase[q]
                            /\ victim'[q] = IF q = r THEN id ELSE victim[q]
    BY <1>0, <2>1
  <2>4. DeletedStaysDeleted'
    BY <2>1, <2>3 DEF DeleteInv, DeletedStaysDeleted
  <2> QED BY <2>1, <2>2, <2>3, <2>4 DEF DeleteInv
<1>13. ASSUME NEW S \in SUBSET expiring, Sweep(S) PROVE DeleteInv'
  <2>1. UNCHANGED <<up, durable, victim, rows, phase>> /\ ~durable
    BY <1>13 DEF Sweep
  <2>2. \A i \in Requests : rows[i] = None /\ record'[i] \in {None, record[i]}
    BY <1>13, <2>1, Names DEF Sweep, Forget, DeleteInv
  <2>3. DeletedStaysDeleted'
    BY <2>1, <2>2 DEF DeleteInv, DeletedStaysDeleted
  <2> QED BY <2>1, <2>2, <2>3 DEF DeleteInv
<1>14. CASE Crash
  BY <1>14, DeletedDeath DEF Crash
<1>15. CASE Restart
  <2>1. UNCHANGED <<durable, victim, rows, phase>> /\ record' = rows
    BY <1>15 DEF Restart
  <2>2. DeletedStaysDeleted'
    BY <2>1 DEF DeleteInv, DeletedStaysDeleted
  <2> QED BY <2>1, <2>2 DEF DeleteInv
<1> QED BY <1>1, <1>2, <1>3, <1>4, <1>5, <1>6, <1>7, <1>8, <1>9, <1>10, <1>11, <1>12,
           <1>13, <1>14, <1>15 DEF Next

\* An asset whose delete was answered is in neither memory nor table ever after,
\* SQLite errors included.
THEOREM DeletesLast == Spec => []DeletedStaysDeleted
<1>1. Init => TypeInv /\ IdsFresh /\ DeleteInv
  BY TypeInit DEF Init, IdsFresh, DeleteInv, DeletedStaysDeleted, Nothing, Ids
<1>2. TypeInv /\ IdsFresh /\ DeleteInv /\ [Next]_vars => (TypeInv /\ IdsFresh /\ DeleteInv)'
  BY TypeStep, IdsFreshStep, DeleteStep
<1>3. DeleteInv => DeletedStaysDeleted
  BY DEF DeleteInv
<1> QED BY <1>1, <1>2, <1>3, PTL DEF Spec

-----------------------------------------------------------------------------
(* Answered assets *)

\* What memory holds the table holds, but for what a delete has taken away; so a
\* duplicate is answered with a durable id.  What a delete is about to take from
\* memory has been counted as removed, and a dead process leaves no delete behind.
TableHasIt == (storeErrors = 0 /\ up /\ durable) =>
                \A i \in Ids \ removed : record[i] # None => rows[i] # None
DeletesCounted ==
  /\ \A r \in Requests : phase[r] = "deleting" => victim[r] \in removed \/ record[victim[r]] # None
  /\ \A r \in Requests : phase[r] = "erased" => victim[r] \in removed
  /\ ~up => crashes # 0 /\ \A r \in Requests : phase[r] \notin {"deleting", "erased"}
SurviveInv == TableHasIt /\ DeletesCounted /\ AnsweredAssetSurvives

\* A step after which every asset that was there, and was not removed, still is.
LEMMA SurvivedKept ==
  ASSUME TypeInv, AnsweredAssetSurvives, storeErrors' = 0 => storeErrors = 0,
         UNCHANGED <<durable, answer>>, removed \subseteq removed',
         \A i \in Ids \ removed' : durable /\ rows[i] # None => rows'[i] # None,
         up' => /\ up /\ crashes' = crashes
                /\ \A i \in Ids \ removed' : record[i] # None => record'[i] # None
  PROVE  AnsweredAssetSurvives'
<1> SUFFICES ASSUME storeErrors' = 0, NEW r \in Requests, answer'[r] \notin removed' \cup {None}
             PROVE  Survives(answer[r])'
  BY DEF AnsweredAssetSurvives, IdsSurvive, Survives
<1>1. answer[r] \in Ids \ removed' /\ Survives(answer[r])
  BY DEF AnsweredAssetSurvives, IdsSurvive, TypeInv, TypeOK
<1> QED BY <1>1 DEF Survives

\* A step that adds content b under id and answers r, or fails.
LEMMA SurvivedAdded ==
  ASSUME TypeInv, SurviveInv, NEW r \in Requests, NEW b \in Blobs, NEW id, Adding(r, id, b), up,
         NEW p \in Phases \ {"deleting", "erased"}, phase' = [phase EXCEPT ![r] = p],
         storeErrors' = 0 => storeErrors = 0,
         storeErrors' = 0 => rows' = IF durable THEN [rows EXCEPT ![id] = b] ELSE rows,
         answer' \in {answer, [answer EXCEPT ![r] = id]},
         record' = [record EXCEPT ![id] = b],
         UNCHANGED <<up, durable, victim, removed, crashes>>
  PROVE  SurviveInv'
<1>1. id \in Ids
  BY AddingNames
<1>2. \A i \in Ids : record'[i] = IF i = id THEN b ELSE record[i]
  BY <1>1 DEF TypeInv, TypeOK
<1>3. storeErrors' = 0 => \A i \in Ids : rows'[i] = IF i = id /\ durable THEN b ELSE rows[i]
  BY <1>1 DEF TypeInv, TypeOK
<1>4. TableHasIt'
  BY <1>2, <1>3, Names DEF SurviveInv, TableHasIt
<1>5. \A q \in Requests : phase'[q] = IF q = r THEN p ELSE phase[q]
  BY DEF TypeInv, TypeOK
<1>6. \A q \in Requests : phase[q] = "deleting" => victim[q] \in Ids
  BY DEF TypeInv
<1>7. DeletesCounted'
  BY <1>2, <1>5, <1>6, Names DEF SurviveInv, DeletesCounted
<1>8. ASSUME storeErrors' = 0, NEW q \in Requests, answer'[q] \notin removed' \cup {None}
      PROVE  Survives(answer[q])'
  <2>1. answer'[q] = id \/ answer'[q] = answer[q]
    BY DEF TypeInv, TypeOK
  <2>2. answer[q] \in Ids \cup {None}
    BY DEF TypeInv, TypeOK
  <2>3. CASE answer'[q] = id
    BY <1>1, <1>2, <1>3, <1>8, <2>3, Names DEF Survives
  <2>4. CASE answer'[q] = answer[q]
    <3>1. Survives(answer[q]) /\ answer[q] \in Ids
      BY <1>8, <2>2, <2>4 DEF SurviveInv, AnsweredAssetSurvives, IdsSurvive
    <3> QED BY <1>2, <1>3, <1>8, <2>4, <3>1, Names DEF Survives
  <2> QED BY <2>1, <2>3, <2>4
<1>9. AnsweredAssetSurvives'
  BY <1>8 DEF AnsweredAssetSurvives, IdsSurvive
<1> QED BY <1>4, <1>7, <1>9 DEF SurviveInv

\* A step of a request that touches neither memory nor tables.
LEMMA SurvivedStill ==
  ASSUME TypeInv, SurviveInv, storeErrors' = 0 => storeErrors = 0,
         \A q \in Requests : phase'[q] = phase[q] \/ phase'[q] \notin {"deleting", "erased"},
         UNCHANGED <<up, durable, victim, answer, record, rows, removed, crashes>>
  PROVE  SurviveInv'
<1>1. AnsweredAssetSurvives'
  BY SurvivedKept DEF SurviveInv
<1> QED BY <1>1 DEF SurviveInv, TableHasIt, DeletesCounted

\* The death of the process.
LEMMA SurvivedDeath ==
  ASSUME TypeInv, SurviveInv, NEW dead, Die(dead), UnderWay \subseteq dead,
         \A i \in Ids : rows[i] # None => rows'[i] # None
  PROVE  SurviveInv'
<1>1. /\ ~up' /\ UNCHANGED <<durable, answer, victim, removed, storeErrors>>
      /\ phase' = [q \in Requests |-> IF q \in dead THEN "lost" ELSE phase[q]]
  BY DEF Die, request
<1>2. \A q \in Requests : phase'[q] \notin {"deleting", "erased"}
  BY <1>1 DEF UnderWay
<1>3. crashes' = crashes + 1 /\ crashes \in Nat
  BY AssetsAssumption DEF Die, TypeInv, TypeOK, AssetsAssumption
<1>4. AnsweredAssetSurvives'
  BY <1>1, SurvivedKept DEF SurviveInv
<1> QED BY <1>1, <1>2, <1>3, <1>4 DEF SurviveInv, TableHasIt, DeletesCounted

LEMMA SurviveStep == TypeInv /\ SurviveInv /\ [Next]_vars => SurviveInv'
<1> SUFFICES ASSUME TypeInv, SurviveInv, [Next]_vars PROVE SurviveInv'
  OBVIOUS
<1>0. /\ phase \in [Requests -> Phases] /\ rows \in [Ids -> Blobs \cup {None}]
      /\ slot \in [Blobs -> Ids \cup {None}] /\ answer \in [Requests -> Ids \cup {None}]
      /\ victim \in [Requests -> Ids \cup {None}] /\ record \in [Ids -> Blobs \cup {None}]
      /\ \A r \in Requests : phase[r] \in {"deleting", "erased"} => victim[r] \in Ids
  BY DEF TypeInv, TypeOK
<1>a. storeErrors' = 0 => storeErrors = 0
  BY ErrorsGrow, AssetsAssumption DEF TypeInv, TypeOK, AssetsAssumption
<1> USE DEF request, memory, tables, faults
<1>1. CASE UNCHANGED vars
  BY <1>1, SurvivedStill DEF vars
<1>2. ASSUME NEW r \in Requests, Refuse(r) \/ UploadFails(r) PROVE SurviveInv'
  BY <1>0, <1>2, SurvivedStill DEF Refuse, UploadFails, Answer
<1>3. ASSUME NEW r \in Requests, Received(r) PROVE SurviveInv'
  <2>1. PICK id \in InputIds(r) : Add(r, id, bytes[r])
    BY <1>3 DEF Received
  <2>2. bytes[r] \in Blobs /\ Adding(r, id, bytes[r])
    BY <1>3, <2>1 DEF Received, Adding, TypeInv
  <2> QED BY <2>1, <2>2, <1>a, SurvivedAdded DEF Add, Answer, AddInMemory, UpsertAsset, Phases
<1>4. ASSUME NEW r \in Requests, Erase(r) PROVE SurviveInv'
  <2>1. /\ up /\ UNCHANGED <<up, durable, victim, answer, record, crashes>>
        /\ phase[r] = "deleting" /\ phase' = [phase EXCEPT ![r] = "erased"] /\ victim[r] \in Ids
    BY <1>0, <1>4 DEF Erase, Answer
  <2>2. /\ victim[r] \in removed' /\ removed' \subseteq removed \cup {victim[r]}
        /\ removed \subseteq removed'
    BY <1>4, <2>1 DEF Erase, SurviveInv, DeletesCounted
  <2>3. \A i \in Ids \ removed' : rows'[i] = rows[i]
    BY <1>0, <1>4, <2>1, <2>2 DEF Erase, DeleteAsset
  <2>4. \A q \in Requests : phase'[q] = IF q = r THEN "erased" ELSE phase[q]
    BY <1>0, <2>1
  <2>5. TableHasIt'
    BY <1>a, <2>1, <2>2, <2>3 DEF SurviveInv, TableHasIt
  <2>6. DeletesCounted'
    BY <2>1, <2>2, <2>4 DEF SurviveInv, DeletesCounted
  <2>7. AnsweredAssetSurvives'
    BY <1>a, <2>1, <2>2, <2>3, SurvivedKept DEF SurviveInv
  <2> QED BY <2>5, <2>6, <2>7 DEF SurviveInv
<1>5. ASSUME NEW r \in Requests, EraseFails(r) PROVE SurviveInv'
  <2>1. /\ UNCHANGED <<up, durable, victim, record, crashes>> /\ storeErrors' # 0 /\ up
        /\ phase' = [phase EXCEPT ![r] = "failed"] /\ removed \subseteq removed'
    BY <1>5, AssetsAssumption DEF EraseFails, Answer, TypeInv, TypeOK, AssetsAssumption
  <2>2. \A q \in Requests : phase'[q] = IF q = r THEN "failed" ELSE phase[q]
    BY <1>0, <2>1
  <2>3. DeletesCounted'
    BY <2>1, <2>2 DEF SurviveInv, DeletesCounted
  <2> QED BY <2>1, <2>3 DEF SurviveInv, TableHasIt, AnsweredAssetSurvives
<1>6. ASSUME NEW r \in Requests, FinishDelete(r) PROVE SurviveInv'
  <2>1. /\ up /\ UNCHANGED <<up, durable, victim, answer, rows, removed, crashes>>
        /\ phase[r] = "erased" /\ phase' = [phase EXCEPT ![r] = "gone"] /\ victim[r] \in Ids
    BY <1>0, <1>6 DEF FinishDelete, Answer
  <2>2. victim[r] \in removed
    BY <2>1 DEF SurviveInv, DeletesCounted
  <2>3. \A i \in Ids : record'[i] = IF i = victim[r] THEN None ELSE record[i]
    BY <1>6 DEF FinishDelete, Forget
  <2>4. \A q \in Requests : phase'[q] = IF q = r THEN "gone" ELSE phase[q]
    BY <1>0, <2>1
  <2>5. TableHasIt'
    BY <1>a, <2>1, <2>2, <2>3 DEF SurviveInv, TableHasIt
  <2>6. DeletesCounted'
    BY <1>0, <2>1, <2>2, <2>3, <2>4 DEF SurviveInv, DeletesCounted
  <2>7. AnsweredAssetSurvives'
    BY <1>a, <2>1, <2>2, <2>3, SurvivedKept DEF SurviveInv
  <2> QED BY <2>5, <2>6, <2>7 DEF SurviveInv
<1>7. ASSUME NEW r \in Requests, NEW b \in Blobs, Deduplicate(r, b) PROVE SurviveInv'
  <2>1. /\ up /\ UNCHANGED <<up, durable, victim, record, rows, removed, crashes, storeErrors>>
        /\ phase' = [phase EXCEPT ![r] = "answered"] /\ answer' = [answer EXCEPT ![r] = slot[b]]
    BY <1>7 DEF Deduplicate, Answer
  <2>2. slot[b] \in Ids /\ record[slot[b]] # None
    BY <1>7 DEF Deduplicate, Missing, Stored
  <2>3. \A q \in Requests : /\ phase'[q] = IF q = r THEN "answered" ELSE phase[q]
                            /\ answer'[q] = IF q = r THEN slot[b] ELSE answer[q]
    BY <1>0, <2>1
  <2>4. TableHasIt' /\ DeletesCounted'
    BY <2>1, <2>3 DEF SurviveInv, TableHasIt, DeletesCounted
  <2>5. ASSUME storeErrors' = 0, NEW q \in Requests, answer'[q] \notin removed' \cup {None}
        PROVE  Survives(answer[q])'
    <3>1. CASE q = r
      BY <2>1, <2>2, <2>3, <2>5, <3>1 DEF Survives, SurviveInv, TableHasIt
    <3>2. CASE q # r
      <4>1. Survives(answer[q]) /\ answer'[q] = answer[q]
        BY <2>1, <2>3, <2>5, <3>2 DEF SurviveInv, AnsweredAssetSurvives, IdsSurvive
      <4> QED BY <2>1, <4>1 DEF Survives
    <3> QED BY <3>1, <3>2
  <2>6. AnsweredAssetSurvives'
    BY <2>5 DEF AnsweredAssetSurvives, IdsSurvive
  <2> QED BY <2>4, <2>6 DEF SurviveInv
<1>8. ASSUME NEW r \in Requests, NEW b \in Blobs, Register(r, b) PROVE SurviveInv'
  <2>1. Adding(r, r, b) /\ Add(r, r, b)
    BY <1>8 DEF Register, Adding
  <2> QED BY <2>1, <1>a, SurvivedAdded DEF Add, Answer, AddInMemory, UpsertAsset, Phases
<1>9. ASSUME NEW r \in Requests, NEW b \in Blobs, SendInput(r, b) PROVE SurviveInv'
  BY <1>0, <1>9, SurvivedStill DEF SendInput, Answer
<1>10. ASSUME NEW r \in Requests, NEW b \in Blobs, NEW id \in Ids, AddFails(r, id, b)
       PROVE  SurviveInv'
  <2>1. storeErrors' # 0
    BY <1>10, AssetsAssumption DEF AddFails, TypeInv, TypeOK, AssetsAssumption
  <2> QED BY <1>10, <2>1, SurvivedAdded DEF AddFails, Answer, AddInMemory, Phases
<1>11. ASSUME NEW r \in Requests, NEW b \in Blobs, NEW id \in Ids, CrashInAdd(r, id, b)
       PROVE  SurviveInv'
  <2>1. \A i \in Ids : rows[i] # None => rows'[i] # None
    BY <1>0, <1>11, Names DEF CrashInAdd, UpsertAsset
  <2> QED BY <1>11, <2>1, SurvivedDeath DEF CrashInAdd
<1>12. ASSUME NEW r \in Requests, NEW id \in Ids, StartDelete(r, id) PROVE SurviveInv'
  <2>1. /\ up /\ UNCHANGED <<up, durable, answer, record, rows, removed, crashes>> /\ record[id] # None
        /\ phase' = [phase EXCEPT ![r] = "deleting"] /\ victim' = [victim EXCEPT ![r] = id]
    BY <1>12 DEF StartDelete, Answer
  <2>2. \A q \in Requests : /\ phase'[q] = IF q = r THEN "deleting" ELSE phase[q]
                            /\ victim'[q] = IF q = r THEN id ELSE victim[q]
    BY <1>0, <2>1
  <2>3. TableHasIt' /\ DeletesCounted'
    BY <1>a, <2>1, <2>2 DEF SurviveInv, TableHasIt, DeletesCounted
  <2>4. AnsweredAssetSurvives'
    BY <1>a, <2>1, SurvivedKept DEF SurviveInv
  <2> QED BY <2>3, <2>4 DEF SurviveInv
<1>13. ASSUME NEW S \in SUBSET expiring, Sweep(S) PROVE SurviveInv'
  <2>1. /\ up /\ ~durable /\ removed' = removed \cup S
        /\ UNCHANGED <<up, durable, phase, victim, answer, rows, crashes>>
    BY <1>13 DEF Sweep
  <2>2. \A i \in Ids : record'[i] = IF i \in S THEN None ELSE record[i]
    BY <1>13 DEF Sweep, Forget
  <2>3. TableHasIt' /\ DeletesCounted'
    BY <1>0, <2>1, <2>2 DEF SurviveInv, TableHasIt, DeletesCounted
  <2>4. AnsweredAssetSurvives'
    BY <1>a, <2>1, <2>2, SurvivedKept DEF SurviveInv
  <2> QED BY <2>3, <2>4 DEF SurviveInv
<1>14. CASE Crash
  BY <1>14, SurvivedDeath DEF Crash
<1>15. CASE Restart
  <2>1. /\ ~up /\ UNCHANGED <<durable, phase, victim, answer, rows, removed, crashes, storeErrors>>
        /\ record' = rows
    BY <1>15 DEF Restart
  <2>2. crashes # 0 /\ \A r \in Requests : phase[r] \notin {"deleting", "erased"}
    BY <2>1 DEF SurviveInv, DeletesCounted
  <2>3. TableHasIt' /\ DeletesCounted'
    BY <2>1, <2>2 DEF TableHasIt, DeletesCounted
  <2>4. AnsweredAssetSurvives'
    BY <2>1, <2>2 DEF SurviveInv, AnsweredAssetSurvives, IdsSurvive, Survives
  <2> QED BY <2>3, <2>4 DEF SurviveInv
<1> QED BY <1>1, <1>2, <1>3, <1>4, <1>5, <1>6, <1>7, <1>8, <1>9, <1>10, <1>11, <1>12,
           <1>13, <1>14, <1>15 DEF Next

\* An asset a caller was given is in memory, and with --state-dir in the table,
\* until a delete or the sweep takes it away, as long as no SQLite call raises.
THEOREM AnswersLast == Spec => []AnsweredAssetSurvives
<1>1. Init => TypeInv /\ SurviveInv
  BY TypeInit DEF Init, SurviveInv, TableHasIt, DeletesCounted, AnsweredAssetSurvives, IdsSurvive,
     Nothing
<1>2. TypeInv /\ SurviveInv /\ [Next]_vars => (TypeInv /\ SurviveInv)'
  BY TypeStep, SurviveStep
<1>3. SurviveInv => AnsweredAssetSurvives
  BY DEF SurviveInv
<1> QED BY <1>1, <1>2, <1>3, PTL DEF Spec

-----------------------------------------------------------------------------
(* Memory and table *)

\* A delete that is back from the thread, or finds nothing to erase there, is of an
\* asset that was taken away.
RemovedInv ==
  /\ ~up => \A q \in Requests : phase[q] \notin {"deleting", "erased"}
  /\ \A q \in Requests :
       (phase[q] = "erased" \/ (phase[q] = "deleting" /\ record[victim[q]] = None))
         => victim[q] \in removed

\* A step that begins no delete, and takes out of memory what was removed only.
LEMMA RemovedKept ==
  ASSUME TypeInv, RemovedInv, ~up' => ~up, removed \subseteq removed',
         \A q \in Requests : phase'[q] \in {"deleting", "erased"} =>
                               phase'[q] = phase[q] /\ victim'[q] = victim[q],
         \A i \in Ids : record'[i] = None => record[i] = None \/ i \in removed'
  PROVE  RemovedInv'
<1>1. \A q \in Requests : phase[q] \in {"deleting", "erased"} => victim[q] \in Ids
  BY DEF TypeInv
<1> QED BY <1>1 DEF RemovedInv

LEMMA RemovedStep == TypeInv /\ RemovedInv /\ [Next]_vars => RemovedInv'
<1> SUFFICES ASSUME TypeInv, RemovedInv, [Next]_vars PROVE RemovedInv'
  OBVIOUS
<1>0. /\ phase \in [Requests -> Phases] /\ victim \in [Requests -> Ids \cup {None}]
      /\ record \in [Ids -> Blobs \cup {None}]
      /\ \A r \in Requests : phase[r] \in {"deleting", "erased"} => victim[r] \in Ids
  BY DEF TypeInv, TypeOK
<1> USE DEF request, memory, tables, faults
<1>1. CASE UNCHANGED vars
  BY <1>1, RemovedKept DEF vars
<1>2. ASSUME NEW r \in Requests, Refuse(r) \/ UploadFails(r) PROVE RemovedInv'
  BY <1>0, <1>2, RemovedKept DEF Refuse, UploadFails, Answer
<1>3. ASSUME NEW r \in Requests, NEW id, NEW b \in Blobs, Answer(r, "answered") \/ Answer(r, "failed"),
             AddInMemory(id, b), UNCHANGED <<victim, removed>>
      PROVE  RemovedInv'
  <2>1. \A i \in Ids : record'[i] = None => record[i] = None
    BY <1>0, <1>3, Names DEF AddInMemory
  <2> QED BY <1>0, <1>3, <2>1, RemovedKept DEF Answer
<1>4. ASSUME NEW r \in Requests, Received(r) PROVE RemovedInv'
  <2>1. bytes[r] \in Blobs
    BY <1>4 DEF Received, TypeInv
  <2> QED BY <1>3, <1>4, <2>1 DEF Received, Add
<1>5. ASSUME NEW r \in Requests, NEW b \in Blobs, Register(r, b) PROVE RemovedInv'
  BY <1>3, <1>5 DEF Register, Add
<1>6. ASSUME NEW r \in Requests, NEW b \in Blobs, NEW id \in Ids, AddFails(r, id, b) PROVE RemovedInv'
  BY <1>3, <1>6 DEF AddFails
<1>7. ASSUME NEW r \in Requests, Erase(r) PROVE RemovedInv'
  <2>1. /\ up /\ UNCHANGED <<up, victim, record>> /\ removed \subseteq removed'
        /\ phase[r] = "deleting" /\ phase' = [phase EXCEPT ![r] = "erased"]
        /\ victim[r] \in removed'
    BY <1>7 DEF Erase, Answer, RemovedInv
  <2> QED BY <1>0, <2>1 DEF RemovedInv
<1>8. ASSUME NEW r \in Requests, EraseFails(r) PROVE RemovedInv'
  <2>1. /\ UNCHANGED <<up, victim, record>> /\ removed \subseteq removed'
        /\ phase' = [phase EXCEPT ![r] = "failed"]
    BY <1>8 DEF EraseFails, Answer
  <2> QED BY <1>0, <2>1, RemovedKept
<1>9. ASSUME NEW r \in Requests, FinishDelete(r) PROVE RemovedInv'
  <2>1. /\ up' = up /\ UNCHANGED <<victim, removed>>
        /\ phase[r] = "erased" /\ phase' = [phase EXCEPT ![r] = "gone"]
    BY <1>9 DEF FinishDelete, Answer
  <2>2. \A i \in Ids : record'[i] = IF i = victim[r] THEN None ELSE record[i]
    BY <1>9 DEF FinishDelete, Forget
  <2>3. victim[r] \in removed
    BY <2>1 DEF RemovedInv
  <2> QED BY <1>0, <2>1, <2>2, <2>3, RemovedKept
<1>10. ASSUME NEW r \in Requests, NEW b \in Blobs, Deduplicate(r, b) \/ SendInput(r, b)
       PROVE  RemovedInv'
  BY <1>0, <1>10, RemovedKept DEF Deduplicate, SendInput, Answer
<1>11. ASSUME NEW r \in Requests, NEW id \in Ids, StartDelete(r, id) PROVE RemovedInv'
  <2>1. /\ up /\ up' = up /\ UNCHANGED <<record, removed>> /\ record[id] # None
        /\ phase' = [phase EXCEPT ![r] = "deleting"] /\ victim' = [victim EXCEPT ![r] = id]
    BY <1>11 DEF StartDelete, Answer
  <2> QED BY <1>0, <2>1 DEF RemovedInv
<1>12. ASSUME NEW S, Sweep(S) PROVE RemovedInv'
  <2>1. /\ UNCHANGED <<up, phase, victim>> /\ removed' = removed \cup S
        /\ \A i \in Ids : record'[i] = IF i \in S THEN None ELSE record[i]
    BY <1>12 DEF Sweep, Forget
  <2> QED BY <2>1, RemovedKept
<1>13. ASSUME NEW dead, UnderWay \subseteq dead, Die(dead) PROVE RemovedInv'
  <2>1. \A q \in Requests : phase'[q] \notin {"deleting", "erased"}
    BY <1>13 DEF Die, UnderWay
  <2> QED BY <2>1 DEF RemovedInv
<1>14. CASE Restart
  <2>1. ~up /\ phase' = phase
    BY <1>14 DEF Restart
  <2> QED BY <2>1 DEF RemovedInv
<1> QED BY <1>1, <1>2, <1>4, <1>5, <1>6, <1>7, <1>8, <1>9, <1>10, <1>11, <1>12, <1>13, <1>14
        DEF Next, Crash, CrashInAdd

\* The inductive form of RecordsAgree: the one way to differ is a row that is
\* gone while its delete has not come back to the event loop.
Mirrored ==
  (up /\ durable /\ storeErrors = 0) =>
    \A i \in Ids \ Reissued : record[i] = rows[i] \/ (rows[i] = None /\ i \in Busy)

\* A step that treats memory and table alike, and ends no delete.
LEMMA MirrorKept ==
  ASSUME Mirrored, UNCHANGED durable, (up' /\ durable /\ storeErrors' = 0) => up /\ storeErrors = 0,
         (up' /\ durable /\ storeErrors' = 0) =>
           \A i \in Ids : \/ record'[i] = rows'[i]
                          \/ record'[i] = record[i] /\ rows'[i] = rows[i],
         removed \subseteq removed',
         \A q \in Requests : phase[q] \in {"deleting", "erased"} =>
                               phase'[q] \in {"deleting", "erased"} /\ victim'[q] = victim[q]
  PROVE  Mirrored'
<1>1. \A i : i \in Busy => i \in Busy'
  BY DEF Busy
<1>2. Reissued \subseteq Reissued'
  BY DEF Reissued
<1> QED BY <1>1, <1>2 DEF Mirrored

LEMMA MirrorStep ==
  TypeInv /\ DeleteInv /\ RemovedInv /\ Mirrored /\ [Next]_vars => Mirrored'
<1> SUFFICES ASSUME TypeInv, DeleteInv, RemovedInv, Mirrored, [Next]_vars PROVE Mirrored'
  OBVIOUS
<1>0. /\ phase \in [Requests -> Phases] /\ victim \in [Requests -> Ids \cup {None}]
      /\ record \in [Ids -> Blobs \cup {None}] /\ rows \in [Ids -> Blobs \cup {None}]
  BY DEF TypeInv, TypeOK
<1>a. storeErrors' = 0 => storeErrors = 0
  BY ErrorsGrow, AssetsAssumption DEF TypeInv, TypeOK, AssetsAssumption
<1> USE DEF request, memory, tables, faults
<1>1. CASE UNCHANGED vars
  BY <1>1, MirrorKept DEF vars
<1>2. ASSUME NEW r \in Requests, Refuse(r) \/ UploadFails(r) PROVE Mirrored'
  BY <1>0, <1>2, MirrorKept DEF Refuse, UploadFails, Answer
<1>b. ASSUME NEW r \in Requests, NEW id, NEW b, phase[r] \in {"idle", "uploading"}, Add(r, id, b)
      PROVE  Mirrored'
  <2>1. /\ up /\ UNCHANGED <<up, durable, victim, removed>> /\ phase' = [phase EXCEPT ![r] = "answered"]
        /\ record' = [record EXCEPT ![id] = b]
        /\ durable => rows' = [rows EXCEPT ![id] = b]
    BY <1>b DEF Add, Answer, AddInMemory, UpsertAsset
  <2>2. durable => \A i \in Ids : \/ record'[i] = rows'[i]
                                  \/ record'[i] = record[i] /\ rows'[i] = rows[i]
    BY <1>0, <2>1, Names
  <2> QED BY <1>0, <1>a, <1>b, <2>1, <2>2, MirrorKept
<1>3. ASSUME NEW r \in Requests, Received(r) PROVE Mirrored'
  BY <1>3, <1>b DEF Received
<1>4. ASSUME NEW r \in Requests, NEW b \in Blobs, Register(r, b) PROVE Mirrored'
  BY <1>4, <1>b DEF Register
<1>5. ASSUME NEW r \in Requests, Erase(r) PROVE Mirrored'
  <2>1. /\ up /\ UNCHANGED <<up, durable, victim, record, storeErrors>>
        /\ phase[r] = "deleting" /\ phase' = [phase EXCEPT ![r] = "erased"]
    BY <1>5 DEF Erase, Answer
  <2>2. /\ \A i : i \in Busy => i \in Busy'
        /\ victim[r] \in Busy' /\ Reissued \subseteq Reissued'
    BY <1>0, <1>5, <2>1 DEF Busy, Reissued, Erase
  <2>3. durable => \A i \in Ids : /\ i # victim[r] => rows'[i] = rows[i]
                                  /\ rows'[victim[r]] \in {rows[victim[r]], None}
    BY <1>0, <1>5 DEF Erase, DeleteAsset
  <2> QED BY <2>1, <2>2, <2>3, Names DEF Mirrored
<1>6. ASSUME NEW r \in Requests, FinishDelete(r) PROVE Mirrored'
  <2>1. /\ up /\ UNCHANGED <<up, durable, victim, rows, removed, storeErrors>>
        /\ phase[r] = "erased" /\ phase' = [phase EXCEPT ![r] = "gone"]
    BY <1>6 DEF FinishDelete, Answer
  <2>2. \A i \in Ids : record'[i] = IF i = victim[r] THEN None ELSE record[i]
    BY <1>6 DEF FinishDelete, Forget
  <2>3. (victim[r] \in Requests => rows[victim[r]] = None) /\ victim[r] \in removed
    BY <2>1 DEF DeleteInv, RemovedInv
  <2>4. \A i : i \in Busy /\ i # victim[r] => i \in Busy'
    BY <1>0, <2>1 DEF Busy
  <2> QED BY <2>1, <2>2, <2>3, <2>4, Names DEF Mirrored, Reissued, Ids
<1>7. ASSUME NEW r \in Requests, EraseFails(r) PROVE Mirrored'
  <2>1. storeErrors' # 0
    BY <1>7, AssetsAssumption DEF EraseFails, TypeInv, TypeOK, AssetsAssumption
  <2> QED BY <2>1 DEF Mirrored
<1>8. ASSUME NEW r \in Requests, NEW b \in Blobs, NEW id \in Ids, AddFails(r, id, b)
      PROVE  Mirrored'
  <2>1. storeErrors' # 0
    BY <1>8, AssetsAssumption DEF AddFails, TypeInv, TypeOK, AssetsAssumption
  <2> QED BY <2>1 DEF Mirrored
<1>9. ASSUME NEW r \in Requests, NEW b \in Blobs, Deduplicate(r, b) \/ SendInput(r, b)
      PROVE  Mirrored'
  BY <1>0, <1>9, MirrorKept DEF Deduplicate, SendInput, Answer
<1>10. ASSUME NEW r \in Requests, NEW id \in Ids, StartDelete(r, id) PROVE Mirrored'
  BY <1>0, <1>10, MirrorKept DEF StartDelete, Answer
<1>11. ASSUME NEW S, Sweep(S) PROVE Mirrored'
  BY <1>11 DEF Sweep, Mirrored
<1>12. ASSUME NEW dead, Die(dead) PROVE Mirrored'
  BY <1>12 DEF Die, Mirrored
<1>13. CASE Restart
  BY <1>13 DEF Restart, Mirrored
<1> QED BY <1>1, <1>2, <1>3, <1>4, <1>5, <1>6, <1>7, <1>8, <1>9, <1>10, <1>11, <1>12, <1>13
        DEF Next, Crash, CrashInAdd

\* Write-through (assets.py:17-19): while the process runs with --state-dir and no
\* SQLite call raises, memory and the table hold the same assets, but for those
\* whose delete is between the thread and the event loop, and for catalog ids that a
\* delete has taken away, which ComfyUI may give out again meanwhile.
THEOREM MemoryIsTable == Spec => []RecordsAgree
<1>1. Init => TypeInv /\ IdsFresh /\ DeleteInv /\ RemovedInv /\ Mirrored
  BY TypeInit, Names
  DEF Init, IdsFresh, DeleteInv, DeletedStaysDeleted, RemovedInv, Mirrored, Nothing, Ids
<1>2. TypeInv /\ IdsFresh /\ DeleteInv /\ RemovedInv /\ Mirrored /\ [Next]_vars
        => (TypeInv /\ IdsFresh /\ DeleteInv /\ RemovedInv /\ Mirrored)'
  BY TypeStep, IdsFreshStep, DeleteStep, RemovedStep, MirrorStep
<1>3. Mirrored => RecordsAgree
  BY DEF Mirrored, RecordsAgree, Reissued
<1> QED BY <1>1, <1>2, <1>3, PTL DEF Spec
=============================================================================
