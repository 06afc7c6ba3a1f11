------------------------ MODULE SubmissionIndexProofs ------------------------
(***************************************************************************)
(* Proofs about the Idempotency-Key index of Submission: who holds a key,  *)
(* how many claims are kept, and which claim the cap may evict.            *)
(*                                                                         *)
(* The index changes in seven ways only (IndexMove); each invariant below  *)
(* is carried through those seven instead of through every action.         *)
(***************************************************************************)
EXTENDS SubmissionProofs

Faults == crashes + storeErrors

-----------------------------------------------------------------------------
(* The seven ways *)

Rests == /\ memAt' = memAt /\ dbAt' = dbAt /\ up' = up
         /\ clock' \in {clock, clock + 1} /\ Faults' \in {Faults, Faults + 1}

Copies(k) ==
  /\ k \in DbHeld \ MemHeld /\ memAt' = MemInserted(k) /\ dbAt' = dbAt
  /\ up' = up /\ clock' = clock + 1 /\ Faults' = Faults

Claims(k) ==
  /\ k \in Keys \ (MemHeld \cup DbHeld)
  /\ memAt' = MemClaimed(k) /\ dbAt' = DbClaimed(k)
  /\ up /\ up' /\ clock' = clock + 1 /\ Faults' = Faults

FailsToClaim(k) ==
  /\ k \in Keys \ (MemHeld \cup DbHeld) /\ Durable
  /\ \/ memAt' = memAt /\ dbAt' \in {dbAt, DbInserted(k)}
     \/ Evicting(k) /\ memAt' = MemClaimed(k)
        /\ dbAt' \in {DbInserted(k), DbReleased(k), DbClaimed(k)}
  /\ up /\ up' /\ clock' = clock + 1 /\ Faults' = Faults + 1

Releases(r) ==
  /\ phase[r] = "posting" /\ phase'[r] # "posting"
  /\ memAt' = ReleasedMem(r)
  /\ \/ dbAt' = ReleasedDb(r) /\ Faults' = Faults
     \/ dbAt' \in {dbAt, ReleasedDb(r)} /\ Faults' = Faults + 1
  /\ up' = up /\ clock' = clock

Dies ==
  /\ ~up' /\ memAt' = [k \in Keys |-> 0] /\ Faults' = Faults + 1
  /\ clock' \in {clock, clock + 1}
  /\ \/ dbAt' = dbAt
     \/ \E r \in Requests : dbAt' = ReleasedDb(r)
     \/ \E k \in Keys \ (MemHeld \cup DbHeld) :
          /\ Durable /\ clock' = clock + 1
          /\ dbAt' \in {DbInserted(k), DbReleased(k), DbClaimed(k)}

Restarts == /\ memAt' = dbAt /\ dbAt' = dbAt /\ ~up /\ clock' = clock /\ Faults' = Faults

IndexMove ==
  \/ Rests \/ Dies \/ Restarts
  \/ \E k \in Keys : Copies(k) \/ Claims(k) \/ FailsToClaim(k)
  \/ \E r \in Requests : Releases(r)

\* Every step of the proxy is one of the seven.
LEMMA StepsMoveIndex == ASSUME ConstantsAssumption, Typed, [Next]_vars PROVE IndexMove
<1>0. /\ TypeOK /\ clock \in Nat /\ crashes \in Nat /\ storeErrors \in Nat
  BY DEF Typed, TypeOK, ConstantsAssumption
<1> USE DEF Faults
<1>1. ASSUME NEW r \in Requests, RefuseInvalid(r) \/ Dispatch(r) \/ Accept(r) \/ Reject(r)
                                 \/ OnUnreachable(r)
      PROVE  Rests
  BY <1>0, <1>1 DEF RefuseInvalid, Dispatch, Accept, Reject, Decide, OnUnreachable, Answer,
                    Rests, keyIndex, bounds
<1>2. ASSUME NEW r \in Requests, OnAccepted(r) \/ OnAcceptedFails(r) PROVE Rests
  BY <1>0, <1>2 DEF OnAccepted, OnAcceptedFails, Answer, Rests, keyIndex
<1>3. ASSUME NEW r \in Requests, OnRejected(r) \/ OnRejectedFails(r) PROVE Releases(r)
  BY <1>0, <1>3 DEF OnRejected, OnRejectedFails, Answer, Releases, bounds, TypeOK
<1>4. ASSUME NEW r \in Requests, NEW k \in Keys, RefuseReuse(r, k) PROVE Rests \/ Copies(k)
  BY <1>0, <1>4 DEF RefuseReuse, Answer, Rests, Copies
<1>5. ASSUME NEW r \in Requests, NEW k \in Keys, ClaimAndDispatch(r, k) PROVE Claims(k)
  BY <1>0, <1>5 DEF ClaimAndDispatch, Claim, Answer, Claims
<1>6. ASSUME NEW r \in Requests, NEW k \in Keys, ClaimFails(r, k) PROVE FailsToClaim(k)
  BY <1>0, <1>6 DEF ClaimFails, Claim, Answer, FailsToClaim
<1>7. ASSUME NEW r \in Requests, NEW k \in Keys, CrashInClaim(r, k) PROVE Dies
  BY <1>0, <1>7 DEF CrashInClaim, Claim, Die, Dies
<1>8. ASSUME NEW dead, NEW db, NEW rows, NEW back, Die(dead, db, rows, back)
      PROVE  /\ ~up' /\ memAt' = [k \in Keys |-> 0] /\ Faults' = Faults + 1 /\ dbAt' = db
  BY <1>0, <1>8 DEF Die
<1>9. ASSUME NEW r \in Requests, CrashInRelease(r) \/ CrashInRecord(r) PROVE Dies
  <2>1. /\ clock' \in {clock, clock + 1}
        /\ \/ Die(Posting, ReleasedDb(r), rowAt, {reqKey[r]})
           \/ Die(Posting, dbAt, Recorded(r), {})
    BY <1>9 DEF CrashInRelease, CrashInRecord
  <2>2. /\ ~up' /\ memAt' = [k \in Keys |-> 0] /\ Faults' = Faults + 1
        /\ dbAt' = ReleasedDb(r) \/ dbAt' = dbAt
    BY <1>8, <2>1
  <2> HIDE DEF Faults
  <2> QED BY <2>1, <2>2 DEF Dies
<1>10. CASE Crash
  <2>1. clock' = clock /\ Die(Posting, dbAt, rowAt, {})
    BY <1>10 DEF Crash
  <2>2. ~up' /\ memAt' = [k \in Keys |-> 0] /\ Faults' = Faults + 1 /\ dbAt' = dbAt
    BY <1>8, <2>1
  <2> HIDE DEF Faults
  <2> QED BY <2>1, <2>2 DEF Dies, IndexMove
<1>11. CASE Restart
  BY <1>0, <1>11 DEF Restart, Restarts, IndexMove, bounds
<1>12. CASE UNCHANGED vars
  BY <1>0, <1>12 DEF vars, Rests, IndexMove, keyIndex, bounds
<1> QED BY <1>1, <1>2, <1>3, <1>4, <1>5, <1>6, <1>7, <1>9, <1>10, <1>11, <1>12
           DEF Next, Handle, IndexMove

\* What the values a claim writes hold: the key at the next reading of the
\* clock, and entries that were there, the evicted one removed.
LEMMA ClaimValues ==
  ASSUME ConstantsAssumption, TypeOK, NEW k \in Keys
  PROVE  /\ MemInserted(k) \in [Keys -> Nat] /\ Held(MemInserted(k)) = MemHeld \cup {k}
         /\ MemInserted(k)[k] = clock + 1
         /\ \A x \in Keys \ {k} : MemInserted(k)[x] = memAt[x]
         /\ MemClaimed(k) \in [Keys -> Nat]
         /\ Held(MemClaimed(k)) = (MemHeld \cup {k}) \ Evicted(k)
         /\ \A x \in Keys : MemClaimed(k)[x] \in {0, MemInserted(k)[x]}
         /\ Held(DbInserted(k)) = IF Durable THEN DbHeld \cup {k} ELSE DbHeld
         /\ Held(DbReleased(k)) = Held(DbInserted(k)) \ Evicted(k)
         /\ Held(DbClaimed(k)) \subseteq Held(DbReleased(k))
         /\ \A db \in {DbInserted(k), DbReleased(k), DbClaimed(k)} :
              /\ db \in [Keys -> Nat]
              /\ db[k] \in {0, dbAt[k], clock + 1}
              /\ \A x \in Keys \ {k} : db[x] \in {0, dbAt[x]}
<1>0. memAt \in [Keys -> Nat] /\ dbAt \in [Keys -> Nat] /\ clock \in Nat
  BY DEF TypeOK
<1>1. /\ MemInserted(k) \in [Keys -> Nat] /\ Held(MemInserted(k)) = MemHeld \cup {k}
      /\ MemInserted(k)[k] = clock + 1
      /\ \A x \in Keys \ {k} : MemInserted(k)[x] = memAt[x]
  BY <1>0 DEF MemInserted, MemHeld, Held
<1>2. /\ MemClaimed(k) \in [Keys -> Nat]
      /\ Held(MemClaimed(k)) = Held(MemInserted(k)) \cap (Keys \ Evicted(k))
      /\ \A x \in Keys : MemClaimed(k)[x] \in {0, MemInserted(k)[x]}
  BY <1>1, KeepFacts DEF MemClaimed
<1>3. /\ DbInserted(k) \in [Keys -> Nat]
      /\ Held(DbInserted(k)) = IF Durable THEN DbHeld \cup {k} ELSE DbHeld
      /\ DbInserted(k)[k] \in {dbAt[k], clock + 1}
      /\ \A x \in Keys \ {k} : DbInserted(k)[x] = dbAt[x]
  <2>1. CASE Durable
    BY <1>0, <2>1 DEF DbInserted, DbHeld, Held
  <2>2. CASE ~Durable
    BY <1>0, <2>2 DEF DbInserted, DbHeld, Held
  <2> QED BY <2>1, <2>2
<1>4. /\ DbReleased(k) \in [Keys -> Nat]
      /\ Held(DbReleased(k)) = Held(DbInserted(k)) \cap (Keys \ Evicted(k))
      /\ \A x \in Keys : DbReleased(k)[x] \in {0, DbInserted(k)[x]}
  BY <1>3, KeepFacts DEF DbReleased
<1>5. /\ DbClaimed(k) \in [Keys -> Nat]
      /\ Held(DbClaimed(k)) \subseteq Held(DbReleased(k))
      /\ \A x \in Keys : DbClaimed(k)[x] \in {0, DbReleased(k)[x]}
  <2>1. CASE Evicting(k)
    <3>1. PICK T : T = Newest(DbReleased(k), MaxKeys)
      OBVIOUS
    <3>2. DbClaimed(k) = Keep(DbReleased(k), T)
      BY <2>1, <3>1 DEF DbClaimed
    <3> QED BY <1>4, <3>2, KeepFacts
  <2>2. CASE ~Evicting(k)
    BY <1>4, <2>2 DEF DbClaimed
  <2> QED BY <2>1, <2>2
<1>6. Held(MemInserted(k)) \subseteq Keys /\ Held(DbInserted(k)) \subseteq Keys
  BY <1>1, <1>3, HeldSubset
<1> QED BY <1>1, <1>2, <1>3, <1>4, <1>5, <1>6

\* A rejection removes one key from memory and from the table.
LEMMA ReleaseValues ==
  ASSUME ConstantsAssumption, Typed, NEW r \in Requests
  PROVE  /\ ReleasedMem(r) \in [Keys -> Nat] /\ ReleasedDb(r) \in [Keys -> Nat]
         /\ Held(ReleasedMem(r)) = MemHeld \ {reqKey[r]}
         /\ Held(ReleasedDb(r)) = DbHeld \ {reqKey[r]}
         /\ \A x \in Keys : ReleasedMem(r)[x] \in {0, memAt[x]}
         /\ \A x \in Keys : ReleasedDb(r)[x] \in {0, dbAt[x]}
<1>0. /\ memAt \in [Keys -> Nat] /\ dbAt \in [Keys -> Nat]
      /\ MemHeld \subseteq Keys /\ DbHeld \subseteq Keys
      /\ ~Durable => DbHeld = {}
  BY DEF Typed, TypeOK, IndexOK, MemHeld, DbHeld, Held
<1>1. PICK T : T = Keys \ {reqKey[r]}
  OBVIOUS
<1>2. ReleasedMem(r) = Keep(memAt, T) /\ ReleasedDb(r) = IF Durable THEN Keep(dbAt, T) ELSE dbAt
  BY <1>1 DEF ReleasedMem, ReleasedDb
<1>3. /\ Keep(memAt, T) \in [Keys -> Nat] /\ Held(Keep(memAt, T)) = MemHeld \cap T
      /\ \A x \in Keys : Keep(memAt, T)[x] \in {0, memAt[x]}
      /\ Keep(dbAt, T) \in [Keys -> Nat] /\ Held(Keep(dbAt, T)) = DbHeld \cap T
      /\ \A x \in Keys : Keep(dbAt, T)[x] \in {0, dbAt[x]}
  BY <1>0, KeepFacts DEF MemHeld, DbHeld
<1>4. CASE Durable
  BY <1>0, <1>1, <1>2, <1>3, <1>4
<1>5. CASE ~Durable
  BY <1>0, <1>1, <1>2, <1>3, <1>5 DEF DbHeld
<1> QED BY <1>4, <1>5
-----------------------------------------------------------------------------
(* Entries of an index are finitely many, and no two share a place *)

Orderly(at) ==
  IsFiniteSet(Held(at)) /\ \A x, y \in Held(at) : at[x] = at[y] => x = y
Indexed == Orderly(memAt) /\ Orderly(dbAt)

\* An index stays orderly when entries go, or one is put at the next reading.
LEMMA OrderlyKept ==
  ASSUME NEW old \in [Keys -> Nat], NEW new \in [Keys -> Nat], NEW k, NEW n \in Nat,
         Orderly(old), \A x \in Keys : old[x] <= n,
         \A x \in Keys \ {k} : new[x] \in {0, old[x]},
         k \in Keys => new[k] \in {0, old[k], n + 1}
  PROVE  Orderly(new)
<1>1. Held(new) \subseteq Held(old) \cup {k}
  BY DEF Held
<1>2. IsFiniteSet(Held(new))
  <2>1. IsFiniteSet(Held(old) \cup {k})
    BY FS_AddElement DEF Orderly
  <2> QED BY <1>1, <2>1, FS_Subset
<1>3. ASSUME NEW x \in Held(new), NEW y \in Held(new), new[x] = new[y] PROVE x = y
  <2>1. x \in Keys /\ y \in Keys /\ new[x] > 0 /\ new[y] > 0
    BY DEF Held
  <2>2. CASE x # k /\ y # k
    <3>1. new[x] = old[x] /\ new[y] = old[y]
      BY <2>1, <2>2
    <3> QED BY <1>3, <2>1, <3>1 DEF Orderly, Held
  <2>3. CASE x = k /\ y # k
    <3>1. new[y] = old[y] /\ old[y] <= n /\ new[x] \in {old[x], n + 1}
      BY <2>1, <2>3
    <3>2. new[x] = old[x]
      BY <1>3, <2>1, <3>1
    <3> QED BY <1>3, <2>1, <3>1, <3>2 DEF Orderly, Held
  <2>4. CASE y = k /\ x # k
    <3>1. new[x] = old[x] /\ old[x] <= n /\ new[y] \in {old[y], n + 1}
      BY <2>1, <2>4
    <3>2. new[y] = old[y]
      BY <1>3, <2>1, <3>1
    <3> QED BY <1>3, <2>1, <3>1, <3>2 DEF Orderly, Held
  <2> QED BY <2>2, <2>3, <2>4
<1> QED BY <1>2, <1>3 DEF Orderly

LEMMA IndexedNext ==
  ASSUME ConstantsAssumption, Typed, Indexed, IndexMove PROVE Indexed'
<1>0. /\ TypeOK /\ clock \in Nat /\ memAt \in [Keys -> Nat] /\ dbAt \in [Keys -> Nat]
      /\ \A x \in Keys : memAt[x] <= clock /\ dbAt[x] <= clock
      /\ Orderly(memAt) /\ Orderly(dbAt)
  BY DEF Typed, TypeOK, IndexOK, Indexed
<1>1. ASSUME NEW old \in {memAt, dbAt}, NEW new \in [Keys -> Nat], NEW k,
             \A x \in Keys \ {k} : new[x] \in {0, old[x]},
             k \in Keys => new[k] \in {0, old[k], clock + 1}
      PROVE  Orderly(new)
  <2>1. old \in [Keys -> Nat] /\ Orderly(old) /\ \A x \in Keys : old[x] <= clock
    BY <1>0
  <2> QED BY <1>0, <1>1, <2>1, OrderlyKept
<1>2. ASSUME NEW k \in Keys PROVE Orderly(MemInserted(k)) /\ Orderly(MemClaimed(k))
  <2>1. /\ MemInserted(k) \in [Keys -> Nat] /\ MemInserted(k)[k] = clock + 1
        /\ \A x \in Keys \ {k} : MemInserted(k)[x] = memAt[x]
        /\ MemClaimed(k) \in [Keys -> Nat]
        /\ \A x \in Keys : MemClaimed(k)[x] \in {0, MemInserted(k)[x]}
    BY <1>0, ClaimValues
  <2>2. PICK m \in [Keys -> Nat] : m = MemInserted(k)
    BY <2>1
  <2>3. PICK c \in [Keys -> Nat] : c = MemClaimed(k)
    BY <2>1
  <2>4. Orderly(m)
    BY <1>1, <2>1, <2>2
  <2>5. c[k] \in {0, clock + 1} /\ \A x \in Keys \ {k} : c[x] \in {0, memAt[x]}
    BY <2>1, <2>2, <2>3
  <2>6. Orderly(c)
    BY <1>1, <2>5
  <2> QED BY <2>2, <2>3, <2>4, <2>6
<1>3. ASSUME NEW k \in Keys, NEW db \in {DbInserted(k), DbReleased(k), DbClaimed(k)}
      PROVE  Orderly(db)
  <2>1. /\ db \in [Keys -> Nat] /\ db[k] \in {0, dbAt[k], clock + 1}
        /\ \A x \in Keys \ {k} : db[x] \in {0, dbAt[x]}
    BY <1>0, <1>3, ClaimValues
  <2> QED BY <1>1, <2>1
<1>4. ASSUME NEW r \in Requests PROVE Orderly(ReleasedMem(r)) /\ Orderly(ReleasedDb(r))
  <2>1. PICK m \in [Keys -> Nat], d \in [Keys -> Nat] :
          /\ m = ReleasedMem(r) /\ \A x \in Keys : m[x] \in {0, memAt[x]}
          /\ d = ReleasedDb(r) /\ \A x \in Keys : d[x] \in {0, dbAt[x]}
    BY ReleaseValues
  <2>2. Orderly(m)
    BY <1>1, <2>1
  <2>3. Orderly(d)
    BY <1>1, <2>1
  <2> QED BY <2>1, <2>2, <2>3
<1>5. Orderly([k \in Keys |-> 0])
  BY FS_EmptySet DEF Orderly, Held
<1>6. Orderly(memAt') /\ Orderly(dbAt')
  <2>1. CASE Rests
    BY <1>0, <2>1 DEF Rests
  <2>2. CASE Restarts
    BY <1>0, <2>2 DEF Restarts
  <2>3. CASE Dies
    BY <1>0, <1>3, <1>4, <1>5, <2>3 DEF Dies
  <2>4. ASSUME NEW k \in Keys, Copies(k) PROVE Orderly(memAt') /\ Orderly(dbAt')
    BY <1>0, <1>2, <2>4 DEF Copies
  <2>5. ASSUME NEW k \in Keys, Claims(k) PROVE Orderly(memAt') /\ Orderly(dbAt')
    BY <1>0, <1>2, <1>3, <2>5 DEF Claims
  <2>6. ASSUME NEW k \in Keys, FailsToClaim(k) PROVE Orderly(memAt') /\ Orderly(dbAt')
    BY <1>0, <1>2, <1>3, <2>6 DEF FailsToClaim
  <2>7. ASSUME NEW r \in Requests, Releases(r) PROVE Orderly(memAt') /\ Orderly(dbAt')
    BY <1>0, <1>4, <2>7 DEF Releases
  <2> QED BY <2>1, <2>2, <2>3, <2>4, <2>5, <2>6, <2>7 DEF IndexMove
<1> QED BY <1>6 DEF Indexed, Orderly, Held
-----------------------------------------------------------------------------
(* The cap *)

\* Memory and the table together keep the cap but for the faults; and, while
\* the process runs, each fault left at most one row that memory does not know.
\* The second part is what a claim needs that evicts nothing.
Capped == /\ Cardinality(MemHeld \cup DbHeld) <= MaxKeys + Faults
          /\ up => Cardinality(DbHeld \ MemHeld) <= Faults

LEMMA AtMostOneMore ==
  ASSUME NEW S, IsFiniteSet(S), NEW x, NEW T, T \subseteq S \cup {x}
  PROVE  IsFiniteSet(T) /\ Cardinality(T) \in Nat /\ Cardinality(T) <= Cardinality(S) + 1
<1>1. IsFiniteSet(S \cup {x}) /\ Cardinality(S \cup {x}) <= Cardinality(S) + 1
  <2>1. Cardinality(S) \in Nat
    BY FS_CardinalityType
  <2> QED BY <2>1, FS_AddElement
<1>2. IsFiniteSet(T) /\ Cardinality(T) <= Cardinality(S \cup {x})
  BY <1>1, FS_Subset
<1> QED BY <1>1, <1>2, FS_CardinalityType

LEMMA NoMore ==
  ASSUME NEW S, IsFiniteSet(S), NEW T, T \subseteq S
  PROVE  IsFiniteSet(T) /\ Cardinality(T) \in Nat /\ Cardinality(T) <= Cardinality(S)
  BY FS_Subset, FS_CardinalityType

LEMMA CappedNext ==
  ASSUME ConstantsAssumption, Typed, Indexed, Capped, IndexMove PROVE Capped'
<1>0. /\ TypeOK /\ Faults \in Nat /\ MaxKeys \in Nat
      /\ IsFiniteSet(MemHeld) /\ IsFiniteSet(DbHeld)
      /\ MemHeld \subseteq Keys /\ DbHeld \subseteq Keys
  BY DEF Typed, TypeOK, Indexed, Orderly, MemHeld, DbHeld, Held, Faults, ConstantsAssumption
<1>1. PICK U, O : U = MemHeld \cup DbHeld /\ O = DbHeld \ MemHeld
  OBVIOUS
<1>2. /\ IsFiniteSet(U) /\ Cardinality(U) \in Nat /\ Cardinality(U) <= MaxKeys + Faults
      /\ IsFiniteSet(O) /\ Cardinality(O) \in Nat
      /\ up => Cardinality(O) <= Faults
  <2>1. IsFiniteSet(U) /\ IsFiniteSet(O)
    BY <1>0, <1>1, FS_Union, FS_Difference
  <2> QED BY <1>1, <2>1, FS_CardinalityType DEF Capped
<1>3. PICK Un, On : Un = (MemHeld \cup DbHeld)' /\ On = (DbHeld \ MemHeld)'
  OBVIOUS
<1>4. MemHeld' = Held(memAt') /\ DbHeld' = Held(dbAt')
  BY DEF MemHeld, DbHeld, Held
<1>5. SUFFICES Cardinality(Un) <= MaxKeys + Faults' /\ (up' => Cardinality(On) <= Faults')
  BY <1>3 DEF Capped
<1>6. CASE Rests
  <2>1. Un = U /\ On = O /\ up' = up /\ Faults' \in {Faults, Faults + 1}
    BY <1>1, <1>3, <1>4, <1>6 DEF Rests, MemHeld, DbHeld
  <2> QED BY <1>0, <1>2, <2>1
<1>7. CASE Restarts
  <2>1. Un \subseteq U /\ On = {} /\ Faults' = Faults
    BY <1>1, <1>3, <1>4, <1>7 DEF Restarts, MemHeld, DbHeld
  <2>2. Cardinality(Un) <= Cardinality(U) /\ Cardinality(Un) \in Nat
    BY <1>2, <2>1, NoMore
  <2>3. Cardinality(On) = 0
    BY <2>1, FS_EmptySet
  <2> QED BY <1>0, <1>2, <2>1, <2>2, <2>3
<1>8. CASE Dies
  <2>1. Held(memAt') = {} /\ Faults' = Faults + 1 /\ ~up'
    BY <1>8 DEF Dies, Held
  <2>2. \E x : DbHeld' \subseteq DbHeld \cup {x}
    <3>1. CASE dbAt' = dbAt
      BY <1>4, <3>1 DEF DbHeld
    <3>2. ASSUME NEW r \in Requests, dbAt' = ReleasedDb(r) PROVE \E x : DbHeld' \subseteq DbHeld \cup {x}
      BY <1>4, <3>2, ReleaseValues
    <3>3. ASSUME NEW k \in Keys, dbAt' \in {DbInserted(k), DbReleased(k), DbClaimed(k)}
          PROVE  DbHeld' \subseteq DbHeld \cup {k}
      BY <1>0, <1>4, <3>3, ClaimValues
    <3> QED BY <1>8, <3>1, <3>2, <3>3 DEF Dies
  <2>3. PICK x : Un \subseteq U \cup {x}
    BY <1>1, <1>3, <1>4, <2>1, <2>2
  <2>4. Cardinality(Un) <= Cardinality(U) + 1 /\ Cardinality(Un) \in Nat
    BY <1>2, <2>3, AtMostOneMore
  <2> QED BY <1>0, <1>2, <2>1, <2>4
<1>9. ASSUME NEW k \in Keys, Copies(k)
      PROVE  Cardinality(Un) <= MaxKeys + Faults' /\ (up' => Cardinality(On) <= Faults')
  <2>1. MemHeld' = MemHeld \cup {k} /\ DbHeld' = DbHeld /\ k \in DbHeld /\ up' = up /\ Faults' = Faults
    BY <1>0, <1>4, <1>9, ClaimValues DEF Copies, DbHeld
  <2>2. Un = U /\ On \subseteq O
    BY <1>1, <1>3, <2>1
  <2>3. Cardinality(On) <= Cardinality(O) /\ Cardinality(On) \in Nat
    BY <1>2, <2>2, NoMore
  <2> QED BY <1>0, <1>2, <2>1, <2>2, <2>3
<1>10. ASSUME NEW k \in Keys, k \notin MemHeld \cup DbHeld PROVE Evicted(k) \subseteq MemHeld
  BY <1>0, EvictedFacts DEF Typed, IndexOK, MemHeld
<1>11. ASSUME NEW k \in Keys, Claims(k)
       PROVE  Cardinality(Un) <= MaxKeys + Faults' /\ (up' => Cardinality(On) <= Faults')
  <2>1. /\ MemHeld' = (MemHeld \cup {k}) \ Evicted(k)
        /\ DbHeld' \subseteq (DbHeld \cup {k}) \ Evicted(k)
        /\ k \notin U /\ up /\ Faults' = Faults
    BY <1>0, <1>1, <1>4, <1>11, ClaimValues DEF Claims
  <2>2. On \subseteq O
    BY <1>1, <1>3, <2>1
  <2>3. Cardinality(On) <= Cardinality(O) /\ Cardinality(On) \in Nat
    BY <1>2, <2>2, NoMore
  <2>4. Cardinality(Un) <= MaxKeys + Faults
    <3>1. CASE Evicting(k)
      <4>1. PICK e : Evicted(k) = {e}
        BY <3>1 DEF Evicted
      <4>2. e \in U /\ e # k
        BY <1>1, <1>10, <2>1, <4>1
      <4>3. Un \subseteq (U \ {e}) \cup {k}
        BY <1>1, <1>3, <2>1, <4>1
      <4>4. IsFiniteSet(U \ {e}) /\ Cardinality(U \ {e}) = Cardinality(U) - 1
        BY <1>2, <4>2, FS_RemoveElement
      <4>5. Cardinality(Un) <= Cardinality(U \ {e}) + 1 /\ Cardinality(Un) \in Nat
        BY <4>3, <4>4, AtMostOneMore
      <4> QED BY <1>0, <1>2, <4>4, <4>5
    <3>2. CASE ~Evicting(k)
      <4>1. PICK m : m = MemHeld \cup {k}
        OBVIOUS
      <4>2. IsFiniteSet(m) /\ Cardinality(m) \in Nat
        BY <1>0, <4>1, FS_AddElement, FS_CardinalityType
      <4>3. Cardinality(m) <= MaxKeys
        <5>1. Held(MemInserted(k)) = m
          BY <1>0, <4>1, ClaimValues
        <5> QED BY <1>0, <3>2, <4>2, <5>1 DEF Evicting
      <4>4. Un \subseteq m \cup O
        BY <1>1, <1>3, <2>1, <4>1
      <4>5. /\ IsFiniteSet(m \cup O) /\ Cardinality(m \cap O) \in Nat
            /\ Cardinality(m \cup O) = Cardinality(m) + Cardinality(O) - Cardinality(m \cap O)
        BY <1>2, <4>2, FS_Union, FS_Intersection, FS_CardinalityType
      <4>6. Cardinality(Un) <= Cardinality(m \cup O) /\ Cardinality(Un) \in Nat
        BY <4>4, <4>5, NoMore
      <4> QED BY <1>0, <1>2, <2>1, <4>2, <4>3, <4>5, <4>6
    <3> QED BY <3>1, <3>2
  <2> QED BY <1>0, <1>2, <2>1, <2>3, <2>4
<1>12. ASSUME NEW k \in Keys, FailsToClaim(k)
       PROVE  Cardinality(Un) <= MaxKeys + Faults' /\ (up' => Cardinality(On) <= Faults')
  <2>1. /\ k \notin U /\ up /\ Faults' = Faults + 1
        /\ DbHeld' \subseteq DbHeld \cup {k}
        /\ \/ MemHeld' = MemHeld
           \/ Evicting(k) /\ MemHeld' = (MemHeld \cup {k}) \ Evicted(k)
    <3>1. dbAt' \in {dbAt, DbInserted(k), DbReleased(k), DbClaimed(k)}
      BY <1>12 DEF FailsToClaim
    <3>2. DbHeld' \subseteq DbHeld \cup {k}
      BY <1>0, <1>4, <3>1, ClaimValues DEF DbHeld
    <3> QED BY <1>0, <1>1, <1>4, <1>12, <3>2, ClaimValues DEF FailsToClaim, MemHeld
  <2>2. Un \subseteq U \cup {k}
    BY <1>1, <1>3, <2>1
  <2>3. \E x : On \subseteq O \cup {x}
    <3>1. CASE MemHeld' = MemHeld
      BY <1>1, <1>3, <2>1, <3>1
    <3>2. CASE Evicting(k) /\ MemHeld' = (MemHeld \cup {k}) \ Evicted(k)
      BY <1>1, <1>3, <2>1, <3>2 DEF Evicted
    <3> QED BY <2>1, <3>1, <3>2
  <2>4. Cardinality(Un) <= Cardinality(U) + 1 /\ Cardinality(Un) \in Nat
    BY <1>2, <2>2, AtMostOneMore
  <2>5. Cardinality(On) <= Cardinality(O) + 1 /\ Cardinality(On) \in Nat
    BY <1>2, <2>3, AtMostOneMore
  <2> QED BY <1>0, <1>2, <2>1, <2>4, <2>5
<1>13. ASSUME NEW r \in Requests, Releases(r)
       PROVE  Cardinality(Un) <= MaxKeys + Faults' /\ (up' => Cardinality(On) <= Faults')
  <2>1. /\ MemHeld' = MemHeld \ {reqKey[r]} /\ up' = up
        /\ \/ DbHeld' = DbHeld \ {reqKey[r]} /\ Faults' \in {Faults, Faults + 1}
           \/ DbHeld' = DbHeld /\ Faults' = Faults + 1
    BY <1>4, <1>13, ReleaseValues DEF Releases, DbHeld
  <2>2. Un \subseteq U /\ On \subseteq O \cup {reqKey[r]}
    BY <1>1, <1>3, <2>1
  <2>3. Cardinality(Un) <= Cardinality(U) /\ Cardinality(Un) \in Nat
    BY <1>2, <2>2, NoMore
  <2>4. Cardinality(On) <= Cardinality(O) + 1 /\ Cardinality(On) \in Nat
    BY <1>2, <2>2, AtMostOneMore
  <2>5. CASE Faults' = Faults + 1
    BY <1>0, <1>2, <2>1, <2>3, <2>4, <2>5
  <2>6. CASE DbHeld' = DbHeld \ {reqKey[r]} /\ Faults' = Faults
    <3>1. On \subseteq O
      BY <1>1, <1>3, <2>1, <2>6
    <3>2. Cardinality(On) <= Cardinality(O)
      BY <1>2, <3>1, NoMore
    <3> QED BY <1>0, <1>2, <2>1, <2>3, <2>4, <2>6, <3>2
  <2> QED BY <2>1, <2>5, <2>6
<1> QED BY <1>6, <1>7, <1>8, <1>9, <1>11, <1>12, <1>13 DEF IndexMove

LEMMA IndexedInit == Init => Indexed /\ Capped
<1>1. SUFFICES ASSUME Init PROVE Indexed /\ Capped
  OBVIOUS
<1>2. MemHeld = {} /\ DbHeld = {}
  BY <1>1 DEF Init, MemHeld, DbHeld, Held
<1>3. Faults = 0 /\ MaxKeys \in Nat
  BY <1>1, ConstantsAssumption DEF Init, Faults, ConstantsAssumption
<1>4. IsFiniteSet({}) /\ Cardinality({}) = 0
  BY FS_EmptySet
<1>5. MemHeld \cup DbHeld = {} /\ DbHeld \ MemHeld = {}
  BY <1>2
<1> QED BY <1>2, <1>3, <1>4, <1>5 DEF Indexed, Orderly, Capped, MemHeld, DbHeld

\* The index is orderly and within the cap in every behaviour.
LEMMA IndexInvariant == Spec => [](Typed /\ Indexed /\ Capped)
<1>1. Init => Typed /\ Indexed /\ Capped
  BY TypedInit, IndexedInit, ConstantsAssumption
<1>2. Typed /\ Indexed /\ Capped /\ [Next]_vars => (Typed /\ Indexed /\ Capped)'
  BY TypedNext, StepsMoveIndex, IndexedNext, CappedNext, ConstantsAssumption
<1> QED BY <1>1, <1>2, PTL DEF Spec

\* The number of claims in memory and on disk exceeds the cap by no more than
\* the crashes and SQLite errors so far, for every cap.
THEOREM CapKept == Spec => []CapExceededOnlyByFaults
<1>1. Typed /\ Indexed /\ Capped => CapExceededOnlyByFaults
  <2>1. SUFFICES ASSUME Typed, Capped PROVE CapExceededOnlyByFaults
    OBVIOUS
  <2>2. MaxKeys \in Nat /\ crashes \in Nat /\ storeErrors \in Nat
    BY <2>1, ConstantsAssumption DEF Typed, TypeOK, ConstantsAssumption
  <2>3. MaxKeys + Faults = MaxKeys + crashes + storeErrors
    BY <2>2 DEF Faults
  <2> QED BY <2>1, <2>3 DEF Capped, CapExceededOnlyByFaults
<1> QED BY <1>1, IndexInvariant, PTL

-----------------------------------------------------------------------------
(* Which claim goes *)

\* An eviction takes the oldest claim, and leaves MaxKeys claims made later.
LEMMA EvictionSpares ==
  ASSUME ConstantsAssumption, Typed, Indexed, NEW j \in Keys, j \notin MemHeld,
         NEW k \in MemHeld, MemClaimed(j)[k] = 0
  PROVE  Cardinality({x \in Keys : MemClaimed(j)[x] > memAt[k]}) >= MaxKeys
<1> DEFINE m == MemInserted(j)
<1>0. /\ TypeOK /\ clock \in Nat /\ MaxKeys \in Nat /\ Orderly(memAt)
      /\ memAt \in [Keys -> Nat] /\ \A x \in Keys : memAt[x] <= clock
      /\ k \in Keys /\ memAt[k] > 0 /\ k # j
  BY DEF Typed, TypeOK, IndexOK, Indexed, MemHeld, Held, ConstantsAssumption
<1>1. /\ m \in [Keys -> Nat] /\ Held(m) = MemHeld \cup {j} /\ m[j] = clock + 1
      /\ \A x \in Keys \ {j} : m[x] = memAt[x]
      /\ MemClaimed(j) = Keep(m, Keys \ Evicted(j))
  BY <1>0, ClaimValues DEF MemClaimed
<1>2. k \in Evicted(j)
  BY <1>0, <1>1 DEF Keep
<1>3. Evicting(j) /\ k = Oldest(m)
  BY <1>2 DEF Evicted
<1>4. \A y \in Held(m) : m[k] <= m[y]
  <2> HIDE DEF m
  <2> QED BY <1>1, <1>3, OldestFacts
<1>5. Held(m) \ {k} \subseteq {x \in Keys : MemClaimed(j)[x] > memAt[k]}
  <2>1. SUFFICES ASSUME NEW x \in Held(m), x # k
                 PROVE  x \in Keys /\ MemClaimed(j)[x] > memAt[k]
    OBVIOUS
  <2>2. x \in Keys /\ m[x] \in Nat /\ m[k] = memAt[k]
    BY <1>0, <1>1 DEF Held
  <2>3. m[x] # memAt[k]
    BY <1>0, <1>1, <2>1, <2>2 DEF Orderly, MemHeld
  <2>4. Evicted(j) = {k}
    BY <1>3 DEF Evicted
  <2>5. MemClaimed(j)[x] = m[x]
    <3> HIDE DEF m
    <3> QED BY <1>1, <2>1, <2>2, <2>4 DEF Keep
  <2> QED BY <1>0, <1>4, <2>2, <2>3, <2>5
<1>6. /\ IsFiniteSet(Held(m)) /\ Cardinality(Held(m)) \in Nat
      /\ Cardinality(Held(m)) > MaxKeys /\ k \in Held(m)
  <2>1. IsFiniteSet(Held(m))
    BY <1>0, <1>1, FS_AddElement DEF Orderly, MemHeld
  <2> QED BY <1>1, <1>3, <2>1, FS_CardinalityType DEF Evicting
<1>7. IsFiniteSet({x \in Keys : MemClaimed(j)[x] > memAt[k]})
  <2>1. {x \in Keys : MemClaimed(j)[x] > memAt[k]} \subseteq Held(m)
    <3> HIDE DEF m
    <3>1. SUFFICES ASSUME NEW x \in Keys, MemClaimed(j)[x] > memAt[k] PROVE x \in Held(m)
      OBVIOUS
    <3>2. MemClaimed(j)[x] \in {0, m[x]} /\ m[x] \in Nat
      BY <1>1 DEF Keep
    <3> QED BY <1>0, <1>1, <3>1, <3>2 DEF Held
  <2> QED BY <1>6, <2>1, FS_Subset
<1>8. PICK L : L = {x \in Keys : MemClaimed(j)[x] > memAt[k]}
  OBVIOUS
<1>9. PICK H : H = Held(m)
  OBVIOUS
<1>10. /\ IsFiniteSet(H \ {k}) /\ Cardinality(H \ {k}) = Cardinality(H) - 1
       /\ Cardinality(H \ {k}) \in Nat
  BY <1>6, <1>9, FS_RemoveElement, FS_CardinalityType
<1>11. Cardinality(H \ {k}) <= Cardinality(L) /\ Cardinality(L) \in Nat
  BY <1>5, <1>7, <1>8, <1>9, <1>10, FS_Subset, FS_CardinalityType
<1> HIDE DEF m
<1> QED BY <1>0, <1>6, <1>8, <1>9, <1>10, <1>11

\* While the process runs a claim leaves memory only with the answer to its own
\* holder, or by an eviction that leaves MaxKeys claims newer than it.
THEOREM RecentClaimsKept == Spec => EvictionSparesRecent
<1>1. ASSUME Typed, Indexed, [Next]_vars, up, up', NEW k \in MemHeld, memAt'[k] = 0
      PROVE  \/ \E r \in Posting : reqKey[r] = k /\ phase'[r] # "posting"
             \/ Cardinality({j \in Keys : memAt'[j] > memAt[k]}) >= MaxKeys
  <2>0. TypeOK /\ k \in Keys /\ memAt[k] > 0
    BY <1>1 DEF Typed, MemHeld, Held, TypeOK
  <2>1. IndexMove
    BY <1>1, ConstantsAssumption, StepsMoveIndex
  <2>2. ~Rests /\ ~Dies /\ ~Restarts
    BY <1>1, <2>0 DEF Rests, Dies, Restarts
  <2>3. ASSUME NEW j \in Keys, Copies(j) PROVE FALSE
    BY <1>1, <2>0, <2>3, ClaimValues, ConstantsAssumption DEF Copies
  <2>4. ASSUME NEW j \in Keys, Claims(j) \/ FailsToClaim(j)
        PROVE  Cardinality({x \in Keys : memAt'[x] > memAt[k]}) >= MaxKeys
    <3>1. j \notin MemHeld /\ memAt' = MemClaimed(j)
      BY <1>1, <2>0, <2>4 DEF Claims, FailsToClaim
    <3> QED BY <1>1, <3>1, EvictionSpares, ConstantsAssumption
  <2>5. ASSUME NEW r \in Requests, Releases(r)
        PROVE  \E q \in Posting : reqKey[q] = k /\ phase'[q] # "posting"
    <3>1. memAt'[k] = IF k = reqKey[r] THEN 0 ELSE memAt[k]
      BY <2>0, <2>5 DEF Releases, ReleasedMem, Keep, TypeOK
    <3>2. k = reqKey[r] /\ r \in Posting
      BY <1>1, <2>0, <2>5, <3>1 DEF Releases, Posting
    <3> QED BY <2>5, <3>2 DEF Releases
  <2> QED BY <2>1, <2>2, <2>3, <2>4, <2>5 DEF IndexMove
<1>2. Typed /\ Indexed /\ Capped /\ [Next]_vars =>
        [up /\ up' => \A k \in MemHeld : memAt'[k] = 0 =>
           \/ \E r \in Posting : reqKey[r] = k /\ phase'[r] # "posting"
           \/ Cardinality({j \in Keys : memAt'[j] > memAt[k]}) >= MaxKeys]_vars
  BY <1>1
<1> QED BY <1>2, IndexInvariant, PTL DEF Spec, EvictionSparesRecent
-----------------------------------------------------------------------------
(* Who holds a key *)

Causes == {"posting", "created", "unreachable", "failed", "lost"}

\* Every held key was claimed by a request that carries it and did not end in
\* a definite rejection.
Caused == \A k \in MemHeld \cup DbHeld :
            /\ claimant[k] \in Requests
            /\ reqKey[claimant[k]] = k /\ phase[claimant[k]] \in Causes

\* A step that holds no more keys, renames no request that claimed one, and
\* ends none of those requests in a rejection.
LEMMA CausedKept ==
  ASSUME Caused, (MemHeld \cup DbHeld)' \subseteq MemHeld \cup DbHeld, claimant' = claimant,
         \A q \in Requests : phase[q] \in Causes =>
            reqKey'[q] = reqKey[q] /\ (phase'[q] \in Causes \/ reqKey[q] \notin (MemHeld \cup DbHeld)')
  PROVE  Caused'
<1>1. PICK H : H = MemHeld \cup DbHeld
  OBVIOUS
<1>2. PICK Hn : Hn = (MemHeld \cup DbHeld)'
  OBVIOUS
<1>3. SUFFICES ASSUME NEW k \in Hn
               PROVE  /\ claimant'[k] \in Requests
                      /\ reqKey'[claimant'[k]] = k /\ phase'[claimant'[k]] \in Causes
  BY <1>2 DEF Caused
<1>4. /\ claimant[k] \in Requests
      /\ reqKey[claimant[k]] = k /\ phase[claimant[k]] \in Causes
  BY <1>1, <1>2, <1>3 DEF Caused
<1> QED BY <1>2, <1>3, <1>4

\* A claim adds one held key, whose request was idle and is not any more.
LEMMA CausedClaimed ==
  ASSUME Caused, TypeOK, NEW r \in Requests, NEW k \in Keys,
         (MemHeld \cup DbHeld)' \subseteq MemHeld \cup DbHeld \cup {k},
         phase[r] = "idle", phase'[r] \in Causes,
         \A q \in Requests \ {r} : phase[q] \in Causes => phase'[q] \in Causes,
         reqKey' = [reqKey EXCEPT ![r] = k], claimant' = [claimant EXCEPT ![k] = r]
  PROVE  Caused'
<1>1. PICK H : H = MemHeld \cup DbHeld
  OBVIOUS
<1>2. PICK Hn : Hn = (MemHeld \cup DbHeld)'
  OBVIOUS
<1>3. Hn \subseteq H \cup {k} /\ H \subseteq Keys
  BY <1>1, <1>2 DEF MemHeld, DbHeld, Held, TypeOK
<1>4. SUFFICES ASSUME NEW j \in Hn
               PROVE  /\ claimant'[j] \in Requests
                      /\ reqKey'[claimant'[j]] = j /\ phase'[claimant'[j]] \in Causes
  BY <1>2 DEF Caused
<1>5. CASE j = k
  BY <1>5 DEF TypeOK
<1>6. CASE j # k
  <2>1. /\ j \in Keys /\ claimant[j] \in Requests
        /\ reqKey[claimant[j]] = j /\ phase[claimant[j]] \in Causes
    BY <1>1, <1>3, <1>4, <1>6 DEF Caused
  <2>2. claimant[j] # r
    BY <2>1 DEF Causes
  <2>3. claimant'[j] = claimant[j] /\ reqKey'[claimant[j]] = reqKey[claimant[j]]
    BY <1>6, <2>1, <2>2 DEF TypeOK
  <2> QED BY <2>1, <2>2, <2>3
<1> QED BY <1>5, <1>6

LEMMA CausedNext ==
  ASSUME ConstantsAssumption, Typed, Caused, [Next]_vars PROVE Caused'
<1>0. /\ TypeOK /\ phase \in [Requests -> Phases] /\ reqKey \in [Requests -> Keys \cup {NoKey}]
      /\ MemHeld' = Held(memAt') /\ DbHeld' = Held(dbAt')
      /\ MemHeld = Held(memAt) /\ DbHeld = Held(dbAt)
      /\ MemHeld \subseteq Keys /\ DbHeld \subseteq Keys
  BY DEF Typed, TypeOK, MemHeld, DbHeld, Held
<1>1. ASSUME NEW r \in Requests, RefuseInvalid(r) \/ Dispatch(r) \/ Accept(r) \/ Reject(r)
                                 \/ OnUnreachable(r) \/ OnAccepted(r) \/ OnAcceptedFails(r)
      PROVE  Caused'
  <2>1. memAt' = memAt /\ dbAt' = dbAt /\ claimant' = claimant /\ reqKey' = reqKey
    BY <1>1 DEF RefuseInvalid, Dispatch, Accept, Reject, Decide, OnUnreachable, OnAccepted,
                OnAcceptedFails, keyIndex, history
  <2>2. phase' = phase \/ \E p \in Phases :
          /\ phase' = [phase EXCEPT ![r] = p]
          /\ phase[r] = "idle" \/ p \in Causes
    BY <1>1 DEF RefuseInvalid, Dispatch, Accept, Reject, Decide, OnUnreachable, OnAccepted,
                OnAcceptedFails, Answer, Phases, Causes
  <2>3. \A q \in Requests : phase[q] \in Causes => phase'[q] \in Causes
    BY <1>0, <2>2 DEF Causes
  <2>4. (MemHeld \cup DbHeld)' = MemHeld \cup DbHeld
    BY <1>0, <2>1
  <2> QED BY <2>1, <2>3, <2>4, CausedKept
<1>2. ASSUME NEW r \in Requests, OnRejected(r) \/ OnRejectedFails(r) PROVE Caused'
  <2>1. /\ memAt' = ReleasedMem(r) /\ claimant' = claimant /\ reqKey' = reqKey
        /\ \/ dbAt' = ReleasedDb(r) /\ phase' = [phase EXCEPT ![r] = "invalid"]
           \/ dbAt' \in {dbAt, ReleasedDb(r)} /\ phase' = [phase EXCEPT ![r] = "failed"]
    BY <1>2 DEF OnRejected, OnRejectedFails, Answer, history
  <2>2. /\ MemHeld' = MemHeld \ {reqKey[r]}
        /\ \/ DbHeld' = DbHeld \ {reqKey[r]} /\ phase' = [phase EXCEPT ![r] = "invalid"]
           \/ DbHeld' \subseteq DbHeld /\ phase' = [phase EXCEPT ![r] = "failed"]
    BY <1>0, <2>1, ReleaseValues
  <2>3. (MemHeld \cup DbHeld)' \subseteq MemHeld \cup DbHeld
    BY <2>2
  <2>4. \A q \in Requests : phase[q] \in Causes =>
          phase'[q] \in Causes \/ reqKey[q] \notin (MemHeld \cup DbHeld)'
    BY <1>0, <2>2 DEF Causes
  <2> QED BY <2>1, <2>3, <2>4, CausedKept
<1>3. ASSUME NEW r \in Requests, NEW k \in Keys, RefuseReuse(r, k) PROVE Caused'
  <2>1. /\ (MemHeld \cup DbHeld)' \subseteq MemHeld \cup DbHeld
        /\ claimant' = claimant /\ phase[r] = "idle"
        /\ phase' = [phase EXCEPT ![r] = "reused"] /\ reqKey' = [reqKey EXCEPT ![r] = k]
    <3>1. CASE k \in MemHeld
      BY <1>0, <1>3, <3>1 DEF RefuseReuse, Answer, history
    <3>2. CASE k \in DbHeld \ MemHeld
      <4>1. memAt' = MemInserted(k) /\ dbAt' = dbAt
        BY <1>3, <3>2 DEF RefuseReuse
      <4>2. MemHeld' = MemHeld \cup {k} /\ DbHeld' = DbHeld
        BY <1>0, <4>1, ClaimValues
      <4> QED BY <1>3, <3>2, <4>2 DEF RefuseReuse, Answer, history
    <3> QED BY <1>3, <3>1, <3>2 DEF RefuseReuse
  <2>2. \A q \in Requests : phase[q] \in Causes =>
          reqKey'[q] = reqKey[q] /\ phase'[q] \in Causes
    BY <1>0, <2>1 DEF Causes
  <2> QED BY <2>1, <2>2, CausedKept
<1>4. ASSUME NEW r \in Requests, NEW k \in Keys, ClaimAndDispatch(r, k) \/ ClaimFails(r, k)
      PROVE  Caused'
  <2>1. /\ phase[r] = "idle" /\ reqKey' = [reqKey EXCEPT ![r] = k]
        /\ claimant' = [claimant EXCEPT ![k] = r]
        /\ memAt' \in {memAt, MemClaimed(k)}
        /\ dbAt' \in {dbAt, DbInserted(k), DbReleased(k), DbClaimed(k)}
        /\ \E p \in Causes : phase' = [phase EXCEPT ![r] = p]
    BY <1>4 DEF ClaimAndDispatch, ClaimFails, Claim, Answer, Causes
  <2>2. (MemHeld \cup DbHeld)' \subseteq MemHeld \cup DbHeld \cup {k}
    BY <1>0, <2>1, ClaimValues
  <2>3. phase'[r] \in Causes /\ \A q \in Requests \ {r} : phase'[q] = phase[q]
    BY <1>0, <2>1
  <2> QED BY <1>0, <2>1, <2>2, <2>3, CausedClaimed
<1>5. ASSUME NEW dead, NEW db, NEW rows, NEW back, Die(dead, db, rows, back)
      PROVE  /\ MemHeld' = {} /\ DbHeld' = Held(db)
             /\ phase' = [q \in Requests |-> IF q \in dead THEN "lost" ELSE phase[q]]
             /\ \A q \in Requests : phase[q] \in Causes => phase'[q] \in Causes
  <2>1. /\ phase' = [q \in Requests |-> IF q \in dead THEN "lost" ELSE phase[q]]
        /\ memAt' = [k \in Keys |-> 0] /\ dbAt' = db
    BY <1>5 DEF Die
  <2> QED BY <1>0, <2>1 DEF Causes, Held
<1>6. ASSUME NEW r \in Requests, CrashInRelease(r) \/ CrashInRecord(r) PROVE Caused'
  <2>1. /\ reqKey' = reqKey /\ claimant' = claimant
        /\ \/ Die(Posting, ReleasedDb(r), rowAt, {reqKey[r]})
           \/ Die(Posting, dbAt, Recorded(r), {})
    BY <1>6 DEF CrashInRelease, CrashInRecord
  <2>2. (MemHeld \cup DbHeld)' \subseteq MemHeld \cup DbHeld
    BY <1>0, <1>5, <2>1, ReleaseValues
  <2>3. \A q \in Requests : phase[q] \in Causes => phase'[q] \in Causes
    BY <1>5, <2>1
  <2> QED BY <2>1, <2>2, <2>3, CausedKept
<1>7. CASE Crash
  <2>1. reqKey' = reqKey /\ claimant' = claimant /\ Die(Posting, dbAt, rowAt, {})
    BY <1>7 DEF Crash
  <2>2. (MemHeld \cup DbHeld)' \subseteq MemHeld \cup DbHeld
    BY <1>0, <1>5, <2>1
  <2>3. \A q \in Requests : phase[q] \in Causes => phase'[q] \in Causes
    BY <1>5, <2>1
  <2> QED BY <2>1, <2>2, <2>3, CausedKept
<1>8. ASSUME NEW r \in Requests, NEW k \in Keys, CrashInClaim(r, k) PROVE Caused'
  <2>1. PICK db \in {DbInserted(k), DbReleased(k), DbClaimed(k)} :
          Die(Posting \cup {r}, db, rowAt, {})
    BY <1>8 DEF CrashInClaim
  <2>2. /\ phase[r] = "idle" /\ reqKey' = [reqKey EXCEPT ![r] = k]
        /\ claimant' = [claimant EXCEPT ![k] = r]
    BY <1>8 DEF CrashInClaim, Claim
  <2>3. Held(db) \subseteq DbHeld \cup {k}
    <3>1. /\ Held(DbInserted(k)) \subseteq DbHeld \cup {k}
          /\ Held(DbReleased(k)) \subseteq DbHeld \cup {k}
          /\ Held(DbClaimed(k)) \subseteq DbHeld \cup {k}
      <4>1. /\ Held(DbInserted(k)) = IF Durable THEN DbHeld \cup {k} ELSE DbHeld
            /\ Held(DbReleased(k)) = Held(DbInserted(k)) \ Evicted(k)
            /\ Held(DbClaimed(k)) \subseteq Held(DbReleased(k))
        BY <1>0, ClaimValues
      <4> QED BY <4>1
    <3>2. db = DbInserted(k) \/ db = DbReleased(k) \/ db = DbClaimed(k)
      BY <2>1
    <3> QED BY <3>1, <3>2
  <2>4. MemHeld' = {} /\ DbHeld' = Held(db) /\ phase'[r] = "lost"
    BY <1>5, <2>1
  <2>5. \A q \in Requests : phase[q] \in Causes => phase'[q] \in Causes
    BY <1>5, <2>1
  <2>6. (MemHeld \cup DbHeld)' \subseteq MemHeld \cup DbHeld \cup {k} /\ phase'[r] \in Causes
    BY <2>3, <2>4 DEF Causes
  <2> QED BY <1>0, <2>2, <2>5, <2>6, CausedClaimed
<1>9. CASE Restart
  <2>1. /\ memAt' = dbAt /\ dbAt' = dbAt /\ phase' = phase /\ reqKey' = reqKey
        /\ claimant' = claimant
    BY <1>9 DEF Restart, history
  <2>2. (MemHeld \cup DbHeld)' \subseteq MemHeld \cup DbHeld
    BY <1>0, <2>1
  <2> QED BY <2>1, <2>2, CausedKept
<1>10. CASE UNCHANGED vars
  BY <1>10 DEF vars, keyIndex, history, Caused, MemHeld, DbHeld, Held
<1> QED BY <1>1, <1>2, <1>3, <1>4, <1>6, <1>7, <1>8, <1>9, <1>10 DEF Next, Handle

\* No key stays held by a submission that ended in a definite rejection, and a
\* held key always has a claimant.
THEOREM HeldKeysCaused == Spec => []HeldKeyHasCause
<1>1. Init => Typed /\ Caused
  BY TypedInit, ConstantsAssumption DEF Init, Caused, MemHeld, DbHeld, Held
<1>2. Typed /\ Caused /\ [Next]_vars => (Typed /\ Caused)'
  BY TypedNext, CausedNext, ConstantsAssumption
<1>3. Caused => HeldKeyHasCause
  BY ConstantsAssumption DEF Caused, HeldKeyHasCause, Causes, ConstantsAssumption
<1> QED BY <1>1, <1>2, <1>3, PTL DEF Spec
=============================================================================
