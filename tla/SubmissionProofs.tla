-------------------------- MODULE SubmissionProofs --------------------------
(***************************************************************************)
(* Proofs about Submission for any sets of requests and keys, any cap, any *)
(* number of crashes and SQLite errors, with and without --state-dir.      *)
(***************************************************************************)
EXTENDS Submission, FiniteSetTheorems, WellFoundedInduction, TLAPS

-----------------------------------------------------------------------------
(* The helpers on indexes *)

\* Keep filters the held entries and stays an index over the same keys.
LEMMA KeepFacts ==
  ASSUME NEW S, NEW at \in [S -> Nat], NEW T
  PROVE  /\ Keep(at, T) \in [S -> Nat]
         /\ Held(Keep(at, T)) = Held(at) \cap T
         /\ \A x \in S : Keep(at, T)[x] \in {0, at[x]}
  BY DEF Keep, Held

LEMMA HeldSubset == ASSUME NEW S, NEW at \in [S -> Nat] PROVE Held(at) \subseteq S
  BY DEF Held

\* A set of held entries has a least one, so Oldest is one of them.
LEMMA OldestFacts ==
  ASSUME NEW S, NEW at \in [S -> Nat], Held(at) # {}
  PROVE  /\ Oldest(at) \in Held(at)
         /\ \A y \in Held(at) : at[Oldest(at)] <= at[y]
<1>1. \E x \in Held(at) : \A y \in Held(at) : at[x] <= at[y]
  <2> DEFINE places == {at[x] : x \in Held(at)}
  <2>1. places \subseteq Nat /\ places # {}
    BY DEF Held
  <2>2. PICK n \in places : \A m \in places : ~ (<<m, n>> \in OpToRel(<, Nat))
    <3> HIDE DEF places
    <3> QED BY <2>1, NatLessThanWellFounded, WFMin
  <2>3. \A m \in places : n <= m
    <3>1. \A i, j \in Nat : i < j => <<i, j>> \in OpToRel(<, Nat)
      BY DEF OpToRel
    <3>2. n \in Nat
      BY <2>1
    <3> HIDE DEF places
    <3>3. TAKE m \in places
    <3>4. m \in Nat /\ ~ (m < n)
      BY <2>1, <2>2, <3>1, <3>2
    <3> QED BY <3>2, <3>4
  <2> QED BY <2>3 DEF Held
<1> QED BY <1>1 DEF Oldest

-----------------------------------------------------------------------------
(* The claim of a key *)

\* The cap evicts at most one key, and never the one being claimed.
LEMMA EvictedFacts ==
  ASSUME ConstantsAssumption, TypeOK, NEW k \in Keys,
         \A j \in Keys : memAt[j] <= clock
  PROVE  Evicted(k) \subseteq Held(memAt) \ {k}
<1> DEFINE m == MemInserted(k)
<1>1. /\ m \in [Keys -> Nat] /\ Held(m) = MemHeld \cup {k}
      /\ m[k] = clock + 1 /\ \A y \in Keys \ {k} : m[y] = memAt[y]
  BY DEF MemInserted, MemHeld, Held, TypeOK
<1>2. CASE ~Evicting(k)
  BY <1>2 DEF Evicted
<1>3. CASE Evicting(k)
  <2>1. Oldest(m) \in Held(m) /\ \A y \in Held(m) : m[Oldest(m)] <= m[y]
    <3> HIDE DEF m
    <3> QED BY <1>1, OldestFacts
  <2>2. PICK y \in Held(m) : y # k
    <3>1. SUFFICES ASSUME Held(m) = {k} PROVE FALSE
      BY <1>1
    <3>2. Cardinality(Held(m)) = 1
      BY <3>1, FS_Singleton
    <3>3. Cardinality(Held(m)) > MaxKeys
      BY <1>3 DEF Evicting
    <3> QED BY <3>2, <3>3 DEF ConstantsAssumption
  <2>3. y \in Keys /\ m[y] = memAt[y] /\ memAt[y] <= clock
    BY <1>1, <2>2, HeldSubset DEF MemHeld, TypeOK
  <2>4. Oldest(m) # k
    BY <1>1, <2>1, <2>2, <2>3 DEF TypeOK
  <2> QED BY <1>1, <1>3, <2>1, <2>4 DEF Evicted, MemHeld
<1> QED BY <1>2, <1>3

\* What a claim leaves in memory and on disk: the new key, and every key held
\* before except those it counts as dropped.
LEMMA ClaimFacts ==
  ASSUME ConstantsAssumption, TypeOK, NEW k \in Keys,
         \A j \in Keys : memAt[j] <= clock /\ dbAt[j] <= clock
  PROVE  /\ MemClaimed(k) \in [Keys -> Nat] /\ k \in Held(MemClaimed(k))
         /\ \A j \in Keys : MemClaimed(k)[j] <= clock + 1
         /\ \A db \in {DbInserted(k), DbReleased(k), DbClaimed(k)} :
              /\ db \in [Keys -> Nat]
              /\ Durable => k \in Held(db)
              /\ ~Durable => \A j \in Keys : db[j] \in {0, dbAt[j]}
              /\ \A j \in Keys : db[j] <= clock + 1
<1> USE DEF TypeOK
<1>0. Evicted(k) \subseteq Keys \ {k}
  BY EvictedFacts, HeldSubset
<1>1. /\ MemInserted(k) \in [Keys -> Nat] /\ k \in Held(MemInserted(k))
      /\ \A j \in Keys : MemInserted(k)[j] <= clock + 1
  BY DEF MemInserted, Held
<1>2. /\ MemClaimed(k) \in [Keys -> Nat] /\ k \in Held(MemClaimed(k))
      /\ \A j \in Keys : MemClaimed(k)[j] <= clock + 1
  BY <1>0, <1>1, KeepFacts DEF MemClaimed
<1>3. /\ DbInserted(k) \in [Keys -> Nat]
      /\ Durable => k \in Held(DbInserted(k)) /\ DbInserted(k)[k] = clock + 1
                    /\ \A j \in Keys \ {k} : DbInserted(k)[j] <= clock
      /\ ~Durable => DbInserted(k) = dbAt
      /\ \A j \in Keys : DbInserted(k)[j] <= clock + 1
  <2>1. CASE Durable
    BY <2>1 DEF DbInserted, Held
  <2>2. CASE ~Durable
    BY <2>2 DEF DbInserted
  <2> QED BY <2>1, <2>2
<1>4. /\ DbReleased(k) \in [Keys -> Nat]
      /\ Durable => k \in Held(DbReleased(k)) /\ DbReleased(k)[k] = clock + 1
                    /\ \A j \in Keys \ {k} : DbReleased(k)[j] <= clock
      /\ ~Durable => \A j \in Keys : DbReleased(k)[j] \in {0, dbAt[j]}
      /\ \A j \in Keys : DbReleased(k)[j] <= clock + 1
  <2> DEFINE d == DbInserted(k)  T == Keys \ Evicted(k)
  <2>1. /\ Keep(d, T) \in [Keys -> Nat] /\ Held(Keep(d, T)) = Held(d) \cap T
        /\ \A x \in Keys : Keep(d, T)[x] \in {0, d[x]}
    BY <1>3, KeepFacts
  <2>2. Durable => Keep(d, T)[k] = d[k]
    BY <1>0, <1>3 DEF Keep
  <2>3. DbReleased(k) = Keep(d, T)
    BY DEF DbReleased
  <2> HIDE DEF d, T
  <2>4. k \in T
    BY <1>0 DEF T
  <2> QED BY <1>3, <2>1, <2>2, <2>3, <2>4 DEF d
<1>5. /\ DbClaimed(k) \in [Keys -> Nat]
      /\ Durable => k \in Held(DbClaimed(k))
      /\ ~Durable => \A j \in Keys : DbClaimed(k)[j] \in {0, dbAt[j]}
      /\ \A j \in Keys : DbClaimed(k)[j] <= clock + 1
  <2> DEFINE d == DbReleased(k)  T == Newest(d, MaxKeys)
  <2>1. /\ Keep(d, T) \in [Keys -> Nat] /\ Held(Keep(d, T)) = Held(d) \cap T
        /\ \A x \in Keys : Keep(d, T)[x] \in {0, d[x]}
    BY <1>4, KeepFacts
  <2>2. Durable => k \in T
    <3>1. SUFFICES ASSUME Durable PROVE k \in T
      OBVIOUS
    <3>2. {y \in Held(d) : d[y] > d[k]} = {}
      BY <1>4, <3>1, HeldSubset
    <3>3. Cardinality({}) = 0 /\ 0 < MaxKeys
      BY FS_EmptySet DEF ConstantsAssumption
    <3> QED BY <1>4, <3>1, <3>2, <3>3 DEF Newest
  <2>3. DbClaimed(k) \in {d, Keep(d, T)}
    BY DEF DbClaimed
  <2> HIDE DEF T
  <2>4. CASE DbClaimed(k) = d
    BY <1>4, <2>4
  <2>5. CASE DbClaimed(k) = Keep(d, T)
    <3> HIDE DEF d
    <3>1. \A j \in Keys : d[j] \in Nat
      BY <1>4 DEF d
    <3> QED BY <1>4, <2>1, <2>2, <2>5, <3>1 DEF d
  <2> QED BY <2>3, <2>4, <2>5
<1> QED BY <1>2, <1>3, <1>4, <1>5
-----------------------------------------------------------------------------
(* Type correctness, with the bound on the places of keys that it needs *)

Typed == TypeOK /\ IndexOK

LEMMA TypedInit == ASSUME ConstantsAssumption, Init PROVE Typed
  BY DEF Init, Typed, TypeOK, IndexOK, ConstantsAssumption, Phases

\* What the death of the process leaves is typed if the tables are.
LEMMA TypedDie ==
  ASSUME ConstantsAssumption, Typed,
         NEW dead, NEW db \in [Keys -> Nat], NEW rows \in [Requests -> Nat], NEW back,
         Die(dead, db, rows, back),
         clock' \in {clock, clock + 1}, \A k \in Keys : db[k] <= clock',
         ~Durable => \A k \in Keys : db[k] = 0,
         reqKey' \in [Requests -> Keys \cup {NoKey}],
         claimant' \in [Keys -> Requests \cup {NoRequest}]
  PROVE  Typed'
<1>0. TypeOK /\ MemHeld \cup DbHeld \subseteq Keys
  BY HeldSubset DEF Typed, TypeOK, MemHeld, DbHeld
<1>1. phase' \in [Requests -> Phases] /\ up' \in BOOLEAN
  BY <1>0 DEF Die, TypeOK, Phases
<1>2. /\ memAt' \in [Keys -> Nat] /\ dbAt' \in [Keys -> Nat]
      /\ memJobs' \subseteq Requests /\ rowAt' \in [Requests -> Nat]
      /\ clock' \in Nat
  BY <1>0 DEF Die, TypeOK
<1>3. /\ crashes' \in 0..MaxCrashes /\ storeErrors' \in 0..MaxStoreErrors
      /\ forgotten' \subseteq Keys
      /\ upstream' \in [Requests -> {"none", "sent", "accepted", "rejected"}]
  BY <1>0 DEF Die, TypeOK, ConstantsAssumption
<1>4. IndexOK'
  BY <1>2 DEF Die, IndexOK
<1> QED BY <1>1, <1>2, <1>3, <1>4 DEF Typed, TypeOK

LEMMA TypedNext == ASSUME ConstantsAssumption, Typed, [Next]_vars PROVE Typed'
<1> USE DEF Typed
<1>0. /\ TypeOK /\ IndexOK
      /\ \A j \in Keys : memAt[j] <= clock /\ dbAt[j] <= clock
  BY DEF IndexOK
<1>1. ASSUME NEW r \in Requests, RefuseInvalid(r) PROVE Typed'
  BY <1>1, <1>0 DEF RefuseInvalid, Answer, TypeOK, IndexOK, Phases,
                    keyIndex, jobIndex, bounds, history
<1>2. ASSUME NEW r \in Requests, Dispatch(r) PROVE Typed'
  BY <1>2, <1>0 DEF Dispatch, Answer, TypeOK, IndexOK, Phases,
                    keyIndex, jobIndex, bounds, history
<1>3. ASSUME NEW r \in Requests, Accept(r) \/ Reject(r) PROVE Typed'
  BY <1>3, <1>0 DEF Accept, Reject, Decide, TypeOK, IndexOK,
                    keyIndex, jobIndex, bounds, history
<1>4. ASSUME NEW r \in Requests, OnRejected(r) \/ OnRejectedFails(r) PROVE Typed'
  <2>1. /\ ReleasedMem(r) \in [Keys -> Nat] /\ ReleasedDb(r) \in [Keys -> Nat]
        /\ \A k \in Keys : ReleasedMem(r)[k] <= clock /\ ReleasedDb(r)[k] <= clock
        /\ ~Durable => \A k \in Keys : ReleasedDb(r)[k] = 0
    BY <1>0, KeepFacts DEF ReleasedMem, ReleasedDb, TypeOK, IndexOK
  <2>2. CASE OnRejected(r)
    BY <2>1, <2>2, <1>0 DEF OnRejected, Answer, TypeOK, IndexOK, Phases,
                            jobIndex, bounds, history
  <2>3. CASE OnRejectedFails(r)
    BY <2>1, <2>3, <1>0 DEF OnRejectedFails, Answer, TypeOK, IndexOK, Phases,
                            jobIndex, history, ConstantsAssumption
  <2> QED BY <1>4, <2>2, <2>3
<1>5. ASSUME NEW r \in Requests, OnUnreachable(r) PROVE Typed'
  BY <1>5, <1>0 DEF OnUnreachable, Answer, TypeOK, IndexOK, Phases,
                    keyIndex, jobIndex, bounds, history
<1>6. ASSUME NEW r \in Requests, OnAccepted(r) \/ OnAcceptedFails(r) PROVE Typed'
  <2>1. Recorded(r) \in [Requests -> Nat]
    BY <1>0 DEF Recorded, TypeOK
  <2>2. CASE OnAccepted(r)
    BY <2>1, <2>2, <1>0 DEF OnAccepted, Answer, TypeOK, IndexOK, Phases,
                            keyIndex, history
  <2>3. CASE OnAcceptedFails(r)
    BY <2>1, <2>3, <1>0 DEF OnAcceptedFails, Answer, TypeOK, IndexOK, Phases,
                            keyIndex, history, ConstantsAssumption
  <2> QED BY <1>6, <2>2, <2>3
<1>7. ASSUME NEW r \in Requests, NEW k \in Keys, RefuseReuse(r, k) PROVE Typed'
  <2>1. /\ MemInserted(k) \in [Keys -> Nat]
        /\ \A j \in Keys : MemInserted(k)[j] <= clock + 1
    BY <1>0 DEF MemInserted, TypeOK
  <2> QED BY <1>7, <2>1, <1>0 DEF RefuseReuse, Answer, TypeOK, IndexOK, Phases,
                                  jobIndex, history
<1>8. ASSUME NEW r \in Requests, NEW k \in Keys, ClaimAndDispatch(r, k) PROVE Typed'
  <2>1. MemHeld \cup DbHeld \subseteq Keys
    BY <1>0, HeldSubset DEF TypeOK, MemHeld, DbHeld
  <2>2. /\ memAt' \in [Keys -> Nat] /\ dbAt' \in [Keys -> Nat] /\ clock' = clock + 1
        /\ \A j \in Keys : memAt'[j] <= clock + 1 /\ dbAt'[j] <= clock + 1
        /\ ~Durable => \A j \in Keys : dbAt'[j] \in {0, dbAt[j]}
    BY <1>0, <1>8, ClaimFacts DEF ClaimAndDispatch, Claim
  <2>3. IndexOK'
    BY <1>0, <2>2 DEF IndexOK
  <2>4. TypeOK'
    <3>1. forgotten' \subseteq Keys
      BY <1>0, <1>8, <2>1 DEF ClaimAndDispatch, Dropped, TypeOK
    <3>2. /\ phase' \in [Requests -> Phases] /\ up' \in BOOLEAN
          /\ reqKey' \in [Requests -> Keys \cup {NoKey}]
          /\ upstream' \in [Requests -> {"none", "sent", "accepted", "rejected"}]
          /\ claimant' \in [Keys -> Requests \cup {NoRequest}]
      BY <1>0, <1>8 DEF ClaimAndDispatch, Claim, Answer, TypeOK, Phases
    <3> QED BY <1>0, <1>8, <2>2, <3>1, <3>2 DEF ClaimAndDispatch, TypeOK, jobIndex
  <2> QED BY <2>3, <2>4
<1>9. ASSUME NEW r \in Requests, NEW k \in Keys, ClaimFails(r, k) PROVE Typed'
  <2>1. MemHeld \cup DbHeld \subseteq Keys
    BY <1>0, HeldSubset DEF TypeOK, MemHeld, DbHeld
  <2>2. /\ memAt' \in [Keys -> Nat] /\ dbAt' \in [Keys -> Nat] /\ clock' = clock + 1
        /\ \A j \in Keys : memAt'[j] <= clock + 1 /\ dbAt'[j] <= clock + 1
        /\ Durable
    <3>1. clock' = clock + 1 /\ Durable /\ clock \in Nat
          /\ memAt' \in {memAt, MemClaimed(k)}
          /\ dbAt' \in {dbAt, DbInserted(k), DbReleased(k), DbClaimed(k)}
      BY <1>0, <1>9 DEF ClaimFails, Claim, TypeOK
    <3>2. \A m \in {memAt, MemClaimed(k)} :
            m \in [Keys -> Nat] /\ \A j \in Keys : m[j] <= clock + 1
      BY <1>0, ClaimFacts DEF TypeOK
    <3>3. \A m \in {dbAt, DbInserted(k), DbReleased(k), DbClaimed(k)} :
            m \in [Keys -> Nat] /\ \A j \in Keys : m[j] <= clock + 1
      BY <1>0, ClaimFacts DEF TypeOK
    <3> QED BY <3>1, <3>2, <3>3
  <2>3. IndexOK'
    BY <2>2 DEF IndexOK
  <2>4. TypeOK'
    <3>1. forgotten' \subseteq Keys
      BY <1>0, <1>9, <2>1 DEF ClaimFails, Dropped, TypeOK
    <3>2. /\ phase' \in [Requests -> Phases] /\ up' \in BOOLEAN
          /\ reqKey' \in [Requests -> Keys \cup {NoKey}]
          /\ claimant' \in [Keys -> Requests \cup {NoRequest}]
      BY <1>0, <1>9 DEF ClaimFails, Claim, Answer, TypeOK, Phases
    <3>3. storeErrors' \in 0..MaxStoreErrors
      BY <1>0, <1>9 DEF ClaimFails, TypeOK, ConstantsAssumption
    <3> QED BY <1>0, <1>9, <2>2, <3>1, <3>2, <3>3 DEF ClaimFails, TypeOK, jobIndex
  <2> QED BY <2>3, <2>4
<1>10. ASSUME NEW r \in Requests, NEW k \in Keys, CrashInClaim(r, k) PROVE Typed'
  <2>1. PICK db \in {DbInserted(k), DbReleased(k), DbClaimed(k)} :
          Die(Posting \cup {r}, db, rowAt, {})
    BY <1>10 DEF CrashInClaim
  <2>2. db \in [Keys -> Nat] /\ (\A j \in Keys : db[j] <= clock + 1) /\ clock' = clock + 1
    BY <1>0, <1>10, ClaimFacts DEF CrashInClaim, Claim
  <2>3. /\ reqKey' \in [Requests -> Keys \cup {NoKey}]
        /\ claimant' \in [Keys -> Requests \cup {NoRequest}]
        /\ rowAt \in [Requests -> Nat] /\ Durable
    BY <1>0, <1>10 DEF CrashInClaim, Claim, TypeOK
  <2> QED BY <2>1, <2>2, <2>3, TypedDie
<1>11. ASSUME NEW r \in Requests, CrashInRelease(r) PROVE Typed'
  <2>1. /\ ReleasedDb(r) \in [Keys -> Nat]
        /\ \A k \in Keys : ReleasedDb(r)[k] <= clock
        /\ ~Durable => \A k \in Keys : ReleasedDb(r)[k] = 0
    BY <1>0, KeepFacts DEF ReleasedDb, TypeOK, IndexOK
  <2>2. /\ Die(Posting, ReleasedDb(r), rowAt, {reqKey[r]}) /\ clock' = clock
        /\ reqKey' \in [Requests -> Keys \cup {NoKey}]
        /\ claimant' \in [Keys -> Requests \cup {NoRequest}]
        /\ rowAt \in [Requests -> Nat]
    BY <1>0, <1>11 DEF CrashInRelease, TypeOK
  <2> QED BY <2>1, <2>2, TypedDie
<1>12. ASSUME NEW r \in Requests, CrashInRecord(r) PROVE Typed'
  <2>1. Recorded(r) \in [Requests -> Nat]
    BY <1>0 DEF Recorded, TypeOK
  <2>2. /\ Die(Posting, dbAt, Recorded(r), {}) /\ clock' = clock + 1
        /\ reqKey' \in [Requests -> Keys \cup {NoKey}]
        /\ claimant' \in [Keys -> Requests \cup {NoRequest}]
        /\ dbAt \in [Keys -> Nat] /\ \A j \in Keys : dbAt[j] <= clock + 1
    BY <1>0, <1>12 DEF CrashInRecord, TypeOK
  <2>3. ~Durable => \A k \in Keys : dbAt[k] = 0
    BY <1>0 DEF IndexOK
  <2> QED BY <2>1, <2>2, <2>3, TypedDie
<1>13. CASE Crash
  <2>1. /\ Die(Posting, dbAt, rowAt, {}) /\ clock' = clock
        /\ reqKey' \in [Requests -> Keys \cup {NoKey}]
        /\ claimant' \in [Keys -> Requests \cup {NoRequest}]
        /\ dbAt \in [Keys -> Nat] /\ rowAt \in [Requests -> Nat]
    BY <1>0, <1>13 DEF Crash, TypeOK
  <2>2. ~Durable => \A k \in Keys : dbAt[k] = 0
    BY <1>0 DEF IndexOK
  <2> QED BY <1>0, <2>1, <2>2, TypedDie
<1>14. CASE Restart
  <2>1. Newest(rowAt, JobWindow) \subseteq Requests
    BY <1>0, HeldSubset DEF Newest, TypeOK
  <2> QED BY <1>14, <2>1, <1>0 DEF Restart, TypeOK, IndexOK, bounds, history
<1>15. CASE UNCHANGED vars
  BY <1>15, <1>0 DEF vars, TypeOK, IndexOK, keyIndex, jobIndex, bounds, history
<1> QED
  BY <1>1, <1>2, <1>3, <1>4, <1>5, <1>6, <1>7, <1>8, <1>9, <1>10, <1>11, <1>12,
     <1>13, <1>14, <1>15 DEF Next, Handle

\* The variables of submit's state keep their types in every behaviour.
THEOREM TypeCorrect == Spec => []TypeOK
<1>1. Init => Typed
  BY TypedInit, ConstantsAssumption
<1>2. Typed /\ [Next]_vars => Typed'
  BY TypedNext, ConstantsAssumption
<1>3. Typed => TypeOK
  BY DEF Typed
<1> QED BY <1>1, <1>2, <1>3, PTL DEF Spec
-----------------------------------------------------------------------------
(* No double submission *)

Protected == Typed /\ ClaimsProtectOpenKeys

LEMMA PhaseNext ==
  ASSUME Typed, PhaseOK, [Next]_vars PROVE PhaseOK'
<1> USE DEF PhaseOK
<1>0. TypeOK
  BY DEF Typed
<1>1. ASSUME NEW r \in Requests,
             RefuseInvalid(r) \/ Dispatch(r) \/ OnUnreachable(r) \/ OnRejected(r)
               \/ OnRejectedFails(r) \/ OnAccepted(r) \/ OnAcceptedFails(r)
      PROVE PhaseOK'
  BY <1>0, <1>1 DEF RefuseInvalid, Dispatch, OnUnreachable, OnRejected, OnRejectedFails,
                    OnAccepted, OnAcceptedFails, Answer, TypeOK
<1>2. ASSUME NEW r \in Requests, Accept(r) \/ Reject(r) PROVE PhaseOK'
  BY <1>0, <1>2 DEF Accept, Reject, Decide, TypeOK
<1>3. ASSUME NEW r \in Requests, NEW k \in Keys,
             RefuseReuse(r, k) \/ ClaimAndDispatch(r, k) \/ ClaimFails(r, k)
      PROVE PhaseOK'
  BY <1>0, <1>3 DEF RefuseReuse, ClaimAndDispatch, ClaimFails, Claim, Answer, TypeOK
<1>4. ASSUME NEW r \in Requests, NEW k \in Keys, CrashInClaim(r, k) PROVE PhaseOK'
  BY <1>0, <1>4 DEF CrashInClaim, Claim, Die, Posting, TypeOK
<1>5. ASSUME NEW r \in Requests, CrashInRelease(r) \/ CrashInRecord(r) PROVE PhaseOK'
  BY <1>0, <1>5 DEF CrashInRelease, CrashInRecord, Die, Posting, TypeOK
<1>6. CASE Crash
  BY <1>0, <1>6 DEF Crash, Die, Posting, TypeOK
<1>7. CASE Restart
  BY <1>0, <1>7 DEF Restart, TypeOK
<1>8. CASE UNCHANGED vars
  BY <1>8 DEF vars
<1> QED BY <1>1, <1>2, <1>3, <1>4, <1>5, <1>6, <1>7, <1>8 DEF Next, Handle

\* A step that opens no submission keeps keys protected if it keeps the claims
\* of the submissions that stay open, or counts their keys as forgotten.
LEMMA NothingOpens ==
  ASSUME OneOpenPerKey, forgotten \subseteq forgotten',
         \A q \in Requests : IsOpen(q)' => IsOpen(q) /\ reqKey'[q] = reqKey[q],
         \A q \in Requests : IsOpen(q)' /\ reqKey[q] \notin forgotten' \cup {NoKey} =>
              /\ up' \/ Durable
              /\ up' => reqKey[q] \in MemHeld'
              /\ Durable => reqKey[q] \in DbHeld'
  PROVE  OneOpenPerKey' /\ OpenKeyHeld'
<1>1. OneOpenPerKey'
  BY DEF OneOpenPerKey
<1>2. OpenKeyHeld'
  BY DEF OpenKeyHeld
<1> QED BY <1>1, <1>2

\* The death of the process: the claims of open submissions are on disk, or
\* their keys are forgotten.  The submission whose key was given back is closed.
LEMMA ProtectedDie ==
  ASSUME Typed, Typed', ClaimsProtectOpenKeys,
         NEW dead, NEW db, NEW rows, NEW back, Posting \subseteq dead,
         Die(dead, db, rows, back),
         \A q \in Requests : IsOpen(q)' => reqKey'[q] = reqKey[q],
         \A q \in Requests : IsOpen(q)' => reqKey[q] \notin back \/ reqKey[q] \in forgotten
  PROVE  OneOpenPerKey' /\ OpenKeyHeld'
<1>1. forgotten \subseteq forgotten' /\ ~up'
  BY DEF Die
<1>2. \A q \in Requests : IsOpen(q)' => IsOpen(q)
  BY DEF Die, IsOpen, Typed, TypeOK, Posting
<1>3. ASSUME NEW q \in Requests, IsOpen(q)', reqKey[q] \notin forgotten' \cup {NoKey}
      PROVE  Durable /\ reqKey[q] \in DbHeld'
  <2>1. IsOpen(q) /\ reqKey[q] \notin forgotten \cup {NoKey} /\ up /\ reqKey[q] \notin back
    BY <1>1, <1>2, <1>3 DEF Die
  <2>2. reqKey[q] \in MemHeld
    BY <2>1 DEF ClaimsProtectOpenKeys, OpenKeyHeld
  <2>3. reqKey[q] \in Held(db)
    BY <1>3, <2>1, <2>2 DEF Die
  <2>4. reqKey[q] \in DbHeld' 
    BY <2>3 DEF Die, DbHeld
  <2>5. Durable
    BY <2>4 DEF DbHeld, Held, Typed, TypeOK, IndexOK
  <2> QED BY <2>4, <2>5
<1> QED BY <1>1, <1>2, <1>3, NothingOpens DEF ClaimsProtectOpenKeys

LEMMA ProtectedNext ==
  ASSUME ConstantsAssumption, Protected, [Next]_vars PROVE Protected'
<1> USE DEF Protected
<1>0. Typed' /\ PhaseOK' /\ TypeOK /\ IndexOK
  BY TypedNext, PhaseNext DEF ClaimsProtectOpenKeys, Typed
<1> SUFFICES OneOpenPerKey' /\ OpenKeyHeld'
  BY <1>0 DEF ClaimsProtectOpenKeys, Typed
<1>a. /\ \A j \in Keys : memAt[j] <= clock /\ dbAt[j] <= clock
      /\ OneOpenPerKey /\ OpenKeyHeld /\ PhaseOK
  BY <1>0 DEF IndexOK, ClaimsProtectOpenKeys
<1>1. ASSUME NEW r \in Requests, RefuseInvalid(r) \/ OnUnreachable(r) PROVE OneOpenPerKey' /\ OpenKeyHeld'
  <2>1. \A q \in Requests : IsOpen(q)' => IsOpen(q) /\ reqKey'[q] = reqKey[q]
    BY <1>0, <1>1 DEF RefuseInvalid, OnUnreachable, Answer, IsOpen, TypeOK
  <2>2. forgotten' = forgotten /\ up' = up /\ MemHeld' = MemHeld /\ DbHeld' = DbHeld
    BY <1>1 DEF RefuseInvalid, OnUnreachable, Answer, keyIndex, history, MemHeld, DbHeld
  <2> QED BY <1>a, <2>1, <2>2, NothingOpens DEF OpenKeyHeld
<1>2. ASSUME NEW r \in Requests, Accept(r) \/ Reject(r) PROVE OneOpenPerKey' /\ OpenKeyHeld'
  <2>1. \A q \in Requests : IsOpen(q)' => IsOpen(q) /\ reqKey'[q] = reqKey[q]
    BY <1>0, <1>2 DEF Accept, Reject, Decide, IsOpen, TypeOK
  <2>2. forgotten' = forgotten /\ up' = up /\ MemHeld' = MemHeld /\ DbHeld' = DbHeld
    BY <1>2 DEF Accept, Reject, Decide, keyIndex, history, MemHeld, DbHeld
  <2> QED BY <1>a, <2>1, <2>2, NothingOpens DEF OpenKeyHeld
<1>3. ASSUME NEW r \in Requests, OnAccepted(r) \/ OnAcceptedFails(r) PROVE OneOpenPerKey' /\ OpenKeyHeld'
  <2>1. \A q \in Requests : IsOpen(q)' => IsOpen(q) /\ reqKey'[q] = reqKey[q]
    BY <1>0, <1>3 DEF OnAccepted, OnAcceptedFails, Answer, IsOpen, TypeOK
  <2>2. forgotten' = forgotten /\ up' = up /\ MemHeld' = MemHeld /\ DbHeld' = DbHeld
    BY <1>3 DEF OnAccepted, OnAcceptedFails, Answer, keyIndex, history, MemHeld, DbHeld
  <2> QED BY <1>a, <2>1, <2>2, NothingOpens DEF OpenKeyHeld
<1>4. ASSUME NEW r \in Requests, Dispatch(r) PROVE OneOpenPerKey' /\ OpenKeyHeld'
  <2>1. reqKey[r] = NoKey /\ reqKey' = reqKey
    BY <1>a, <1>4 DEF Dispatch, PhaseOK
  <2>2. \A q \in Requests \ {r} : IsOpen(q)' => IsOpen(q)
    BY <1>0, <1>4 DEF Dispatch, Answer, IsOpen, TypeOK
  <2>3. forgotten' = forgotten /\ up' = up /\ MemHeld' = MemHeld /\ DbHeld' = DbHeld
    BY <1>4 DEF Dispatch, Answer, keyIndex, history, MemHeld, DbHeld
  <2>4. OneOpenPerKey'
    BY <1>a, <2>1, <2>2, <2>3 DEF OneOpenPerKey
  <2>5. OpenKeyHeld'
    BY <1>a, <2>1, <2>2, <2>3 DEF OpenKeyHeld
  <2> QED BY <2>4, <2>5
<1>5. ASSUME NEW r \in Requests, OnRejected(r) \/ OnRejectedFails(r) PROVE OneOpenPerKey' /\ OpenKeyHeld'
  <2>1. \A q \in Requests : IsOpen(q)' => q # r /\ IsOpen(q) /\ reqKey'[q] = reqKey[q]
    BY <1>0, <1>5 DEF OnRejected, OnRejectedFails, Answer, IsOpen, TypeOK
  <2>2. forgotten' = forgotten /\ up' = up /\ IsOpen(r)
    BY <1>5 DEF OnRejected, OnRejectedFails, Answer, history, IsOpen
  <2>3. /\ MemHeld \ {reqKey[r]} \subseteq MemHeld'
        /\ DbHeld \ {reqKey[r]} \subseteq DbHeld'
    BY <1>0, <1>5 DEF OnRejected, OnRejectedFails, ReleasedMem, ReleasedDb, Keep, Held,
                      MemHeld, DbHeld, TypeOK
  <2>4. \A q \in Requests : IsOpen(q)' /\ reqKey[q] \notin forgotten' \cup {NoKey} =>
              /\ up' \/ Durable
              /\ up' => reqKey[q] \in MemHeld'
              /\ Durable => reqKey[q] \in DbHeld'
    BY <1>a, <2>1, <2>2, <2>3 DEF OneOpenPerKey, OpenKeyHeld
  <2> QED BY <1>a, <2>1, <2>2, <2>4, NothingOpens
<1>6. ASSUME NEW r \in Requests, NEW k \in Keys, RefuseReuse(r, k) PROVE OneOpenPerKey' /\ OpenKeyHeld'
  <2>1. \A q \in Requests : IsOpen(q)' => IsOpen(q) /\ reqKey'[q] = reqKey[q]
    BY <1>0, <1>a, <1>6 DEF RefuseReuse, Answer, IsOpen, PhaseOK, TypeOK
  <2>2. /\ forgotten' = forgotten /\ up' = up /\ DbHeld' = DbHeld
        /\ MemHeld \subseteq MemHeld'
    BY <1>0, <1>6 DEF RefuseReuse, Answer, history, MemInserted, Held, MemHeld, DbHeld, TypeOK
  <2> QED BY <1>a, <2>1, <2>2, NothingOpens DEF OpenKeyHeld
<1>7. ASSUME NEW r \in Requests, NEW k \in Keys, ClaimAndDispatch(r, k) PROVE OneOpenPerKey' /\ OpenKeyHeld'
  <2>1. /\ up /\ up' /\ k \notin MemHeld /\ k # NoKey
        /\ forgotten' = forgotten \cup (MemHeld \ MemHeld') \cup (DbHeld \ DbHeld')
    BY <1>7 DEF ClaimAndDispatch, Claim, Answer, Dropped, MemHeld, DbHeld, ConstantsAssumption
  <2>2. \A q \in Requests \ {r} : reqKey'[q] = reqKey[q] /\ (IsOpen(q)' => IsOpen(q))
    BY <1>0, <1>7 DEF ClaimAndDispatch, Claim, Answer, IsOpen, TypeOK
  <2>3. reqKey'[r] = k /\ k \in MemHeld' /\ (Durable => k \in DbHeld')
    BY <1>0, <1>a, <1>7, ClaimFacts DEF ClaimAndDispatch, Claim, MemHeld, DbHeld, TypeOK
  <2>4. \A q \in Requests \ {r} : IsOpen(q)' /\ reqKey[q] = k => k \in forgotten
    BY <1>a, <2>1, <2>2 DEF OpenKeyHeld
  <2>5. OneOpenPerKey'
    BY <1>a, <2>1, <2>2, <2>3, <2>4 DEF OneOpenPerKey
  <2>6. OpenKeyHeld'
    BY <1>a, <2>1, <2>2, <2>3 DEF OpenKeyHeld
  <2> QED BY <2>5, <2>6
<1>8. ASSUME NEW r \in Requests, NEW k \in Keys, ClaimFails(r, k) PROVE OneOpenPerKey' /\ OpenKeyHeld'
  <2>1. /\ up' = up
        /\ forgotten' = forgotten \cup (MemHeld \ MemHeld') \cup (DbHeld \ DbHeld')
    BY <1>8 DEF ClaimFails, Answer, Dropped, MemHeld, DbHeld
  <2>2. \A q \in Requests : IsOpen(q)' => IsOpen(q) /\ reqKey'[q] = reqKey[q]
    BY <1>0, <1>a, <1>8 DEF ClaimFails, Claim, Answer, IsOpen, PhaseOK, TypeOK
  <2>3. \A q \in Requests : IsOpen(q)' /\ reqKey[q] \notin forgotten' \cup {NoKey} =>
              /\ up' \/ Durable
              /\ up' => reqKey[q] \in MemHeld'
              /\ Durable => reqKey[q] \in DbHeld'
    BY <1>a, <2>1, <2>2 DEF OpenKeyHeld
  <2> QED BY <1>a, <2>1, <2>2, <2>3, NothingOpens
<1>9. ASSUME NEW r \in Requests, NEW k \in Keys, CrashInClaim(r, k) PROVE OneOpenPerKey' /\ OpenKeyHeld'
  <2>1. PICK db : Die(Posting \cup {r}, db, rowAt, {})
    BY <1>9 DEF CrashInClaim
  <2>2. \A q \in Requests : IsOpen(q)' => reqKey'[q] = reqKey[q]
    BY <1>0, <1>a, <1>9 DEF CrashInClaim, Claim, Die, IsOpen, PhaseOK, TypeOK
  <2> QED BY <1>0, <2>1, <2>2, ProtectedDie
<1>10. ASSUME NEW r \in Requests, CrashInRelease(r) PROVE OneOpenPerKey' /\ OpenKeyHeld'
  <2>1. Die(Posting, ReleasedDb(r), rowAt, {reqKey[r]}) /\ reqKey' = reqKey
    BY <1>10 DEF CrashInRelease
  <2>2. /\ \A q \in Requests : IsOpen(q)' => q # r /\ IsOpen(q)
        /\ IsOpen(r) /\ reqKey[r] # NoKey
    BY <1>0, <1>10 DEF CrashInRelease, Die, Posting, IsOpen, TypeOK, ConstantsAssumption
  <2>3. \A q \in Requests : IsOpen(q)' => reqKey[q] \notin {reqKey[r]} \/ reqKey[q] \in forgotten
    BY <1>a, <2>2 DEF OneOpenPerKey
  <2> QED BY <1>0, <2>1, <2>3, ProtectedDie
<1>11. ASSUME NEW r \in Requests, CrashInRecord(r) PROVE OneOpenPerKey' /\ OpenKeyHeld'
  <2>1. Die(Posting, dbAt, Recorded(r), {}) /\ reqKey' = reqKey
    BY <1>11 DEF CrashInRecord
  <2> QED BY <1>0, <2>1, ProtectedDie
<1>12. CASE Crash
  <2>1. Die(Posting, dbAt, rowAt, {}) /\ reqKey' = reqKey
    BY <1>12 DEF Crash
  <2> QED BY <1>0, <2>1, ProtectedDie
<1>13. CASE Restart
  <2>1. \A q \in Requests : IsOpen(q)' => IsOpen(q) /\ reqKey'[q] = reqKey[q]
    BY <1>13 DEF Restart, IsOpen
  <2>2. forgotten' = forgotten /\ ~up /\ MemHeld' = DbHeld /\ DbHeld' = DbHeld
    BY <1>13 DEF Restart, history, MemHeld, DbHeld
  <2> QED BY <1>a, <2>1, <2>2, NothingOpens DEF OpenKeyHeld
<1>14. CASE UNCHANGED vars
  BY <1>a, <1>14 DEF vars, keyIndex, history, OneOpenPerKey, OpenKeyHeld, IsOpen, MemHeld, DbHeld
<1> QED BY <1>1, <1>2, <1>3, <1>4, <1>5, <1>6, <1>7, <1>8, <1>9, <1>10, <1>11, <1>12,
           <1>13, <1>14 DEF Protected, Next, Handle

\* The claim of every submission that may have a job is kept, and no other
\* submission is open with its key (app.py, submit and _claim_idempotency).
THEOREM KeysProtected == Spec => []ClaimsProtectOpenKeys
<1>1. Init => Protected
  BY TypedInit, ConstantsAssumption
     DEF Init, Protected, Typed, TypeOK, ClaimsProtectOpenKeys, PhaseOK, OneOpenPerKey,
         OpenKeyHeld, IsOpen
<1>2. Protected /\ [Next]_vars => Protected'
  BY ProtectedNext, ConstantsAssumption
<1>3. Protected => ClaimsProtectOpenKeys
  BY DEF Protected
<1> QED BY <1>1, <1>2, <1>3, PTL DEF Spec

\* No two jobs come from one key that was not forgotten, for any number of
\* submissions, keys, crashes, restarts and failing SQLite calls.
THEOREM SingleUse == Spec => []NoDoubleSubmit
<1>1. ClaimsProtectOpenKeys => NoDoubleSubmit
  BY DEF ClaimsProtectOpenKeys, OneOpenPerKey, NoDoubleSubmit, IsOpen
<1> QED BY <1>1, KeysProtected, PTL
-----------------------------------------------------------------------------
(* Records: nothing but jobs is recorded, and no acknowledged job is lost *)

Records ==
  /\ NoGhostRecord
  /\ \A r \in Requests : phase[r] = "created" =>
       /\ upstream[r] = "accepted"
       /\ Durable => rowAt[r] > 0
       /\ crashes = 0 => r \in memJobs
  /\ crashes = 0 => up

LEMMA RecordsNext ==
  ASSUME ConstantsAssumption, Typed, PhaseOK, Records, [Next]_vars PROVE Records'
<1> USE DEF Records, NoGhostRecord
<1>0. TypeOK /\ \A r \in Requests : phase[r] = "idle" => upstream[r] = "none"
  BY DEF Typed, PhaseOK
<1>1. ASSUME NEW r \in Requests, NEW k \in Keys,
             RefuseReuse(r, k) \/ ClaimAndDispatch(r, k) \/ ClaimFails(r, k)
      PROVE Records'
  BY <1>0, <1>1 DEF RefuseReuse, ClaimAndDispatch, ClaimFails, Claim,
                    Answer, jobIndex, bounds, TypeOK
<1>2. ASSUME NEW r \in Requests, RefuseInvalid(r) \/ Dispatch(r) PROVE Records'
  BY <1>0, <1>2 DEF RefuseInvalid, Dispatch, Answer, jobIndex, bounds, TypeOK
<1>3. ASSUME NEW r \in Requests, Accept(r) \/ Reject(r) PROVE Records'
  BY <1>0, <1>3 DEF Accept, Reject, Decide, jobIndex, bounds, TypeOK
<1>4. ASSUME NEW r \in Requests, OnRejected(r) \/ OnRejectedFails(r) \/ OnUnreachable(r)
      PROVE Records'
  BY <1>0, <1>4 DEF OnRejected, OnRejectedFails, OnUnreachable, Answer, jobIndex, bounds, TypeOK
<1>5. ASSUME NEW r \in Requests, OnAccepted(r) \/ OnAcceptedFails(r) PROVE Records'
  <2>1. /\ \A q \in Requests \ {r} : Recorded(r)[q] = rowAt[q]
        /\ Durable => Recorded(r)[r] > 0
    BY <1>0 DEF Recorded, TypeOK
  <2> QED BY <1>0, <1>5, <2>1 DEF OnAccepted, OnAcceptedFails, Answer, TypeOK
<1>6. ASSUME NEW r \in Requests, NEW k \in Keys, CrashInClaim(r, k) PROVE Records'
  <2>1. /\ crashes' = crashes + 1 /\ memJobs' = {} /\ rowAt' = rowAt /\ upstream' = upstream
        /\ \A q \in Requests : phase'[q] \in {phase[q], "lost"}
    BY <1>0, <1>6 DEF CrashInClaim, Die, TypeOK
  <2> QED BY <1>0, <2>1 DEF TypeOK
<1>7. ASSUME NEW r \in Requests, CrashInRelease(r) PROVE Records'
  <2>1. /\ crashes' = crashes + 1 /\ memJobs' = {} /\ rowAt' = rowAt /\ upstream' = upstream
        /\ \A q \in Requests : phase'[q] \in {phase[q], "lost"}
    BY <1>0, <1>7 DEF CrashInRelease, Die, TypeOK
  <2> QED BY <1>0, <2>1 DEF TypeOK
<1>8. ASSUME NEW r \in Requests, CrashInRecord(r) PROVE Records'
  <2>1. /\ crashes' = crashes + 1 /\ memJobs' = {} /\ upstream' = upstream
        /\ rowAt' = Recorded(r) /\ upstream[r] = "accepted"
        /\ \A q \in Requests : phase'[q] \in {phase[q], "lost"}
    BY <1>0, <1>8 DEF CrashInRecord, Die, TypeOK
  <2>2. /\ \A q \in Requests \ {r} : Recorded(r)[q] = rowAt[q]
        /\ rowAt[r] > 0 => Recorded(r)[r] > 0
    BY <1>0 DEF Recorded, TypeOK
  <2> QED BY <1>0, <2>1, <2>2 DEF TypeOK
<1>9. CASE Crash
  <2>1. /\ crashes' = crashes + 1 /\ memJobs' = {} /\ rowAt' = rowAt /\ upstream' = upstream
        /\ \A q \in Requests : phase'[q] \in {phase[q], "lost"}
    BY <1>0, <1>9 DEF Crash, Die, TypeOK
  <2> QED BY <1>0, <2>1 DEF TypeOK
<1>10. CASE Restart
  BY <1>0, <1>10 DEF Restart, Newest, Held, bounds, TypeOK
<1>11. CASE UNCHANGED vars
  BY <1>11 DEF vars, jobIndex, bounds
<1> QED BY <1>1, <1>2, <1>3, <1>4, <1>5, <1>6, <1>7, <1>8, <1>9, <1>10, <1>11 DEF Next, Handle

LEMMA RecordsInit == Init => Protected /\ Records
<1>1. Init => Protected
  BY TypedInit, ConstantsAssumption
     DEF Init, Protected, Typed, TypeOK, ClaimsProtectOpenKeys, PhaseOK, OneOpenPerKey,
         OpenKeyHeld, IsOpen
<1>2. Init => Records
  BY DEF Init, Records, NoGhostRecord
<1> QED BY <1>1, <1>2

LEMMA RecordsInvariant == Spec => [](Protected /\ Records)
<1>1. Init => Protected /\ Records
  BY RecordsInit
<1>2. Protected /\ Records /\ [Next]_vars => (Protected /\ Records)'
  BY ProtectedNext, RecordsNext, ConstantsAssumption DEF Protected, ClaimsProtectOpenKeys
<1> QED BY <1>1, <1>2, PTL DEF Spec

\* A 201 answer is kept: the job exists, and its record survives every crash
\* and is found after every restart, beyond the reloaded window too.
THEOREM RecordsKept == Spec => []AcknowledgedJobKnown
<1>1. Records => AcknowledgedJobKnown
  BY DEF Records, AcknowledgedJobKnown, KnowsJob
<1> QED BY <1>1, RecordsInvariant, PTL

\* No record is ever made, in memory or on disk, of a submission ComfyUI did
\* not accept.
THEOREM NoGhosts == Spec => []NoGhostRecord
<1>1. Records => NoGhostRecord
  BY DEF Records
<1> QED BY <1>1, RecordsInvariant, PTL
-----------------------------------------------------------------------------
(* Submission implements SubmissionContract *)

OpenSet == {r \in Requests : IsOpen(r)}
KeyOf == [r \in Requests |-> IF IsOpen(r) THEN reqKey[r] ELSE NoKey]
Made == {r \in Requests : upstream[r] = "accepted"}
OnRecord == IF Durable THEN {r \in Requests : rowAt[r] > 0} ELSE memJobs
Acked == {r \in Requests : phase[r] = "created"}

\* A step that changes nothing the contract speaks of, but may forget keys.
LEMMA Forgetting ==
  ASSUME OpenSet' = OpenSet, KeyOf' = KeyOf, Made' = Made, Acked' = Acked,
         OnRecord' \subseteq Made, Durable => OnRecord \subseteq OnRecord',
         KeyOf \in [Requests -> Keys \cup {NoKey}],
         forgotten \subseteq forgotten', forgotten' \subseteq Keys
  PROVE  Contract!Next
<1>1. Contract!Die({})
  BY DEF Contract!Die, Contract!Close, OpenSet, KeyOf, Made, OnRecord, Acked
<1> QED BY <1>1 DEF Contract!Next

LEMMA SameVars ==
  ASSUME OpenSet' = OpenSet, KeyOf' = KeyOf, Made' = Made, Acked' = Acked,
         OnRecord' = OnRecord, forgotten' = forgotten
  PROVE  UNCHANGED Contract!vars
  BY DEF Contract!vars, OpenSet, KeyOf, Made, OnRecord, Acked

LEMMA ContractNext ==
  ASSUME ConstantsAssumption, Protected, Protected', Records, Records', [Next]_vars
  PROVE  Contract!Next \/ UNCHANGED Contract!vars
<1>0. /\ TypeOK /\ TypeOK' /\ PhaseOK /\ OpenKeyHeld
      /\ OnRecord \subseteq Made /\ OnRecord' \subseteq Made'
      /\ KeyOf \in [Requests -> Keys \cup {NoKey}] /\ forgotten' \subseteq Keys
  BY DEF Protected, Typed, TypeOK, ClaimsProtectOpenKeys, Records, NoGhostRecord, OnRecord,
         Made, KeyOf
<1>1. ASSUME NEW r \in Requests, RefuseInvalid(r) PROVE UNCHANGED Contract!vars
  <2>1. /\ \A q \in Requests : IsOpen(q)' = IsOpen(q)
        /\ Acked' = Acked
    BY <1>0, <1>1 DEF RefuseInvalid, Answer, IsOpen, Acked, PhaseOK, TypeOK
  <2>2. /\ reqKey' = reqKey /\ upstream' = upstream /\ rowAt' = rowAt /\ memJobs' = memJobs
        /\ forgotten' = forgotten
    BY <1>1 DEF RefuseInvalid, jobIndex, history
  <2> QED BY <2>1, <2>2, SameVars DEF OpenSet, KeyOf, Made, OnRecord
<1>2. ASSUME NEW r \in Requests, NEW k \in Keys, RefuseReuse(r, k) PROVE UNCHANGED Contract!vars
  <2>1. /\ \A q \in Requests : IsOpen(q)' = IsOpen(q)
        /\ Acked' = Acked
    BY <1>0, <1>2 DEF RefuseReuse, Answer, IsOpen, Acked, PhaseOK, TypeOK
  <2>2. \A q \in Requests : IsOpen(q) => reqKey'[q] = reqKey[q]
    BY <1>0, <1>2 DEF RefuseReuse, IsOpen, PhaseOK, TypeOK
  <2>3. /\ upstream' = upstream /\ rowAt' = rowAt /\ memJobs' = memJobs
        /\ forgotten' = forgotten
    BY <1>2 DEF RefuseReuse, jobIndex, history
  <2> QED BY <2>1, <2>2, <2>3, SameVars DEF OpenSet, KeyOf, Made, OnRecord
<1>3. ASSUME NEW r \in Requests, Dispatch(r) PROVE Contract!Next
  <2>1. /\ r \notin OpenSet /\ OpenSet' = OpenSet \cup {r}
        /\ Made' = Made /\ Acked' = Acked
    BY <1>0, <1>3 DEF Dispatch, Answer, IsOpen, OpenSet, Made, Acked, PhaseOK, TypeOK
  <2>2. KeyOf' = [KeyOf EXCEPT ![r] = NoKey]
    BY <1>0, <1>3 DEF Dispatch, Answer, IsOpen, KeyOf, PhaseOK, TypeOK
  <2>3. OnRecord' = OnRecord /\ forgotten' = forgotten
    BY <1>3 DEF Dispatch, OnRecord, jobIndex, history
  <2>4. Contract!Open(r, NoKey)
    BY <2>1, <2>2, <2>3 DEF Contract!Open, Contract!Free, OpenSet, KeyOf, Made, OnRecord, Acked
  <2> QED BY <1>0, <2>3, <2>4 DEF Contract!Next
<1>4. ASSUME NEW r \in Requests, NEW k \in Keys, ClaimAndDispatch(r, k) PROVE Contract!Next
  <2>1. /\ r \notin OpenSet /\ OpenSet' = OpenSet \cup {r}
        /\ Made' = Made /\ Acked' = Acked
    BY <1>0, <1>4 DEF ClaimAndDispatch, Claim, Answer, IsOpen, OpenSet, Made, Acked, PhaseOK, TypeOK
  <2>2. KeyOf' = [KeyOf EXCEPT ![r] = k]
    BY <1>0, <1>4 DEF ClaimAndDispatch, Claim, Answer, IsOpen, KeyOf, PhaseOK, TypeOK
  <2>3. OnRecord' = OnRecord /\ forgotten \subseteq forgotten'
    BY <1>4 DEF ClaimAndDispatch, OnRecord, jobIndex
  <2>4. k \in forgotten \/ \A q \in OpenSet : KeyOf[q] # k
    <3>1. up /\ k \notin MemHeld /\ k # NoKey
      BY <1>4 DEF ClaimAndDispatch, Claim, ConstantsAssumption
    <3> QED BY <1>0, <3>1 DEF OpenKeyHeld, OpenSet, KeyOf
  <2>5. Contract!Open(r, k)
    BY <2>1, <2>2, <2>3, <2>4 DEF Contract!Open, Contract!Free, OpenSet, KeyOf, Made, OnRecord, Acked
  <2> QED BY <1>0, <2>3, <2>5 DEF Contract!Next
<1>5. ASSUME NEW r \in Requests, NEW k \in Keys, ClaimFails(r, k) PROVE Contract!Next
  <2>1. /\ \A q \in Requests : IsOpen(q)' = IsOpen(q)
        /\ Acked' = Acked
    BY <1>0, <1>5 DEF ClaimFails, Claim, Answer, IsOpen, Acked, PhaseOK, TypeOK
  <2>2. \A q \in Requests : IsOpen(q) => reqKey'[q] = reqKey[q]
    BY <1>0, <1>5 DEF ClaimFails, Claim, IsOpen, PhaseOK, TypeOK
  <2>3. /\ upstream' = upstream /\ rowAt' = rowAt /\ memJobs' = memJobs
        /\ forgotten \subseteq forgotten'
    BY <1>5 DEF ClaimFails, jobIndex
  <2>4. OpenSet' = OpenSet /\ KeyOf' = KeyOf /\ Made' = Made /\ OnRecord' = OnRecord
    BY <2>1, <2>2, <2>3 DEF OpenSet, KeyOf, Made, OnRecord
  <2> QED BY <1>0, <2>1, <2>3, <2>4, Forgetting
<1>6. ASSUME NEW r \in Requests, Accept(r) PROVE Contract!Next
  <2>1. /\ r \in OpenSet \ Made /\ Made' = Made \cup {r} /\ OpenSet' = OpenSet
        /\ KeyOf' = KeyOf
    BY <1>0, <1>6 DEF Accept, Decide, IsOpen, OpenSet, KeyOf, Made, TypeOK
  <2>2. OnRecord' = OnRecord /\ Acked' = Acked /\ forgotten' = forgotten
    BY <1>6 DEF Accept, Decide, OnRecord, Acked, jobIndex, history
  <2>3. Contract!Create(r)
    BY <2>1, <2>2 DEF Contract!Create, OpenSet, KeyOf, Made, OnRecord, Acked
  <2> QED BY <1>0, <2>2, <2>3 DEF Contract!Next
<1>7. ASSUME NEW r \in Requests, Made' = Made, OnRecord' = OnRecord, Acked' = Acked,
             forgotten' = forgotten, reqKey' = reqKey, r \notin Made,
             \A q \in Requests \ {r} : IsOpen(q)' = IsOpen(q), IsOpen(r)
      PROVE  Contract!Next \/ UNCHANGED Contract!vars
  <2>1. CASE IsOpen(r)'
    <3>1. OpenSet' = OpenSet /\ KeyOf' = KeyOf
      BY <1>7, <2>1 DEF OpenSet, KeyOf
    <3> QED BY <1>7, <3>1, SameVars
  <2>2. CASE ~IsOpen(r)'
    <3>1. OpenSet' = OpenSet \ {r} /\ r \in OpenSet
      BY <1>7, <2>2 DEF OpenSet
    <3>2. KeyOf' = [q \in Requests |-> IF q \in {r} THEN NoKey ELSE KeyOf[q]]
      BY <1>7, <2>2 DEF KeyOf
    <3>3. Contract!Release(r)
      BY <1>7, <3>1, <3>2 DEF Contract!Release, Contract!Close, OpenSet, KeyOf, Made, OnRecord, Acked
    <3> QED BY <1>0, <1>7, <3>3 DEF Contract!Next
  <2> QED BY <2>1, <2>2
<1>8. ASSUME NEW r \in Requests, Reject(r) PROVE Contract!Next \/ UNCHANGED Contract!vars
  <2>1. /\ Made' = Made /\ r \notin Made /\ IsOpen(r)
        /\ \A q \in Requests \ {r} : IsOpen(q)' = IsOpen(q)
    BY <1>0, <1>8 DEF Reject, Decide, Made, IsOpen, TypeOK
  <2>2. OnRecord' = OnRecord /\ Acked' = Acked /\ forgotten' = forgotten /\ reqKey' = reqKey
    BY <1>8 DEF Reject, Decide, OnRecord, Acked, jobIndex, history
  <2> QED BY <1>7, <2>1, <2>2
<1>9. ASSUME NEW r \in Requests, OnRejected(r) \/ OnRejectedFails(r)
      PROVE  Contract!Next \/ UNCHANGED Contract!vars
  <2>1. /\ Made' = Made /\ r \notin Made /\ IsOpen(r) /\ Acked' = Acked
        /\ \A q \in Requests \ {r} : IsOpen(q)' = IsOpen(q)
    BY <1>0, <1>9 DEF OnRejected, OnRejectedFails, Answer, Made, Acked, IsOpen, TypeOK
  <2>2. OnRecord' = OnRecord /\ forgotten' = forgotten /\ reqKey' = reqKey
    BY <1>9 DEF OnRejected, OnRejectedFails, OnRecord, jobIndex, history
  <2> QED BY <1>7, <2>1, <2>2
<1>10. ASSUME NEW r \in Requests, OnUnreachable(r) PROVE Contract!Next \/ UNCHANGED Contract!vars
  <2>1. /\ Made' = Made /\ IsOpen(r) /\ Acked' = Acked
        /\ \A q \in Requests \ {r} : IsOpen(q)' = IsOpen(q)
        /\ r \in Made => IsOpen(r)'
    BY <1>0, <1>10 DEF OnUnreachable, Answer, Made, Acked, IsOpen, TypeOK
  <2>2. OnRecord' = OnRecord /\ forgotten' = forgotten /\ reqKey' = reqKey
    BY <1>10 DEF OnUnreachable, OnRecord, jobIndex, history
  <2>3. CASE r \in Made
    <3>1. OpenSet' = OpenSet /\ KeyOf' = KeyOf
      BY <2>1, <2>2, <2>3 DEF OpenSet, KeyOf
    <3> QED BY <2>1, <2>2, <3>1, SameVars
  <2> QED BY <1>7, <2>1, <2>2, <2>3
<1>11. ASSUME NEW r \in Requests, OnAccepted(r) \/ OnAcceptedFails(r)
       PROVE  Contract!Next \/ UNCHANGED Contract!vars
  <2>1. /\ Made' = Made /\ r \in Made /\ \A q \in Requests : IsOpen(q)' = IsOpen(q)
        /\ Acked' \in {Acked, Acked \cup {r}} /\ (OnAcceptedFails(r) => Acked' = Acked)
    BY <1>0, <1>11 DEF OnAccepted, OnAcceptedFails, Answer, Made, Acked, IsOpen, TypeOK
  <2>2. forgotten' = forgotten /\ reqKey' = reqKey
    BY <1>11 DEF OnAccepted, OnAcceptedFails, history
  <2>3. OpenSet' = OpenSet /\ KeyOf' = KeyOf
    BY <2>1, <2>2 DEF OpenSet, KeyOf
  <2>4. Durable => /\ \A q \in Requests \ {r} : Recorded(r)[q] = rowAt[q]
                   /\ Recorded(r) \in [Requests -> Nat] /\ Recorded(r)[r] > 0
    BY <1>0 DEF Recorded, TypeOK
  <2>5. \/ OnRecord' = OnRecord \cup {r}
        \/ OnAcceptedFails(r) /\ OnRecord' = OnRecord
    BY <1>11, <2>4 DEF OnAccepted, OnAcceptedFails, OnRecord
  <2>6. CASE OnRecord' = OnRecord \cup {r}
    <3>1. Contract!Record(r)
      BY <2>1, <2>2, <2>3, <2>6 DEF Contract!Record, OpenSet, KeyOf, Made, OnRecord, Acked
    <3> QED BY <1>0, <2>2, <3>1 DEF Contract!Next
  <2>7. CASE OnAcceptedFails(r) /\ OnRecord' = OnRecord
    BY <2>1, <2>2, <2>3, <2>7, SameVars
  <2> QED BY <2>5, <2>6, <2>7
<1>12. ASSUME NEW dead, NEW db, NEW rows, NEW back, Posting \subseteq dead,
              Die(dead, db, rows, back),
              \A q \in Requests : IsOpen(q)' => reqKey'[q] = reqKey[q],
              \A q \in dead : phase[q] # "created",
              \A q \in Requests : rowAt[q] > 0 => rowAt'[q] > 0
       PROVE  Contract!Next
  <2>0. PICK S \in SUBSET Requests : S = OpenSet \ OpenSet'
    BY DEF OpenSet
  <2>1. \A q \in Requests : IsOpen(q)' <=> upstream[q] \in {"sent", "accepted"}
    BY <1>0, <1>12 DEF Die, IsOpen, Posting, TypeOK
  <2>2. OpenSet' = OpenSet \ S /\ S \subseteq OpenSet \ Made /\ S \in SUBSET Requests
    BY <2>0, <2>1 DEF OpenSet, Made, IsOpen
  <2>3. KeyOf' = [q \in Requests |-> IF q \in S THEN NoKey ELSE KeyOf[q]]
    BY <1>12, <2>0, <2>1 DEF KeyOf, OpenSet, IsOpen
  <2>4. Made' = Made /\ Acked' = Acked /\ forgotten \subseteq forgotten'
    BY <1>0, <1>12 DEF Die, Made, Acked, TypeOK
  <2>5. Durable => OnRecord \subseteq OnRecord'
    BY <1>12 DEF OnRecord
  <2>6. Contract!Die(S)
    BY <1>0, <2>2, <2>3, <2>4, <2>5
       DEF Contract!Die, Contract!Close, OpenSet, KeyOf, Made, OnRecord, Acked
  <2> QED BY <1>0, <2>2, <2>4, <2>6 DEF Contract!Next
<1>13. ASSUME NEW r \in Requests, NEW k \in Keys, CrashInClaim(r, k) PROVE Contract!Next
  <2>1. PICK db : Die(Posting \cup {r}, db, rowAt, {})
    BY <1>13 DEF CrashInClaim
  <2>2. \A q \in Requests : IsOpen(q)' => reqKey'[q] = reqKey[q]
    BY <1>0, <1>13 DEF CrashInClaim, Claim, Die, IsOpen, PhaseOK, TypeOK
  <2>3. (\A q \in Posting \cup {r} : phase[q] # "created") /\ rowAt' = rowAt
    BY <1>13 DEF CrashInClaim, Claim, Die, Posting
  <2> QED BY <1>12, <2>1, <2>2, <2>3
<1>14. ASSUME NEW r \in Requests, CrashInRelease(r) PROVE Contract!Next
  <2>1. /\ Die(Posting, ReleasedDb(r), rowAt, {reqKey[r]}) /\ reqKey' = reqKey
        /\ \A q \in Posting : phase[q] # "created" 
        /\ rowAt' = rowAt
    BY <1>14 DEF CrashInRelease, Die, Posting
  <2> QED BY <1>12, <2>1
<1>15. ASSUME NEW r \in Requests, CrashInRecord(r) PROVE Contract!Next
  <2>1. /\ Die(Posting, dbAt, Recorded(r), {}) /\ reqKey' = reqKey /\ rowAt' = Recorded(r)
        /\ \A q \in Posting : phase[q] # "created"
    BY <1>15 DEF CrashInRecord, Die, Posting
  <2>2. \A q \in Requests : rowAt[q] > 0 => Recorded(r)[q] > 0
    BY <1>0 DEF Recorded, TypeOK
  <2> QED BY <1>12, <2>1, <2>2
<1>16. CASE Crash
  <2>1. /\ Die(Posting, dbAt, rowAt, {}) /\ reqKey' = reqKey /\ rowAt' = rowAt
        /\ \A q \in Posting : phase[q] # "created"
    BY <1>16 DEF Crash, Die, Posting
  <2> QED BY <1>12, <2>1
<1>17. CASE Restart
  <2>1. /\ phase' = phase /\ reqKey' = reqKey /\ upstream' = upstream /\ rowAt' = rowAt
        /\ forgotten' = forgotten
    BY <1>17 DEF Restart, history
  <2>2. OpenSet' = OpenSet /\ KeyOf' = KeyOf /\ Made' = Made /\ Acked' = Acked
    BY <2>1 DEF OpenSet, KeyOf, Made, Acked, IsOpen
  <2>3. Durable => OnRecord \subseteq OnRecord'
    BY <2>1 DEF OnRecord
  <2> QED BY <1>0, <2>1, <2>2, <2>3, Forgetting
<1>18. CASE UNCHANGED vars
  <2>1. /\ phase' = phase /\ reqKey' = reqKey /\ upstream' = upstream /\ rowAt' = rowAt
        /\ memJobs' = memJobs /\ forgotten' = forgotten
    BY <1>18 DEF vars, jobIndex, history
  <2>2. /\ OpenSet' = OpenSet /\ KeyOf' = KeyOf /\ Made' = Made /\ Acked' = Acked
        /\ OnRecord' = OnRecord
    BY <2>1 DEF OpenSet, KeyOf, Made, Acked, IsOpen, OnRecord
  <2> QED BY <2>1, <2>2, SameVars
<1> QED BY <1>1, <1>2, <1>3, <1>4, <1>5, <1>6, <1>8, <1>9, <1>10, <1>11, <1>13, <1>14, <1>15,
           <1>16, <1>17, <1>18 DEF Next, Handle

\* The key index, the database and the exchange with ComfyUI keep the promise
\* of POST /jobs stated in SubmissionContract.
THEOREM KeepsContract == Spec => ImplementsContract
<1>1. Init => Contract!Init
  BY DEF Init, Contract!Init, IsOpen
<1>2. Spec => [](Protected /\ Records)
  BY RecordsInvariant
<1>3. (Protected /\ Records) /\ (Protected /\ Records)' /\ [Next]_vars
        => [Contract!Next]_(Contract!vars)
  BY ContractNext, ConstantsAssumption
<1> QED BY <1>1, <1>2, <1>3, PTL DEF Spec, ImplementsContract, Contract!Spec
=============================================================================
