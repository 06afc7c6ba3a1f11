----------------------------- MODULE Submission -----------------------------
(***************************************************************************)
(* POST /jobs of the proxy (app.py, submit), the Idempotency-Key index it  *)
(* claims keys in, the job records it keeps, and the SQLite write-through  *)
(* behind both (persist.py) with its reload at startup.                    *)
(*                                                                         *)
(* The proxy is one asyncio process: code between two awaits is one step.  *)
(* submit has one await that matters, the POST to ComfyUI, so a submission *)
(* is a step up to the POST and a step from its outcome on.  What can      *)
(* split a step is the death of the process between two SQLite commits,    *)
(* and a SQLite call that raises half way; both are actions of their own.  *)
(* A submission is identified with the job id it draws (uuid4), so         *)
(* "request r" is also "job r".                                            *)
(*                                                                         *)
(* Time: claimed_at and created_at are readings of a clock that never      *)
(* steps back, here a counter that every claim and every record advances.  *)
(* A table row or an OrderedDict entry is its reading, 0 when absent.      *)
(***************************************************************************)
EXTENDS Naturals, FiniteSets

CONSTANTS Requests,        \* submissions, each with the id of its job
          Keys,            \* Idempotency-Key values of legal length
          NoKey,           \* the header is absent
          NoRequest,       \* no request (history only)
          Durable,         \* TRUE: started with --state-dir
          MaxKeys,         \* _MAX_IDEMPOTENCY_KEYS
          JobWindow,       \* _MAX_JOB_SCAN as the reload limit of load_jobs
          MaxCrashes,      \* bound: how often the process may die
          MaxStoreErrors   \* bound: how often a SQLite call may raise

ASSUME ConstantsAssumption ==
  /\ NoKey \notin Keys /\ NoRequest \notin Requests
  /\ Durable \in BOOLEAN
  /\ MaxKeys \in Nat \ {0} /\ JobWindow \in Nat
  /\ MaxCrashes \in Nat /\ MaxStoreErrors \in Nat

VARIABLES up,        \* the proxy process runs
          phase,     \* how far each request has come
          reqKey,    \* the Idempotency-Key it carries, once read
          upstream,  \* what became of its POST /prompt at ComfyUI
          memAt,     \* _idempotency_keys: the place of each claimed key, 0 if not held
          dbAt,      \* idempotency_keys table: claimed_at of each row, 0 if no row
          memJobs,   \* _jobs
          rowAt,     \* jobs table: created_at of each row, 0 if no row
          clock, crashes, storeErrors,
          forgotten, \* history: keys whose claim was dropped by anything but the
                     \* rejection of a submission
          claimant   \* history: the request that last claimed each key

keyIndex == <<memAt, dbAt>>
jobIndex == <<memJobs, rowAt>>
bounds == <<clock, crashes, storeErrors>>
history == <<forgotten, claimant>>
vars == <<up, phase, reqKey, upstream, keyIndex, jobIndex, bounds, history>>

Phases == {"idle", "posting",   \* not arrived; awaiting POST /prompt
           "created",           \* 201
           "reused",            \* 422 idempotency_key_reuse
           "invalid",           \* 400 or 422: nothing was submitted, or ComfyUI said no
           "unreachable",       \* 503
           "failed",            \* 500: a SQLite call raised
           "lost"}              \* the process died under the request

-----------------------------------------------------------------------------
(* Tables and indexes as functions to clock readings *)

Held(at) == {x \in DOMAIN at : at[x] > 0}

Keep(at, S) == [x \in DOMAIN at |-> IF x \in S THEN at[x] ELSE 0]

\* popitem(last=False) of the OrderedDict.
Oldest(at) == CHOOSE x \in Held(at) : \A y \in Held(at) : at[x] <= at[y]

\* The n newest rows: what ORDER BY ... LIMIT keeps in trim and in load_jobs.
Newest(at, n) == {x \in Held(at) : Cardinality({y \in Held(at) : at[y] > at[x]}) < n}

DbHeld == Held(dbAt)
MemHeld == Held(memAt)

\* (mutant of KnowsJob: no read-through to the table)
KnowsJob_MemoryOnly(r) == r \in memJobs

\* GET /jobs/{id} finds proxy fields for r: memory first, then the jobs table.
KnowsJob(r) == r \in memJobs \/ (Durable /\ rowAt[r] > 0)

-----------------------------------------------------------------------------
(* The claim of a key, commit by commit *)

MemInserted(k) == [memAt EXCEPT ![k] = clock + 1]

\* (mutants of Evicting: off by one, each way)
Evicting_Late(k) == Cardinality(Held(MemInserted(k))) > MaxKeys + 1
Evicting_Early(k) == Cardinality(Held(MemInserted(k))) >= MaxKeys

Evicting(k) == Cardinality(Held(MemInserted(k))) > MaxKeys
Evicted(k) == IF Evicting(k) THEN {Oldest(MemInserted(k))} ELSE {}
MemClaimed(k) == Keep(MemInserted(k), Keys \ Evicted(k))

\* INSERT; then, past the cap, DELETE of the evicted key; then the trim.
DbInserted(k) == IF Durable THEN [dbAt EXCEPT ![k] = clock + 1] ELSE dbAt
DbReleased(k) == Keep(DbInserted(k), Keys \ Evicted(k))
DbClaimed(k) == IF Evicting(k) THEN Keep(DbReleased(k), Newest(DbReleased(k), MaxKeys))
                               ELSE DbReleased(k)

\* Claims that a step drops from memory or from the table.
Dropped(mem, db) == (MemHeld \ Held(mem)) \cup (DbHeld \ Held(db))

-----------------------------------------------------------------------------
Init == /\ up = TRUE
        /\ phase = [r \in Requests |-> "idle"]
        /\ reqKey = [r \in Requests |-> NoKey]
        /\ upstream = [r \in Requests |-> "none"]
        /\ memAt = [k \in Keys |-> 0] /\ dbAt = [k \in Keys |-> 0]
        /\ memJobs = {} /\ rowAt = [r \in Requests |-> 0]
        /\ clock = 0 /\ crashes = 0 /\ storeErrors = 0
        /\ forgotten = {} /\ claimant = [k \in Keys |-> NoRequest]

Answer(r, p) == up /\ up' = up /\ phase' = [phase EXCEPT ![r] = p]

\* A request fails validation: body, workflow, metadata, extra_data, an
\* unresolvable core/ASSET, an empty or too long key.  No key is claimed yet.
RefuseInvalid(r) ==
  /\ phase[r] = "idle" /\ Answer(r, "invalid")
  /\ UNCHANGED <<reqKey, upstream, keyIndex, jobIndex, bounds, history>>

\* The key is claimed already.  A key only the table knows is copied to memory.
RefuseReuse(r, k) ==
  /\ phase[r] = "idle" /\ Answer(r, "reused")
  /\ k \in MemHeld \cup DbHeld
  /\ reqKey' = [reqKey EXCEPT ![r] = k]
  /\ memAt' = IF k \in MemHeld THEN memAt ELSE MemInserted(k)
  /\ clock' = IF k \in MemHeld THEN clock ELSE clock + 1
  /\ UNCHANGED <<upstream, dbAt, jobIndex, crashes, storeErrors, history>>

\* (mutant of Dispatch: the job is remembered before the POST)
Dispatch_RecordsFirst(r) ==
  /\ phase[r] = "idle" /\ Answer(r, "posting")
  /\ upstream' = [upstream EXCEPT ![r] = "sent"]
  /\ memJobs' = memJobs \cup {r}
  /\ UNCHANGED <<reqKey, keyIndex, rowAt, bounds, history>>

\* (mutant of Dispatch: the test for a key is dropped, the missing one is claimed)
Dispatch_ClaimsNoKey(r) ==
  /\ phase[r] = "idle" /\ Answer(r, "posting")
  /\ upstream' = [upstream EXCEPT ![r] = "sent"]
  /\ memAt' = [k \in Keys \cup {NoKey} |-> IF k \in Keys THEN memAt[k] ELSE clock + 1]
  /\ clock' = clock + 1
  /\ UNCHANGED <<reqKey, dbAt, jobIndex, crashes, storeErrors, history>>

\* Up to the await of POST /prompt, without a key ...
Dispatch(r) ==
  /\ phase[r] = "idle" /\ Answer(r, "posting")
  /\ upstream' = [upstream EXCEPT ![r] = "sent"]
  /\ UNCHANGED <<reqKey, keyIndex, jobIndex, bounds, history>>

\* (mutant of Claim: the membership test is dropped)
Claim_Unchecked(r, k) ==
  /\ phase[r] = "idle" /\ up
  /\ reqKey' = [reqKey EXCEPT ![r] = k]
  /\ claimant' = [claimant EXCEPT ![k] = r]
  /\ clock' = clock + 1

\* The key a request carries is free, and the request claims it.
Claim(r, k) ==
  /\ phase[r] = "idle" /\ up
  /\ k \notin MemHeld \cup DbHeld
  /\ reqKey' = [reqKey EXCEPT ![r] = k]
  /\ claimant' = [claimant EXCEPT ![k] = r]
  /\ clock' = clock + 1

\* ... and with a key, which the same step claims.
ClaimAndDispatch(r, k) ==
  /\ Claim(r, k) /\ Answer(r, "posting")
  /\ upstream' = [upstream EXCEPT ![r] = "sent"]
  /\ memAt' = MemClaimed(k) /\ dbAt' = DbClaimed(k)
  /\ forgotten' = forgotten \cup Dropped(memAt', dbAt')
  /\ UNCHANGED <<jobIndex, crashes, storeErrors>>

\* A SQLite call of the claim raises: the request fails before the POST.  The
\* statement that raised may still have taken effect.  INSERT raises before
\* memory is touched; DELETE and trim raise after the eviction from memory.
ClaimFails(r, k) ==
  /\ Durable /\ storeErrors < MaxStoreErrors
  /\ Claim(r, k) /\ Answer(r, "failed")
  /\ \/ memAt' = memAt /\ dbAt' \in {dbAt, DbInserted(k)}
     \/ /\ Evicting(k)
        /\ memAt' = MemClaimed(k)
        /\ dbAt' \in {DbInserted(k), DbReleased(k), DbClaimed(k)}
  /\ storeErrors' = storeErrors + 1
  /\ forgotten' = forgotten \cup Dropped(memAt', dbAt')
  /\ UNCHANGED <<upstream, jobIndex, crashes>>

-----------------------------------------------------------------------------
(* ComfyUI: POST /prompt queues the workflow or rejects it, whether or not *)
(* anybody still waits for the answer.                                     *)

Decide(r, outcome) ==
  /\ upstream[r] = "sent"
  /\ upstream' = [upstream EXCEPT ![r] = outcome]
  /\ UNCHANGED <<up, phase, reqKey, keyIndex, jobIndex, bounds, history>>

Accept(r) == Decide(r, "accepted")
Reject(r) == Decide(r, "rejected")

-----------------------------------------------------------------------------
(* From the outcome of POST /prompt on *)

\* (mutants: the key stays in memory; the row stays in the table)
ReleasedMem_Kept(r) == memAt
ReleasedDb_Kept(r) == dbAt

ReleasedMem(r) == Keep(memAt, Keys \ {reqKey[r]})
ReleasedDb(r) == IF Durable THEN Keep(dbAt, Keys \ {reqKey[r]}) ELSE dbAt

\* (mutant of OnRejected: a rejection without a key is never answered)
OnRejected_KeyedOnly(r) ==
  /\ phase[r] = "posting" /\ upstream[r] = "rejected" /\ Answer(r, "invalid")
  /\ reqKey[r] \in Keys
  /\ memAt' = ReleasedMem(r) /\ dbAt' = ReleasedDb(r)
  /\ UNCHANGED <<reqKey, upstream, jobIndex, bounds, history>>

\* Any status but 200: the key is given back on the status alone.
OnRejected(r) ==
  /\ phase[r] = "posting" /\ upstream[r] = "rejected" /\ Answer(r, "invalid")
  /\ memAt' = ReleasedMem(r) /\ dbAt' = ReleasedDb(r)
  /\ UNCHANGED <<reqKey, upstream, jobIndex, bounds, history>>

OnRejectedFails(r) ==
  /\ Durable /\ storeErrors < MaxStoreErrors /\ reqKey[r] \in Keys
  /\ phase[r] = "posting" /\ upstream[r] = "rejected" /\ Answer(r, "failed")
  /\ memAt' = ReleasedMem(r) /\ dbAt' \in {dbAt, ReleasedDb(r)}
  /\ storeErrors' = storeErrors + 1
  /\ UNCHANGED <<reqKey, upstream, jobIndex, clock, crashes, history>>

\* (mutant of OnUnreachable: an unknown outcome gives the key back)
OnUnreachable_Releases(r) ==
  /\ phase[r] = "posting" /\ Answer(r, "unreachable")
  /\ memAt' = ReleasedMem(r) /\ dbAt' = ReleasedDb(r)
  /\ UNCHANGED <<reqKey, upstream, jobIndex, bounds, history>>

\* ClientError or timeout, with the prompt in any state: the key stays claimed.
OnUnreachable(r) ==
  /\ phase[r] = "posting" /\ Answer(r, "unreachable")
  /\ UNCHANGED <<reqKey, upstream, keyIndex, jobIndex, bounds, history>>

Recorded(r) == IF Durable THEN [rowAt EXCEPT ![r] = clock + 1] ELSE rowAt

\* 200: _remember_job (memory, then the row), then 201.
OnAccepted(r) ==
  /\ phase[r] = "posting" /\ upstream[r] = "accepted" /\ Answer(r, "created")
  /\ memJobs' = memJobs \cup {r} /\ rowAt' = Recorded(r)
  /\ clock' = clock + 1
  /\ UNCHANGED <<reqKey, upstream, keyIndex, crashes, storeErrors, history>>

\* (mutant of OnAcceptedFails: the error of the store is swallowed)
OnAcceptedFails_Swallowed(r) ==
  /\ Durable /\ storeErrors < MaxStoreErrors
  /\ phase[r] = "posting" /\ upstream[r] = "accepted" /\ Answer(r, "created")
  /\ memJobs' = memJobs \cup {r} /\ rowAt' \in {rowAt, Recorded(r)}
  /\ clock' = clock + 1 /\ storeErrors' = storeErrors + 1
  /\ UNCHANGED <<reqKey, upstream, keyIndex, crashes, history>>

OnAcceptedFails(r) ==
  /\ Durable /\ storeErrors < MaxStoreErrors
  /\ phase[r] = "posting" /\ upstream[r] = "accepted" /\ Answer(r, "failed")
  /\ memJobs' = memJobs \cup {r} /\ rowAt' \in {rowAt, Recorded(r)}
  /\ clock' = clock + 1 /\ storeErrors' = storeErrors + 1
  /\ UNCHANGED <<reqKey, upstream, keyIndex, crashes, history>>

-----------------------------------------------------------------------------
(* Death of the process, and startup.  Only the tables survive: db and rows *)
(* are what they hold, "dead" the requests under way, "back" the key a      *)
(* rejection gave back.                                                     *)

Posting == {r \in Requests : phase[r] = "posting"}

Die(dead, db, rows, back) ==
  /\ up /\ up' = FALSE
  /\ crashes < MaxCrashes /\ crashes' = crashes + 1
  /\ phase' = [r \in Requests |-> IF r \in dead THEN "lost" ELSE phase[r]]
  /\ memAt' = [k \in Keys |-> 0] /\ memJobs' = {}
  /\ dbAt' = db /\ rowAt' = rows
  /\ forgotten' = forgotten \cup ((MemHeld \cup DbHeld) \ (Held(db) \cup back))
  /\ UNCHANGED <<upstream, storeErrors>>

Crash == /\ Die(Posting, dbAt, rowAt, {})
         /\ UNCHANGED <<reqKey, claimant, clock>>

CrashInClaim(r, k) ==
  /\ Durable /\ Claim(r, k)
  /\ \E db \in {DbInserted(k), DbReleased(k), DbClaimed(k)} :
       Die(Posting \cup {r}, db, rowAt, {})

CrashInRelease(r) ==
  /\ Durable /\ phase[r] = "posting" /\ upstream[r] = "rejected" /\ reqKey[r] \in Keys
  /\ Die(Posting, ReleasedDb(r), rowAt, {reqKey[r]})
  /\ UNCHANGED <<reqKey, claimant, clock>>

CrashInRecord(r) ==
  /\ Durable /\ phase[r] = "posting" /\ upstream[r] = "accepted"
  /\ Die(Posting, dbAt, Recorded(r), {}) /\ clock' = clock + 1
  /\ UNCHANGED <<reqKey, claimant>>

\* (mutant of Restart: keys are not reloaded)
Restart_NoKeys ==
  /\ ~up /\ up' = TRUE
  /\ memAt' = [k \in Keys |-> 0]
  /\ memJobs' = Newest(rowAt, JobWindow)
  /\ UNCHANGED <<phase, reqKey, upstream, dbAt, rowAt, bounds, history>>

\* _load_state.
Restart ==
  /\ ~up /\ up' = TRUE
  /\ memAt' = dbAt
  /\ memJobs' = Newest(rowAt, JobWindow)
  /\ UNCHANGED <<phase, reqKey, upstream, dbAt, rowAt, bounds, history>>

-----------------------------------------------------------------------------
Handle(r) == OnRejected(r) \/ OnRejectedFails(r) \/ OnUnreachable(r)
             \/ OnAccepted(r) \/ OnAcceptedFails(r)

Next ==
  \/ \E r \in Requests :
       \/ RefuseInvalid(r) \/ Dispatch(r) \/ Accept(r) \/ Reject(r) \/ Handle(r)
       \/ CrashInRelease(r) \/ CrashInRecord(r)
       \/ \E k \in Keys : \/ RefuseReuse(r, k) \/ ClaimAndDispatch(r, k)
                          \/ ClaimFails(r, k) \/ CrashInClaim(r, k)
  \/ Crash \/ Restart

Spec == Init /\ [][Next]_vars

\* ComfyUI answers the prompts it received, and the event loop runs the code
\* after an await that is over.  A connection error need never come.
Fairness == \A r \in Requests : /\ WF_vars(Accept(r) \/ Reject(r))
                               /\ WF_vars(OnRejected(r) \/ OnAccepted(r))
FairSpec == Spec /\ Fairness

-----------------------------------------------------------------------------
(* Properties *)

\* Every variable stays in its range; both indexes hold keys, and only keys, that
\* requests carried (persist.py:186, the claim), and the records are of jobs.
TypeOK ==
  /\ up \in BOOLEAN
  /\ phase \in [Requests -> Phases]
  /\ reqKey \in [Requests -> Keys \cup {NoKey}]
  /\ upstream \in [Requests -> {"none", "sent", "accepted", "rejected"}]
  /\ memAt \in [Keys -> Nat] /\ dbAt \in [Keys -> Nat]
  /\ memJobs \subseteq Requests /\ rowAt \in [Requests -> Nat]
  /\ clock \in Nat /\ crashes \in 0..MaxCrashes /\ storeErrors \in 0..MaxStoreErrors
  /\ forgotten \subseteq Keys
  /\ claimant \in [Keys -> Requests \cup {NoRequest}]

\* ComfyUI holds the job, or may still come to hold it, or the proxy has not
\* learned the outcome.
IsOpen(r) == upstream[r] \in {"sent", "accepted"} \/ phase[r] = "posting"

\* Single use (comment at app.py:746-752): two jobs never come from one key,
\* across errors, retries, evictions of other keys, crashes and restarts, as
\* long as the proxy has not forgotten that key's claim.
NoDoubleSubmit ==
  \A r, q \in Requests :
    (r # q /\ upstream[r] = "accepted" /\ upstream[q] = "accepted"
       /\ reqKey[r] = reqKey[q] /\ reqKey[r] # NoKey) => reqKey[r] \in forgotten

\* Why it holds: at most one submission is open per key, and its claim is in
\* memory while the process runs and on disk whenever there is a disk.  The
\* index and phase conjuncts make the whole inductive.
OneOpenPerKey ==
  \A r, q \in Requests :
    (r # q /\ IsOpen(r) /\ IsOpen(q) /\ reqKey[r] = reqKey[q] /\ reqKey[r] # NoKey)
      => reqKey[r] \in forgotten
OpenKeyHeld ==
  \A r \in Requests :
    (IsOpen(r) /\ reqKey[r] \notin forgotten \cup {NoKey})
      => /\ up \/ Durable
         /\ up => reqKey[r] \in MemHeld
         /\ Durable => reqKey[r] \in DbHeld
IndexOK ==
  /\ \A k \in Keys : memAt[k] <= clock /\ dbAt[k] <= clock
  /\ ~Durable => \A k \in Keys : dbAt[k] = 0
PhaseOK ==
  \A r \in Requests :
    /\ phase[r] = "idle" => reqKey[r] = NoKey /\ upstream[r] = "none"
    /\ phase[r] = "posting" => up
ClaimsProtectOpenKeys == IndexOK /\ PhaseOK /\ OneOpenPerKey /\ OpenKeyHeld

\* "A 201 means the job is durably recorded" (spec/openapi.yaml:320): an
\* acknowledged job exists at ComfyUI and its record can be found, whatever
\* crashed since, also when it is outside the reloaded window.
AcknowledgedJobKnown ==
  \A r \in Requests : phase[r] = "created" =>
    upstream[r] = "accepted" /\ (Durable \/ crashes = 0 => KnowsJob(r))

\* The job list and the jobs table never show a job ComfyUI did not accept.
NoGhostRecord ==
  \A r \in Requests : (r \in memJobs \/ rowAt[r] > 0) => upstream[r] = "accepted"

\* Who may leave a key held: the request that claimed it created a job, may have,
\* or failed in the proxy or with it; no key stays held by a submission that ended
\* in a definite rejection (comment at app.py:785-788).
HeldKeyHasCause ==
  \A k \in MemHeld \cup DbHeld :
    /\ claimant[k] # NoRequest
    /\ phase[claimant[k]] \in {"posting", "created", "unreachable", "failed", "lost"}

\* The cap (comment at app.py:80-85) is exceeded by no more than one claim for
\* each crash or SQLite error in the middle of a claim.
CapExceededOnlyByFaults ==
  Cardinality(MemHeld \cup DbHeld) <= MaxKeys + crashes + storeErrors

\* A claim leaves memory of the running process only if its own holder is
\* answered, or if at least MaxKeys claims made after it remain.
EvictionSparesRecent ==
  [][up /\ up' => \A k \in MemHeld : memAt'[k] = 0 =>
       \/ \E r \in Posting : reqKey[r] = k /\ phase'[r] # "posting"
       \/ Cardinality({j \in Keys : memAt'[j] > memAt[k]}) >= MaxKeys]_vars

\* The proxy keeps the promises of the contract.
Contract == INSTANCE SubmissionContract WITH
  open <- {r \in Requests : IsOpen(r)},
  keyOf <- [r \in Requests |-> IF IsOpen(r) THEN reqKey[r] ELSE NoKey],
  created <- {r \in Requests : upstream[r] = "accepted"},
  recorded <- IF Durable THEN {r \in Requests : rowAt[r] > 0} ELSE memJobs,
  acked <- {r \in Requests : phase[r] = "created"},
  void <- forgotten
ImplementsContract == Contract!Spec

\* Under fairness every submission under way is answered, or dies with the
\* process.
SubmissionsEnd ==
  \A r \in Requests : phase[r] = "posting" ~> phase[r] # "posting"
=============================================================================
