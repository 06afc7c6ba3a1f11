------------------------------ MODULE JobStatus ------------------------------
(***************************************************************************)
(* The readers of a job: GET /jobs/{id}, GET /jobs, POST cancel and GET    *)
(* workflow (app.py), over the records the proxy keeps of jobs (memory,    *)
(* and with --state-dir a table) and the queue and history of ComfyUI.     *)
(*                                                                         *)
(* A status is read from two endpoints; a list reads one status after      *)
(* another; a cancel posts and then reads.  Each request to ComfyUI is an  *)
(* await, and jobs move meanwhile.  These handlers change nothing in the   *)
(* proxy, so one request is followed, from any moment on; the cancels of   *)
(* others are moves of ComfyUI.  Sequences of jobs are oldest first.       *)
(***************************************************************************)
EXTENDS ComfyJob, Naturals, SequencesExt

CONSTANTS Limits,      \* the values of "limit" asked for
          Filters,     \* the values of "status" asked for, as sets
          MaxScan,     \* _MAX_JOB_SCAN, also the number of records reloaded
          MaxCrashes   \* bound: how often the process may die

Terminal == {"succeeded", "failed", "canceled", "expired"}
Statuses == Terminal \cup {"queued", "running", "canceling"}

ASSUME StatusAssumption ==
  /\ Limits \subseteq Nat \ {0} /\ MaxScan \in Nat \ {0} /\ MaxCrashes \in Nat
  /\ Filters \subseteq SUBSET Statuses

VARIABLES stopping,       \* running jobs ComfyUI was told to interrupt
          up, durable,    \* the process runs; it was started with --state-dir
          recent, table,  \* _jobs; table jobs
          submitted,      \* jobs whose submission is over: recorded, or died with the process
          graphs,         \* jobs whose record in memory has its workflow
          pc, op,         \* the await the request is suspended in; what it is
          todo, scanned,  \* jobs it has still to look at; how many it has
          limit, wanted,  \* of a list
          listed,         \* jobs with their statuses, in the order of the answer
          truncated,      \* of a list
          verdict,        \* how the request was answered
          began,          \* history: place of its jobs when the request came
          met,            \* history: those of them that had a record then
          refused,        \* history: what ComfyUI answered with an error status, of which job
          crashes

records == <<durable, recent, table, submitted, graphs>>
query == <<op, limit, wanted, began, met>>
walk == <<todo, scanned, listed, truncated>>
vars == <<comfy, stopping, up, records, pc, query, walk, verdict, refused, crashes>>

Init == /\ ComfyInit /\ stopping = {}
        /\ up = TRUE /\ durable \in BOOLEAN
        /\ recent = <<>> /\ table = <<>> /\ submitted = {} /\ graphs = {}
        /\ pc = "new" /\ op = "none" /\ limit = 0 /\ wanted = Statuses /\ began = place
        /\ met = {} /\ refused = {}
        /\ todo = <<>> /\ scanned = 0 /\ listed = <<>> /\ truncated = FALSE
        /\ verdict = "none" /\ crashes = 0

-----------------------------------------------------------------------------
(* Records *)

Recorded == ToSet(recent) \cup ToSet(table)

\* Mutant: the table is not asked.
KnowsJob_MemoryOnly(j) == j \in ToSet(recent)

\* _job_meta: memory first, then the table.
KnowsJob(j) == j \in ToSet(recent) \/ (durable /\ j \in ToSet(table))

\* _job_workflow: a reloaded record has no workflow, its row has.
HasWorkflow(j) == j \in graphs \/ (durable /\ j \in ToSet(table))

\* _remember_job, after ComfyUI accepted the job.
Remember(j) ==
  /\ up /\ j \notin submitted /\ submitted' = submitted \cup {j}
  /\ recent' = Append(recent, j) /\ graphs' = graphs \cup {j}
  /\ table' = IF durable THEN Append(table, j) ELSE table
  /\ UNCHANGED <<comfy, stopping, up, durable, pc, query, walk, verdict, refused, crashes>>

Crash == /\ up /\ up' = FALSE
         /\ crashes < MaxCrashes /\ crashes' = crashes + 1
         /\ recent' = <<>> /\ graphs' = {}
         /\ submitted' = submitted \cup {j \in Jobs : place[j] # "pending"}
         /\ pc' = IF pc = "new" THEN "new" ELSE "done"
         /\ UNCHANGED <<comfy, stopping, durable, table, query, walk, verdict, refused>>

Newest(s, n) == IF Len(s) <= n THEN s ELSE SubSeq(s, Len(s) - n + 1, Len(s))

\* load_jobs: the newest rows, without their workflows.
Restart == /\ ~up /\ up' = TRUE
           /\ recent' = IF durable THEN Newest(table, MaxScan) ELSE <<>>
           /\ UNCHANGED <<comfy, stopping, durable, table, submitted, graphs, pc, query, walk,
                          verdict, refused, crashes>>

-----------------------------------------------------------------------------
(* The request *)

Goto(p) == up /\ pc' = p /\ verdict' = verdict
Answer(how) == up /\ pc' = "done" /\ verdict' = how

Arrive(what, jobs) ==
  /\ pc = "new" /\ op' = what /\ todo' = jobs
  /\ began' = [j \in Jobs |-> IF j \in ToSet(jobs) THEN place[j] ELSE "gone"]
  /\ met' = ToSet(jobs) \cap Recorded
  /\ UNCHANGED <<comfy, stopping, up, records, scanned, listed, truncated, refused, crashes>>

GetJob(j) == Arrive("get", <<j>>) /\ Goto("history") /\ UNCHANGED <<limit, wanted>>

GetJobWorkflow(j) == /\ Arrive("workflow", <<j>>)
                     /\ Answer(IF HasWorkflow(j) THEN "ok" ELSE "notFound")
                     /\ UNCHANGED <<limit, wanted>>

\* A cancel of a job the proxy has no record of looks for it at ComfyUI first.
CancelJob(j) == /\ IF KnowsJob(j) THEN Arrive("cancel", <<j>>) /\ Goto("cancel")
                                  ELSE Arrive("probe", <<j>>) /\ Goto("history")
                /\ UNCHANGED <<limit, wanted>>

\* The snapshot a list walks.
NewestFirst == Reverse(recent)

ListJobs(n, statuses) ==
  /\ Arrive("list", NewestFirst)
  /\ limit' = n /\ wanted' = statuses
  /\ IF recent = <<>> THEN Answer("ok") ELSE Goto("history")

-----------------------------------------------------------------------------
(* What follows a status *)

\* Mutant: a job that is in neither place is taken to be on its way into the queue.
Shown_AsQueued(status) == IF status = "unknown" THEN "queued" ELSE status

\* Mutant: a job that is in neither place is shown as unknown.
Shown_Raw(status) == status

\* _job: a job in neither place is expired.
Shown(status) == IF status = "unknown" THEN "expired" ELSE status

\* Mutant: a job that goes on running after its cancel is shown as running.
AfterCancel_AsItIs(status) == Shown(status)

\* A job that goes on running after its cancel is being cancelled.
AfterCancel(status) == IF status = "running" THEN "canceling" ELSE Shown(status)

AnswerWith(j, status) == /\ listed' = <<[job |-> j, status |-> status]>>
                         /\ Answer("ok") /\ UNCHANGED <<query, todo, scanned, truncated>>

\* Mutant: a walk counts as cut off only once it has passed the scan cap.
WalkOn_CountsLate(j, status) ==
  LET entries == IF status \in wanted THEN Append(listed, [job |-> j, status |-> status])
                                      ELSE listed IN
  /\ listed' = entries /\ todo' = Tail(todo) /\ scanned' = scanned + 1
  /\ IF Len(entries) >= limit \/ scanned' >= MaxScan \/ todo' = <<>>
     THEN Answer("ok") /\ truncated' = (Len(entries) < limit /\ scanned' > MaxScan)
     ELSE Goto("history") /\ UNCHANGED truncated
  /\ UNCHANGED query

\* The loop of list_jobs after a status: the answer, or the next job.
WalkOn(j, status) ==
  LET entries == IF status \in wanted THEN Append(listed, [job |-> j, status |-> status])
                                      ELSE listed IN
  /\ listed' = entries /\ todo' = Tail(todo) /\ scanned' = scanned + 1
  /\ IF Len(entries) >= limit \/ scanned' >= MaxScan \/ todo' = <<>>
     THEN Answer("ok") /\ truncated' = (Len(entries) < limit /\ todo' # <<>>)
     ELSE Goto("history") /\ UNCHANGED truncated
  /\ UNCHANGED query

\* A get asks the records once more before its 404, a probe does not.
Deliver(status) ==
  LET j == Head(todo)
      lost == status = "unknown" /\ (op = "probe" \/ ~KnowsJob(j)) IN
  \/ op = "list" /\ WalkOn(j, Shown(status))
  \/ op = "cancel" /\ AnswerWith(j, AfterCancel(status))
  \/ op = "get" /\ ~lost /\ AnswerWith(j, Shown(status))
  \/ op = "probe" /\ ~lost /\ Goto("cancel") /\ UNCHANGED <<query, walk>>
  \/ op \in {"get", "probe"} /\ lost /\ Answer("notFound") /\ UNCHANGED <<query, walk>>

\* ComfyUI answers a question about the job under the request with an error status.
Refuse(what) == refused' = refused \cup {<<Head(todo), what>>}

\* _status_of asks /history first; an answer other than 200 is taken for one that
\* does not hold the job ...
ReadHistory ==
  /\ pc = "history"
  /\ \/ /\ place[Head(todo)] = "history" /\ Deliver(outcome[Head(todo)])
        /\ UNCHANGED refused
     \/ /\ place[Head(todo)] # "history" /\ UNCHANGED refused
        /\ Goto("queue") /\ UNCHANGED <<query, walk>>
     \/ Refuse("history") /\ Goto("queue") /\ UNCHANGED <<query, walk>>
  /\ UNCHANGED <<comfy, stopping, up, records, crashes>>

\* ... and then /queue, likewise.
ReadQueue ==
  /\ pc = "queue"
  /\ \/ /\ Deliver(CASE place[Head(todo)] = "pending" -> "queued"
                     [] place[Head(todo)] = "running" -> "running"
                     [] OTHER -> "unknown")
        /\ UNCHANGED refused
     \/ Refuse("queue") /\ Deliver("unknown")
  /\ UNCHANGED <<comfy, stopping, up, records, crashes>>

\* ComfyUI does not answer: 503, also for a list that has entries already.  (A body
\* that is not the JSON it is said to be: 500.)
Unreachable ==
  /\ pc \in {"history", "queue", "cancel"} /\ Answer("unreachable")
  /\ listed' = <<>>
  /\ UNCHANGED <<comfy, stopping, up, records, query, todo, scanned, truncated, refused, crashes>>

-----------------------------------------------------------------------------
(* ComfyUI *)

\* "ComfyUI's atomic per-id cancel (interrupt-if-running or dequeue)" (app.py:916).
Cancelled(j) ==
  /\ stopping' = IF place[j] = "running" THEN stopping \cup {j} ELSE stopping
  /\ place' = IF place[j] = "pending" THEN [place EXCEPT ![j] = "gone"] ELSE place
  /\ outcome' = outcome

\* The answer's status is not looked at.  A refused cancel changes nothing; what a
\* probe was refused is of no matter to the reads that follow.
PostCancel ==
  /\ pc = "cancel" /\ Goto("history") /\ op' = "cancel"
  /\ \/ Cancelled(Head(todo)) /\ refused' = {}
     \/ UNCHANGED <<comfy, stopping>> /\ refused' = {<<Head(todo), "cancel">>}
  /\ UNCHANGED <<up, records, limit, wanted, began, met, walk, crashes>>

\* The cancel takes effect and its answer is lost.
PostCancelLost ==
  /\ pc = "cancel" /\ Cancelled(Head(todo)) /\ Answer("unreachable")
  /\ UNCHANGED <<up, records, query, walk, refused, crashes>>

\* An interrupt lands at a node boundary; the job may be over before that.
\* Another client may cancel a job.
ComfyMoves == /\ \/ /\ ComfyStep
                    /\ stopping' = {j \in stopping : place'[j] = "running"}
                 \/ \E j \in Jobs : Cancelled(j)
              /\ UNCHANGED <<up, records, pc, query, walk, verdict, refused, crashes>>

-----------------------------------------------------------------------------
Next ==
  \/ \E j \in Jobs : GetJob(j) \/ GetJobWorkflow(j) \/ CancelJob(j) \/ Remember(j)
  \/ \E n \in Limits, f \in Filters : ListJobs(n, f)
  \/ ReadHistory \/ ReadQueue \/ Unreachable \/ PostCancel \/ PostCancelLost
  \/ ComfyMoves \/ Crash \/ Restart

Spec == Init /\ [][Next]_vars

-----------------------------------------------------------------------------
(* Properties *)

Places == {"pending", "running", "history", "gone"}

\* Every variable stays in its range.
TypeOK ==
  /\ ComfyTypeOK /\ stopping \subseteq Jobs
  /\ up \in BOOLEAN /\ durable \in BOOLEAN
  /\ recent \in Seq(Jobs) /\ table \in Seq(Jobs)
  /\ submitted \subseteq Jobs /\ graphs \subseteq Jobs
  /\ pc \in {"new", "history", "queue", "cancel", "done"}
  /\ op \in {"none", "get", "list", "workflow", "probe", "cancel"}
  /\ limit \in Limits \cup {0} /\ wanted \in Filters \cup {Statuses} /\ began \in [Jobs -> Places]
  /\ todo \in Seq(Jobs) /\ scanned \in 0..MaxScan /\ truncated \in BOOLEAN
  /\ listed \in Seq([job : Jobs, status : Statuses])
  /\ verdict \in {"none", "ok", "notFound", "unreachable"}
  /\ met \subseteq Jobs /\ refused \subseteq Jobs \X {"history", "queue", "cancel"}
  /\ crashes \in 0..MaxCrashes

Answered == verdict = "none" /\ verdict' = "ok"
Entries == ToSet(listed')

\* The jobs whose place an error answer hid.
Misread == {j \in Jobs : \/ place[j] = "history" /\ <<j, "history">> \in refused
                         \/ place[j] \in {"pending", "running"} /\ <<j, "queue">> \in refused}

\* Every status of an answer is one the job had at some moment of the request, so
\* that no answer goes back behind an earlier one.  Two exceptions: "expired" is also
\* said of a job that came to its end between the two reads, or that an error answer
\* hid (app.py:351, 380); "canceling" says that ComfyUI has the interrupt, or refused
\* it (app.py:917).
WasTrue(j, status) ==
  CASE status = "queued" -> began[j] = "pending"
    [] status = "running" -> began[j] \in {"pending", "running"} /\ place[j] # "pending"
    [] status = "canceling" -> /\ began[j] \in {"pending", "running"}
                               /\ j \in stopping \/ <<j, "cancel">> \in refused
    [] status = "expired" -> \/ place[j] = "gone" \/ j \in Misread
                             \/ began[j] \in {"pending", "running"} /\ place[j] = "history"
    [] OTHER -> began[j] # "gone" /\ outcome[j] = status
Truthful == \A e \in ToSet(listed) : WasTrue(e.job, e.status)
ReportsWereTrue == [][Answered => Truthful']_vars

\* The status of a job that does not move.
Standing(j) == CASE place[j] = "pending" -> "queued" [] place[j] = "running" -> "running"
                 [] place[j] = "history" -> outcome[j] [] place[j] = "gone" -> "expired"

\* A list holds the newest matches, newest first: a job that did not move, matches
\* and was not hidden by an error answer is left out only if it is older than what is
\* listed, and the list is full or says that it stopped looking ("tell 'no more
\* matches' apart from 'stopped looking'", app.py:872).
Age(j) == CHOOSE i \in DOMAIN recent : recent[i] = j
ListHoldsNewest ==
  [][(op' = "list" /\ Answered) =>
       LET snapshot == SubSeq(recent, 1, scanned' + Len(todo'))
           missing == {j \in ToSet(snapshot) : /\ began'[j] = place[j] /\ Standing(j) \in wanted'
                                               /\ j \notin Misread' /\ \A e \in Entries : e.job # j} IN
       /\ \A i, k \in DOMAIN listed' : i < k => Age(listed'[i].job) > Age(listed'[k].job)
       /\ missing # {} => truncated' \/ Len(listed') = limit'
       /\ \A j \in missing : \A e \in Entries : Age(e.job) > Age(j)]_vars

\* A cancel that ComfyUI took is answered with "canceling" or a terminal status,
\* whatever the job does meanwhile; that of a finished job with how it ended, while
\* ComfyUI has it and says so (openapi.yaml:514-522).
CancelSettles ==
  [][(op = "cancel" /\ Answered) =>
       \A e \in Entries :
         /\ <<e.job, "cancel">> \notin refused'
              => e.status \in Terminal \cup {"canceling"}
         /\ (began[e.job] = "history" /\ place[e.job] = "history"
              /\ <<e.job, "history">> \notin refused') => e.status = outcome[e.job]]_vars

\* A job that had a record when the request came is never answered with 404, nor its
\* workflow, with --state-dir not even after restarts that reload fewer records than
\* there are ("Without the SQLite fallback a job in that gap", app.py:459).  One
\* that was recorded since only by a cancel, and only if it is over, or an error
\* answer hid it.
RecordedIsFound ==
  [][(verdict = "none" /\ verdict' = "notFound") =>
       \A j \in Jobs : todo'[1] = j =>
         /\ j \notin met'
         /\ j \in Recorded => op' = "probe" /\ WasTrue(j, "expired")']_vars
=============================================================================
