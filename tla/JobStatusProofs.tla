--------------------------- MODULE JobStatusProofs ---------------------------
(***************************************************************************)
(* For any number of jobs, records and restarts: a recorded job is found,  *)
(* the statuses of an answer were true, a cancel settles, and a list holds *)
(* the newest jobs that match.                                             *)
(***************************************************************************)
EXTENDS JobStatus, SequenceTheorems, TLAPS

Waiting == {"history", "queue", "cancel"}

\* The types, and what a request has while it waits.
TypeInv ==
  /\ ComfyTypeOK /\ stopping \subseteq Jobs /\ durable \in BOOLEAN
  /\ recent \in Seq(Jobs) /\ table \in Seq(Jobs)
  /\ pc \in Waiting \cup {"new", "done"}
  /\ op \in {"none", "get", "list", "workflow", "probe", "cancel"}
  /\ began \in [Jobs -> Places]
  /\ todo \in Seq(Jobs) /\ listed \in Seq([job : Jobs, status : Statuses])
  /\ pc \in Waiting => todo # <<>>
  /\ pc \in Waiting \cup {"new"} => verdict = "none"
  /\ pc \in {"history", "queue"} => op \in {"get", "list", "probe", "cancel"}
  /\ pc = "cancel" => op \in {"probe", "cancel"}
  /\ pc = "new" \/ (pc \in Waiting /\ op # "list") => listed = <<>>

\* With a store memory holds nothing the table lacks; without one nothing that has no
\* workflow.
RecordsInv == IF durable THEN ToSet(recent) \subseteq ToSet(table)
                         ELSE table = <<>> /\ ToSet(recent) \subseteq graphs

\* Jobs move one way.
MovedInv ==
  /\ \A j \in Jobs : /\ place[j] \in {"pending", "running"} => outcome[j] = "none"
                     /\ place[j] = "history" => outcome[j] \in Outcomes
                     /\ began[j] = "running" => place[j] # "pending"
                     /\ began[j] = "history" => place[j] \in {"history", "gone"}
  /\ \A j \in ToSet(todo) : began[j] = "gone" => place[j] = "gone"

\* A record that was there when the request came is there while it waits.
MetInv ==
  /\ ~up => pc \notin Waiting
  /\ pc \in Waiting => met \subseteq Recorded /\ (op = "probe" => met = {})

\* What the request knows of the job it looks at, and of those it has looked at.
ReadInv ==
  /\ (pc = "queue" /\ <<Head(todo), "history">> \notin refused) =>
       (began[Head(todo)] = "history" => place[Head(todo)] = "gone")
  /\ (pc \in {"history", "queue"} /\ op = "cancel" /\ <<Head(todo), "cancel">> \notin refused) =>
       /\ place[Head(todo)] # "pending"
       /\ place[Head(todo)] = "running" => Head(todo) \in stopping
  /\ pc \in {"history", "queue"} => \A e \in ToSet(listed) :
       /\ e.status # "canceling" /\ WasTrue(e.job, e.status)
       /\ began[e.job] = "gone" => place[e.job] = "gone"

IInv == TypeInv /\ RecordsInv /\ MovedInv /\ MetInv /\ ReadInv

\* What the other conjuncts of TypeOK need: a walk goes on only below the scan cap.
RestInv ==
  /\ up \in BOOLEAN /\ submitted \subseteq Jobs /\ graphs \subseteq Jobs
  /\ limit \in Limits \cup {0} /\ wanted \in Filters \cup {Statuses}
  /\ met \subseteq Jobs /\ refused \subseteq Jobs \X {"history", "queue", "cancel"}
  /\ scanned \in 0..MaxScan /\ truncated \in BOOLEAN
  /\ verdict \in {"none", "ok", "notFound", "unreachable"}
  /\ crashes \in 0..MaxCrashes
  /\ pc # "done" => scanned < MaxScan

-----------------------------------------------------------------------------
(* Sequences *)

LEMMA EmptySet == ToSet(<<>>) = {}
BY DEF ToSet

LEMMA SetOfSeq == ASSUME NEW S, NEW s \in Seq(S) PROVE ToSet(s) \subseteq S
BY DEF ToSet

LEMMA HeadTail ==
  ASSUME NEW S, NEW s \in Seq(S), s # <<>>
  PROVE  /\ Head(s) = s[1] /\ Head(s) \in S /\ Head(s) \in ToSet(s)
         /\ Tail(s) \in Seq(S) /\ ToSet(Tail(s)) \subseteq ToSet(s)
<1>1. /\ Head(s) \in S /\ Head(s) = s[1] /\ 1 \in 1..Len(s) /\ Tail(s) \in Seq(S)
      /\ \A i \in 1..Len(Tail(s)) : i + 1 \in 1..Len(s) /\ Tail(s)[i] = s[i + 1]
  OBVIOUS
<1>2. DOMAIN s = 1..Len(s) /\ DOMAIN Tail(s) = 1..Len(Tail(s))
  BY <1>1
<1> QED BY <1>1, <1>2 DEF ToSet

LEMMA AppendSet ==
  ASSUME NEW S, NEW s \in Seq(S), NEW e \in S
  PROVE  Append(s, e) \in Seq(S) /\ ToSet(Append(s, e)) = ToSet(s) \cup {e}
<1>1. Append(s, e) \in Seq(S) /\ Len(Append(s, e)) = Len(s) + 1
  OBVIOUS
<1>2. \A i \in 1..Len(s) : Append(s, e)[i] = s[i]
  OBVIOUS
<1>3. Append(s, e)[Len(s) + 1] = e
  OBVIOUS
<1>4. DOMAIN s = 1..Len(s) /\ DOMAIN Append(s, e) = 1..(Len(s) + 1) /\ Len(s) \in Nat
  BY <1>1
<1> QED BY <1>1, <1>2, <1>3, <1>4 DEF ToSet

LEMMA ReverseSeq ==
  ASSUME NEW S, NEW s \in Seq(S)
  PROVE  Reverse(s) \in Seq(S) /\ Len(Reverse(s)) = Len(s)
<1>1. Len(s) \in Nat /\ \A i \in 1..Len(s) : (Len(s) - i) + 1 \in 1..Len(s)
  OBVIOUS
<1>2. \A i \in 1..Len(s) : s[(Len(s) - i) + 1] \in S
  BY <1>1
<1> QED BY <1>1, <1>2, IsASeq DEF Reverse

LEMMA NewestSeq ==
  ASSUME NEW S, NEW s \in Seq(S), NEW n \in Nat
  PROVE  Newest(s, n) \in Seq(S) /\ ToSet(Newest(s, n)) \subseteq ToSet(s)
<1>1. CASE Len(s) <= n
  BY <1>1 DEF Newest
<1>2. CASE ~(Len(s) <= n)
  <2>1. Newest(s, n) = SubSeq(s, Len(s) - n + 1, Len(s)) /\ Len(s) \in Nat /\ Len(s) > n
    BY <1>2 DEF Newest
  <2>2. /\ SubSeq(s, Len(s) - n + 1, Len(s)) \in Seq(S)
        /\ Len(SubSeq(s, Len(s) - n + 1, Len(s))) = n
        /\ \A i \in 1..n : SubSeq(s, Len(s) - n + 1, Len(s))[i] = s[Len(s) - n + i]
    BY <2>1, SubSeqProperties
  <2>3. \A i \in 1..n : Len(s) - n + i \in 1..Len(s)
    BY <2>1
  <2>4. DOMAIN Newest(s, n) = 1..n /\ DOMAIN s = 1..Len(s)
    BY <2>1, <2>2
  <2> QED BY <2>1, <2>2, <2>3, <2>4 DEF ToSet
<1> QED BY <1>1, <1>2

-----------------------------------------------------------------------------
(* The steps *)

LEMMA InitIInv == Init => IInv
<1> SUFFICES ASSUME Init PROVE IInv
  OBVIOUS
<1>1. /\ place = [j \in Jobs |-> "pending"] /\ outcome = [j \in Jobs |-> "none"] /\ began = place
      /\ stopping = {} /\ durable \in BOOLEAN /\ recent = <<>> /\ table = <<>> /\ graphs = {}
      /\ pc = "new" /\ op = "none" /\ todo = <<>> /\ listed = <<>> /\ verdict = "none" /\ up = TRUE
  BY DEF Init, ComfyInit
<1>2. TypeInv
  BY <1>1 DEF TypeInv, ComfyTypeOK, Outcomes, Places, Waiting
<1>3. RecordsInv
  BY <1>1, EmptySet DEF RecordsInv
<1>4. MovedInv /\ MetInv /\ ReadInv
  BY <1>1, EmptySet DEF MovedInv, MetInv, ReadInv, Waiting
<1> QED BY <1>2, <1>3, <1>4 DEF IInv

\* Jobs only move on, and what they were said to be stays true.
LEMMA MovesIInv == ASSUME IInv, ComfyMoves PROVE IInv'
<1>1. /\ UNCHANGED <<up, recent, table, durable, graphs, pc, op, began, met, todo, listed, verdict,
                      refused>>
  BY DEF ComfyMoves, records, query, walk
<1>2. /\ ComfyTypeOK' /\ stopping' \subseteq Jobs
      /\ \A j \in Jobs :
           /\ place[j] = "gone" => place'[j] = "gone"
           /\ place[j] = "history" => place'[j] \in {"history", "gone"}
           /\ place[j] = "running" => place'[j] # "pending"
           /\ place'[j] = "running" => place[j] = "pending" \/ (j \in stopping => j \in stopping')
           /\ outcome'[j] # outcome[j] => place[j] = "running" /\ place'[j] = "history"
           /\ place'[j] = "history" => place[j] = "history" \/ outcome'[j] \in Outcomes
           /\ place'[j] \in {"pending", "running"} => place[j] \in {"pending", "running"}
  BY DEF ComfyMoves, ComfyStep, Start, Commit, Lose, Cancelled, IInv, TypeInv, ComfyTypeOK, Outcomes
<1>3. TypeInv'
  BY <1>1, <1>2 DEF IInv, TypeInv
<1>4. RecordsInv' /\ MetInv'
  BY <1>1 DEF IInv, RecordsInv, MetInv, Recorded
<1>5. MovedInv'
  <2>1. ASSUME NEW j \in Jobs
        PROVE  /\ place'[j] \in {"pending", "running"} => outcome'[j] = "none"
               /\ place'[j] = "history" => outcome'[j] \in Outcomes
               /\ began[j] = "running" => place'[j] # "pending"
               /\ began[j] = "history" => place'[j] \in {"history", "gone"}
               /\ place[j] = "gone" => place'[j] = "gone"
    BY <1>2 DEF IInv, TypeInv, MovedInv, ComfyTypeOK
  <2>2. ToSet(todo) \subseteq Jobs
    BY SetOfSeq DEF IInv, TypeInv
  <2> QED BY <1>1, <2>1, <2>2 DEF IInv, MovedInv
<1>6. ASSUME NEW j \in Jobs, NEW status \in Statuses, status # "canceling", WasTrue(j, status),
             began[j] = "gone" => place[j] = "gone"
      PROVE  WasTrue(j, status)' /\ (began'[j] = "gone" => place'[j] = "gone")
  <2>1. /\ began' = began /\ refused' = refused /\ began[j] \in Places /\ place[j] \in Places /\ place'[j] \in Places
        /\ place[j] = "gone" => place'[j] = "gone"
        /\ place[j] = "history" => place'[j] \in {"history", "gone"}
        /\ place[j] # "pending" => place'[j] # "pending"
        /\ outcome'[j] # outcome[j] => outcome[j] = "none"
        /\ began[j] = "running" => place[j] # "pending"
        /\ began[j] = "history" => place[j] \in {"history", "gone"}
    BY <1>1, <1>2 DEF IInv, TypeInv, MovedInv, ComfyTypeOK, Places
  <2>2. CASE status \in {"queued", "running"}
    BY <1>6, <2>1, <2>2 DEF WasTrue
  <2>3. CASE status = "expired"
    BY <1>6, <2>1, <2>3 DEF WasTrue, Misread, Places
  <2>4. CASE status \in {"succeeded", "failed", "canceled"}
    BY <1>6, <2>1, <2>4 DEF WasTrue
  <2> QED BY <1>6, <2>2, <2>3, <2>4 DEF Statuses, Terminal
<1>7. \A e \in ToSet(listed) : e.job \in Jobs /\ e.status \in Statuses
  <2>1. ToSet(listed) \subseteq [job : Jobs, status : Statuses]
    BY SetOfSeq DEF IInv, TypeInv
  <2> QED BY <2>1
<1>8. pc \in {"history", "queue"} => \A e \in ToSet(listed) :
        /\ e.status # "canceling" /\ WasTrue(e.job, e.status)'
        /\ began'[e.job] = "gone" => place'[e.job] = "gone"
  BY <1>6, <1>7 DEF IInv, ReadInv
<1>9. ASSUME pc \in Waiting
      PROVE  /\ place[Head(todo)] = "gone" => place'[Head(todo)] = "gone"
             /\ place[Head(todo)] # "pending" => place'[Head(todo)] # "pending"
             /\ (place'[Head(todo)] = "running" /\ place[Head(todo)] # "pending")
                  => place[Head(todo)] = "running" /\ (Head(todo) \in stopping => Head(todo) \in stopping')
  <2>1. Head(todo) \in Jobs
    BY <1>9, HeadTail DEF IInv, TypeInv
  <2> QED BY <1>2, <2>1 DEF IInv, TypeInv, ComfyTypeOK
<1>10. ReadInv'
  <2>1. pc \in {"history", "queue"} => \A e \in ToSet(listed') :
          /\ e.status # "canceling" /\ WasTrue(e.job, e.status)'
          /\ began'[e.job] = "gone" => place'[e.job] = "gone"
    BY <1>1, <1>8
  <2>2. /\ (pc' = "queue" /\ <<Head(todo'), "history">> \notin refused') =>
             (began'[Head(todo')] = "history" => place'[Head(todo')] = "gone")
        /\ (pc' \in {"history", "queue"} /\ op' = "cancel"
            /\ <<Head(todo'), "cancel">> \notin refused') =>
             /\ place'[Head(todo')] # "pending"
             /\ place'[Head(todo')] = "running" => Head(todo') \in stopping'
    BY <1>1, <1>9 DEF IInv, ReadInv, Waiting
  <2> QED BY <1>1, <2>1, <2>2 DEF ReadInv
<1> QED BY <1>3, <1>4, <1>5, <1>10 DEF IInv

LEMMA RecordsIInv ==
  ASSUME IInv, Crash \/ Restart \/ \E j \in Jobs : Remember(j) PROVE IInv'
<1>1. /\ UNCHANGED <<place, outcome, stopping, durable, op, began, met, todo, listed, verdict, refused>>
      /\ pc' \in {pc, "done"} /\ (pc' = "new" => pc = "new")
  BY DEF Crash, Restart, Remember, comfy, records, query, walk
<1>2. recent' \in Seq(Jobs) /\ table' \in Seq(Jobs) /\ RecordsInv'
  <2>1. CASE Crash
    <3>1. recent' = <<>> /\ table' = table /\ durable' = durable
      BY <2>1 DEF Crash
    <3> QED BY <3>1, EmptySet DEF IInv, TypeInv, RecordsInv
  <2>2. CASE Restart
    <3>1. /\ table' = table /\ durable' = durable /\ graphs' = graphs
          /\ recent' = IF durable THEN Newest(table, MaxScan) ELSE <<>>
      BY <2>2 DEF Restart, records
    <3>2. Newest(table, MaxScan) \in Seq(Jobs) /\ ToSet(Newest(table, MaxScan)) \subseteq ToSet(table)
      BY NewestSeq, StatusAssumption DEF StatusAssumption, IInv, TypeInv
    <3> QED BY <3>1, <3>2, EmptySet DEF IInv, TypeInv, RecordsInv
  <2>3. ASSUME NEW j \in Jobs, Remember(j) PROVE recent' \in Seq(Jobs) /\ table' \in Seq(Jobs) /\ RecordsInv'
    BY <2>3, AppendSet DEF Remember, IInv, TypeInv, RecordsInv
  <2> QED BY <2>1, <2>2, <2>3
<1>3. TypeInv'
  BY <1>1, <1>2 DEF IInv, TypeInv, ComfyTypeOK, Waiting
<1>4. MovedInv'
  BY <1>1 DEF IInv, MovedInv
<1>5. ReadInv'
  BY <1>1 DEF IInv, ReadInv, WasTrue, Misread
<1>6. MetInv'
  <2>1. CASE Crash
    BY <2>1 DEF Crash, MetInv, Waiting
  <2>2. CASE Restart
    <3>1. ~up /\ pc' = pc
      BY <2>2 DEF Restart
    <3> QED BY <3>1 DEF IInv, MetInv
  <2>3. ASSUME NEW j \in Jobs, Remember(j) PROVE MetInv'
    <3>1. /\ up /\ up' = up /\ recent' = Append(recent, j) /\ table' \in {table, Append(table, j)}
          /\ pc' = pc
      BY <2>3 DEF Remember
    <3>2. Recorded \subseteq Recorded'
      <4>1. recent \in Seq(Jobs) /\ table \in Seq(Jobs)
        BY DEF IInv, TypeInv
      <4>2. ToSet(recent) \subseteq ToSet(recent')
        BY <3>1, <4>1, AppendSet
      <4>3. ToSet(table) \subseteq ToSet(table')
        <5>1. CASE table' = table
          BY <5>1
        <5>2. CASE table' = Append(table, j)
          BY <4>1, <5>2, AppendSet
        <5> QED BY <3>1, <5>1, <5>2
      <4> QED BY <4>2, <4>3 DEF Recorded
    <3> QED BY <1>1, <3>1, <3>2 DEF IInv, MetInv
  <2> QED BY <2>1, <2>2, <2>3
<1> QED BY <1>2, <1>3, <1>4, <1>5, <1>6 DEF IInv

\* A request comes: it knows where its jobs are.
LEMMA ArriveIInv ==
  ASSUME IInv, UNCHANGED <<place, outcome, stopping, up, recent, table, durable, graphs, listed>>,
         up, met' = ToSet(todo') \cap Recorded, op' = "probe" => met' = {},
         pc = "new", op' \in {"get", "list", "workflow", "probe", "cancel"}, todo' \in Seq(Jobs),
         began' = [j \in Jobs |-> IF j \in ToSet(todo') THEN place[j] ELSE "gone"],
         \/ pc' = "done"
         \/ /\ verdict' = verdict /\ todo' # <<>>
            /\ \/ pc' = "history" /\ op' \in {"get", "list", "probe"}
               \/ pc' = "cancel" /\ op' = "cancel"
  PROVE  IInv'
<1>1. ToSet(todo') \subseteq Jobs
  BY SetOfSeq
<1>2. TypeInv'
  BY DEF IInv, TypeInv, ComfyTypeOK, Places, Waiting
<1>3. RecordsInv'
  BY DEF IInv, RecordsInv
<1>4. MovedInv'
  BY <1>1 DEF IInv, MovedInv
<1>5. ReadInv'
  <2>1. listed' = <<>>
    BY DEF IInv, TypeInv
  <2> QED BY <2>1, EmptySet DEF ReadInv
<1>6. MetInv'
  BY DEF MetInv, Recorded
<1> QED BY <1>2, <1>3, <1>4, <1>5, <1>6 DEF IInv

LEMMA RequestIInv ==
  ASSUME IInv,
         \/ \E j \in Jobs : GetJob(j) \/ GetJobWorkflow(j) \/ CancelJob(j)
         \/ \E n \in Limits, f \in Filters : ListJobs(n, f)
  PROVE  IInv'
<1>1. ASSUME NEW j \in Jobs, GetJob(j) \/ GetJobWorkflow(j) \/ CancelJob(j) PROVE IInv'
  <2>1. /\ UNCHANGED <<place, outcome, stopping, up, recent, table, durable, graphs, listed>> /\ up
        /\ pc = "new" /\ todo' = <<j>> /\ met' = ToSet(todo') \cap Recorded
        /\ began' = [i \in Jobs |-> IF i \in ToSet(todo') THEN place[i] ELSE "gone"]
    BY <1>1 DEF GetJob, GetJobWorkflow, CancelJob, Arrive, Goto, Answer, comfy, records
  <2>2. /\ op' \in {"get", "workflow", "probe", "cancel"}
        /\ \/ pc' = "done"
           \/ /\ verdict' = verdict
              /\ \/ pc' = "history" /\ op' \in {"get", "list", "probe"}
                 \/ pc' = "cancel" /\ op' = "cancel"
    BY <1>1 DEF GetJob, GetJobWorkflow, CancelJob, Arrive, Goto, Answer
  <2>3. todo' \in Seq(Jobs) /\ todo' # <<>>
    BY <2>1
  <2>4. op' = "probe" => met' = {}
    <3>1. op' = "probe" => ~KnowsJob(j)
      BY <1>1 DEF GetJob, GetJobWorkflow, CancelJob, Arrive
    <3>2. ~KnowsJob(j) => j \notin Recorded
      BY EmptySet DEF KnowsJob, Recorded, IInv, RecordsInv
    <3>3. ToSet(<<j>>) = {j}
      BY DEF ToSet
    <3> QED BY <2>1, <3>1, <3>2, <3>3
  <2> QED BY <2>1, <2>2, <2>3, <2>4, ArriveIInv
<1>2. ASSUME NEW n \in Limits, NEW f \in Filters, ListJobs(n, f) PROVE IInv'
  <2>1. /\ UNCHANGED <<place, outcome, stopping, up, recent, table, durable, graphs, listed>> /\ up
        /\ pc = "new" /\ todo' = Reverse(recent) /\ op' = "list" /\ met' = ToSet(todo') \cap Recorded
        /\ began' = [i \in Jobs |-> IF i \in ToSet(todo') THEN place[i] ELSE "gone"]
        /\ pc' = "done" \/ (recent # <<>> /\ pc' = "history" /\ verdict' = verdict)
    BY <1>2 DEF ListJobs, NewestFirst, Arrive, Goto, Answer, comfy, records
  <2>2. todo' \in Seq(Jobs) /\ (recent # <<>> => todo' # <<>>)
    BY <2>1, ReverseSeq DEF IInv, TypeInv
  <2> QED BY <2>1, <2>2, ArriveIInv
<1> QED BY <1>1, <1>2

-----------------------------------------------------------------------------
(* A status is read *)

Read == {"queued", "running", "unknown"} \cup Outcomes

\* What may be said of the job under the request when its status has been read.
Right(status) ==
  /\ status \in Read /\ Head(todo) \in Jobs
  /\ \A j \in Jobs : Head(todo) = j =>
       /\ WasTrue(j, Shown(status))'
       /\ op = "cancel" =>
            /\ status = "queued" => <<j, "cancel">> \in refused'
            /\ status = "running" => /\ j \in stopping \/ <<j, "cancel">> \in refused'
                                     /\ began[j] \in {"pending", "running"}
            /\ (began[j] = "history" /\ place[j] = "history" /\ <<j, "history">> \notin refused')
                 => status = outcome[j]

LEMMA HistoryRight ==
  ASSUME IInv, UNCHANGED <<place, outcome, stopping, began, refused>>,
         pc = "history", place[Head(todo)] = "history", NEW status, status = outcome[Head(todo)]
  PROVE  Right(status)
<1>1. PICK j \in Jobs : Head(todo) = j /\ j \in ToSet(todo)
  BY HeadTail DEF IInv, TypeInv, Waiting
<1>2. outcome[j] \in Outcomes /\ began[j] # "gone" /\ status = outcome[j] /\ place[j] = "history"
  BY <1>1 DEF IInv, MovedInv
<1>3. WasTrue(j, Shown(status))'
  BY <1>2 DEF WasTrue, Shown, Outcomes
<1> QED BY <1>1, <1>2, <1>3 DEF Right, Read, Outcomes

LEMMA QueueRight ==
  ASSUME IInv, UNCHANGED <<place, outcome, stopping, began>>, pc = "queue", NEW status,
         \/ /\ refused' = refused
            /\ status = CASE place[Head(todo)] = "pending" -> "queued"
                          [] place[Head(todo)] = "running" -> "running"
                          [] OTHER -> "unknown"
         \/ Refuse("queue") /\ status = "unknown"
  PROVE  Right(status)
<1>1. PICK j \in Jobs : Head(todo) = j /\ j \in ToSet(todo)
  BY HeadTail DEF IInv, TypeInv, Waiting
<1>2. /\ began[j] = "running" => place[j] # "pending"
      /\ began[j] = "history" => place[j] \in {"history", "gone"}
      /\ (began[j] = "history" /\ place[j] # "gone") => <<j, "history">> \in refused
      /\ began[j] = "gone" => place[j] = "gone"
      /\ began[j] \in Places /\ place[j] \in Places
      /\ (op = "cancel" /\ <<j, "cancel">> \notin refused) =>
           place[j] # "pending" /\ (place[j] = "running" => j \in stopping)
  BY <1>1 DEF IInv, TypeInv, MovedInv, ReadInv, ComfyTypeOK, Places
<1>3. /\ refused \subseteq refused' /\ status \in {"queued", "running", "unknown"}
      /\ status = "queued" => place[j] = "pending"
      /\ status = "running" => place[j] = "running"
      /\ status = "unknown" => place[j] \in {"history", "gone"} \/ <<j, "queue">> \in refused'
  BY <1>1, <1>2 DEF Refuse, Places
<1>4. CASE status = "queued"
  BY <1>1, <1>2, <1>3, <1>4 DEF Right, Read, WasTrue, Shown, Places
<1>5. CASE status = "running"
  BY <1>1, <1>2, <1>3, <1>5 DEF Right, Read, WasTrue, Shown, Places
<1>6. CASE status = "unknown"
  <2>1. WasTrue(j, "expired")'
    BY <1>2, <1>3, <1>6 DEF WasTrue, Misread, Places
  <2>2. ~(began[j] = "history" /\ place[j] = "history" /\ <<j, "history">> \notin refused')
    BY <1>2, <1>3
  <2> QED BY <1>1, <1>6, <2>1, <2>2 DEF Right, Read, Shown
<1> QED BY <1>3, <1>4, <1>5, <1>6

\* What a status does to the request.
Listed(status) ==
  /\ op = "list" /\ op' = op /\ todo' = Tail(todo)
  /\ listed' = listed \/ listed' = Append(listed, [job |-> Head(todo), status |-> Shown(status)])
  /\ \/ pc' = "done" /\ verdict' = "ok"
     \/ pc' = "history" /\ todo' # <<>> /\ verdict' = verdict

GaveStatus(status) ==
  /\ op' = op /\ pc' = "done" /\ verdict' = "ok" /\ todo' = todo
  /\ \/ op = "cancel" /\ listed' = <<[job |-> Head(todo), status |-> AfterCancel(status)]>>
     \/ op = "get" /\ listed' = <<[job |-> Head(todo), status |-> Shown(status)]>>

Probed == /\ op = "probe" /\ op' = op /\ pc' = "cancel" /\ verdict' = verdict
          /\ todo' = todo /\ listed' = listed

NotFound(status) ==
  /\ op' = op /\ pc' = "done" /\ verdict' = "notFound" /\ status = "unknown"
  /\ op = "probe" \/ (op = "get" /\ ~KnowsJob(Head(todo)))
  /\ todo' = todo /\ listed' = listed

Serves(status) == Listed(status) \/ GaveStatus(status) \/ Probed \/ NotFound(status)

ReadOn == /\ pc = "history" /\ pc' = "queue"
          /\ place[Head(todo)] # "history" \/ <<Head(todo), "history">> \in refused'
          /\ op' = op /\ todo' = todo /\ listed' = listed /\ verdict' = verdict

LEMMA Delivered ==
  ASSUME NEW status, Deliver(status)
  PROVE  UNCHANGED <<began, met>> /\ Serves(status)
<1>1. CASE op = "list" /\ WalkOn(Head(todo), Shown(status))
  BY <1>1 DEF WalkOn, Serves, Listed, Answer, Goto, query
<1>2. CASE op = "cancel" /\ AnswerWith(Head(todo), AfterCancel(status))
  BY <1>2 DEF AnswerWith, Serves, GaveStatus, Answer, query
<1>3. CASE op = "get" /\ AnswerWith(Head(todo), Shown(status))
  BY <1>3 DEF AnswerWith, Serves, GaveStatus, Answer, query
<1>4. CASE op = "probe" /\ Goto("cancel") /\ UNCHANGED <<query, walk>>
  BY <1>4 DEF Serves, Probed, Goto, query, walk
<1>5. CASE /\ status = "unknown" /\ (op = "probe" \/ (op = "get" /\ ~KnowsJob(Head(todo))))
           /\ Answer("notFound") /\ UNCHANGED <<query, walk>>
  BY <1>5 DEF Serves, NotFound, Answer, query, walk
<1> QED BY <1>1, <1>2, <1>3, <1>4, <1>5 DEF Deliver

LEMMA ListedEntries ==
  ASSUME IInv, NEW status, Right(status), Listed(status)
  PROVE  /\ listed' \in Seq([job : Jobs, status : Statuses])
         /\ ToSet(listed') \subseteq
              ToSet(listed) \cup {[job |-> Head(todo), status |-> Shown(status)]}
<1>1. PICK e : e = [job |-> Head(todo), status |-> Shown(status)]
  OBVIOUS
<1>2. e \in [job : Jobs, status : Statuses]
  BY <1>1 DEF Right, Read, Outcomes, Shown, Statuses, Terminal
<1>3. PICK s : s = listed
  OBVIOUS
<1>4. s \in Seq([job : Jobs, status : Statuses])
  BY <1>3 DEF IInv, TypeInv
<1>5. Append(s, e) \in Seq([job : Jobs, status : Statuses]) /\ ToSet(Append(s, e)) = ToSet(s) \cup {e}
  <2>1. PICK Entry : Entry = [job : Jobs, status : Statuses]
    OBVIOUS
  <2>2. s \in Seq(Entry) /\ e \in Entry
    BY <1>2, <1>4, <2>1
  <2>3. Append(s, e) \in Seq(Entry) /\ ToSet(Append(s, e)) = ToSet(s) \cup {e}
    BY <2>2, AppendSet
  <2> QED BY <2>1, <2>3
<1>6. listed' = s \/ listed' = Append(s, e)
  BY <1>1, <1>3 DEF Listed
<1> QED BY <1>1, <1>3, <1>4, <1>5, <1>6

LEMMA ReadSteps ==
  ASSUME IInv, ReadHistory \/ ReadQueue
  PROVE  /\ UNCHANGED <<place, outcome, stopping, up, recent, table, durable, graphs, began, met>>
         /\ pc \in {"history", "queue"} /\ refused \subseteq refused'
         /\ ReadOn \/ \E status : Right(status) /\ Serves(status)
<1>1. /\ UNCHANGED <<place, outcome, stopping, up, recent, table, durable, graphs>>
      /\ pc \in {"history", "queue"} /\ refused \subseteq refused'
  BY DEF ReadHistory, ReadQueue, Refuse, comfy, records
<1>2. CASE /\ pc = "history" /\ Goto("queue") /\ UNCHANGED <<query, walk>>
           /\ place[Head(todo)] # "history" \/ Refuse("history")
  BY <1>1, <1>2 DEF ReadOn, Refuse, Goto, query, walk
<1>3. CASE /\ pc = "history" /\ place[Head(todo)] = "history" /\ Deliver(outcome[Head(todo)])
           /\ UNCHANGED refused
  <2>1. PICK status : status = outcome[Head(todo)]
    OBVIOUS
  <2>2. Deliver(status)
    BY <1>3, <2>1
  <2>3. UNCHANGED <<began, met>> /\ Serves(status)
    BY <2>2, Delivered
  <2>4. Right(status)
    BY <1>1, <1>3, <2>1, <2>3, HistoryRight
  <2> QED BY <1>1, <2>3, <2>4
<1>4. CASE ReadQueue
  <2>1. PICK status : /\ Deliver(status)
                      /\ \/ /\ refused' = refused
                            /\ status = CASE place[Head(todo)] = "pending" -> "queued"
                                          [] place[Head(todo)] = "running" -> "running"
                                          [] OTHER -> "unknown"
                         \/ Refuse("queue") /\ status = "unknown"
    <3>1. PICK answer : answer = CASE place[Head(todo)] = "pending" -> "queued"
                                   [] place[Head(todo)] = "running" -> "running"
                                   [] OTHER -> "unknown"
      OBVIOUS
    <3>2. (Deliver(answer) /\ refused' = refused) \/ (Refuse("queue") /\ Deliver("unknown"))
      BY <1>4, <3>1 DEF ReadQueue
    <3> QED BY <3>1, <3>2
  <2>2. pc = "queue"
    BY <1>4 DEF ReadQueue
  <2>3. UNCHANGED <<began, met>> /\ Serves(status)
    BY <2>1, Delivered
  <2>4. Right(status)
    BY <1>1, <2>1, <2>2, <2>3, QueueRight
  <2> QED BY <1>1, <2>3, <2>4
<1> QED BY <1>2, <1>3, <1>4 DEF ReadHistory

LEMMA ReadIInv == ASSUME IInv, ReadHistory \/ ReadQueue PROVE IInv'
<1>1. /\ UNCHANGED <<place, outcome, stopping, up, recent, table, durable, graphs, began, met>>
      /\ pc \in {"history", "queue"} /\ refused \subseteq refused'
  BY ReadSteps
<1>2. RecordsInv'
  BY <1>1 DEF IInv, RecordsInv
<1>3. \A j, status : WasTrue(j, status) => WasTrue(j, status)'
  BY <1>1 DEF WasTrue, Misread
<1>4. /\ Head(todo) \in Jobs /\ Head(todo) \in ToSet(todo) /\ Tail(todo) \in Seq(Jobs)
      /\ ToSet(Tail(todo)) \subseteq ToSet(todo)
  BY <1>1, HeadTail DEF IInv, TypeInv, Waiting
<1>5. CASE ReadOn
  <2>1. TypeInv' /\ MovedInv'
    BY <1>1, <1>5 DEF ReadOn, IInv, TypeInv, MovedInv, ComfyTypeOK, Waiting
  <2>2. MetInv'
    BY <1>1, <1>5 DEF ReadOn, IInv, MetInv, Recorded, Waiting
  <2>3. \A e \in ToSet(listed') : /\ e.status # "canceling" /\ WasTrue(e.job, e.status)'
                                  /\ began'[e.job] = "gone" => place'[e.job] = "gone"
    BY <1>1, <1>3, <1>5 DEF ReadOn, IInv, ReadInv
  <2>4. ReadInv'
    BY <1>1, <1>4, <1>5, <2>3 DEF ReadOn, IInv, MovedInv, ReadInv
  <2> QED BY <1>2, <2>1, <2>2, <2>4 DEF IInv
<1>6. ASSUME NEW status, Right(status), Serves(status) PROVE IInv'
  <2>1. /\ Shown(status) \in Statuses /\ Shown(status) # "canceling"
        /\ AfterCancel(status) \in Statuses
    BY <1>6 DEF Right, Read, Outcomes, Shown, AfterCancel, Statuses, Terminal
  <2>2. MetInv'
    BY <1>1, <1>6
    DEF Serves, Listed, GaveStatus, Probed, NotFound, IInv, MetInv, Recorded, Waiting
  <2>3. CASE Listed(status)
    <3>2. /\ listed' \in Seq([job : Jobs, status : Statuses])
          /\ ToSet(listed') \subseteq
               ToSet(listed) \cup {[job |-> Head(todo), status |-> Shown(status)]}
      BY <1>6, <2>3, ListedEntries
    <3>3. TypeInv'
      BY <1>1, <1>4, <2>3, <3>2 DEF Listed, IInv, TypeInv, ComfyTypeOK, Waiting
    <3>4. MovedInv'
      BY <1>1, <1>4, <2>3 DEF Listed, IInv, MovedInv
    <3>5. ASSUME NEW e \in ToSet(listed')
          PROVE  /\ e.status # "canceling" /\ WasTrue(e.job, e.status)'
                 /\ began'[e.job] = "gone" => place'[e.job] = "gone"
      <4>1. CASE e \in ToSet(listed)
        BY <1>1, <1>3, <4>1 DEF IInv, ReadInv
      <4>2. CASE e = [job |-> Head(todo), status |-> Shown(status)]
        <5>1. e.job = Head(todo) /\ e.status = Shown(status)
          BY <4>2
        <5>2. WasTrue(e.job, e.status)'
          BY <1>4, <1>6, <5>1 DEF Right
        <5>3. began[Head(todo)] = "gone" => place[Head(todo)] = "gone"
          BY <1>4 DEF IInv, MovedInv
        <5> QED BY <1>1, <2>1, <5>1, <5>2, <5>3
      <4> QED BY <3>2, <4>1, <4>2
    <3>6. ReadInv'
      BY <2>3, <3>5 DEF Listed, ReadInv
    <3> QED BY <1>2, <2>2, <3>3, <3>4, <3>6 DEF IInv
  <2>4. CASE GaveStatus(status)
    <3>1. \A s \in Statuses : <<[job |-> Head(todo), status |-> s]>> \in Seq([job : Jobs, status : Statuses])
      BY <1>4
    <3>2. listed' \in Seq([job : Jobs, status : Statuses])
      BY <2>1, <2>4, <3>1 DEF GaveStatus
    <3>3. TypeInv' /\ MovedInv' /\ ReadInv'
      BY <1>1, <2>4, <3>2 DEF GaveStatus, IInv, TypeInv, MovedInv, ReadInv, ComfyTypeOK, Waiting
    <3> QED BY <1>2, <2>2, <3>3 DEF IInv
  <2>5. CASE Probed \/ NotFound(status)
    <3>1. TypeInv' /\ MovedInv' /\ ReadInv'
      BY <1>1, <2>5
      DEF Probed, NotFound, IInv, TypeInv, MovedInv, ReadInv, ComfyTypeOK, Waiting
    <3> QED BY <1>2, <2>2, <3>1 DEF IInv
  <2> QED BY <1>6, <2>3, <2>4, <2>5 DEF Serves
<1> QED BY <1>5, <1>6, ReadSteps

-----------------------------------------------------------------------------
(* The cancel *)

LEMMA CancelIInv == ASSUME IInv, PostCancel \/ PostCancelLost \/ Unreachable PROVE IInv'
<1>1. CASE Unreachable
  <2>1. /\ UNCHANGED <<place, outcome, stopping, up, recent, table, durable, graphs, op, began, todo>>
        /\ pc' = "done" /\ listed' = <<>>
    BY <1>1 DEF Unreachable, Answer, comfy, records, query
  <2> QED
    BY <2>1 DEF IInv, TypeInv, RecordsInv, MovedInv, MetInv, ReadInv, ComfyTypeOK, Waiting
<1>2. CASE PostCancel \/ PostCancelLost
  <2>1. /\ UNCHANGED <<up, outcome, recent, table, durable, graphs, began, met, todo, listed>>
        /\ pc = "cancel" /\ up
        /\ \/ Cancelled(Head(todo))
           \/ UNCHANGED <<place, stopping>> /\ <<Head(todo), "cancel">> \in refused'
        /\ \/ pc' = "done" /\ op' = op
           \/ pc' = "history" /\ op' = "cancel" /\ verdict' = verdict
    BY <1>2
    DEF PostCancel, PostCancelLost, Cancelled, Answer, Goto, records, query, walk, comfy
  <2>2. Head(todo) \in Jobs /\ listed = <<>>
    BY <2>1, HeadTail DEF IInv, TypeInv, Waiting
  <2>3. /\ place' \in [Jobs -> {"pending", "running", "history", "gone"}] /\ stopping' \subseteq Jobs
        /\ \A j \in Jobs : place'[j] = place[j] \/ (place[j] = "pending" /\ place'[j] = "gone")
        /\ <<Head(todo), "cancel">> \notin refused' =>
             /\ place'[Head(todo)] # "pending"
             /\ place'[Head(todo)] = "running" => Head(todo) \in stopping'
    BY <2>1, <2>2 DEF Cancelled, IInv, TypeInv, ComfyTypeOK
  <2>4. TypeInv'
    BY <2>1, <2>2, <2>3 DEF IInv, TypeInv, ComfyTypeOK, Waiting
  <2>5. RecordsInv' /\ MetInv'
    BY <2>1 DEF IInv, RecordsInv, MetInv, Recorded, Waiting
  <2>6. ToSet(todo) \subseteq Jobs
    BY SetOfSeq DEF IInv, TypeInv
  <2>7. MovedInv'
    BY <2>1, <2>3, <2>6 DEF IInv, MovedInv
  <2>8. ReadInv'
    BY <2>1, <2>2, <2>3, EmptySet DEF ReadInv
  <2> QED BY <2>4, <2>5, <2>7, <2>8 DEF IInv
<1> QED BY <1>1, <1>2

LEMMA StepIInv == IInv /\ [Next]_vars => IInv'
<1> SUFFICES ASSUME IInv, [Next]_vars PROVE IInv'
  OBVIOUS
<1>1. CASE UNCHANGED vars
  BY <1>1 DEF vars, comfy, records, query, walk, IInv, TypeInv, RecordsInv, MovedInv, MetInv,
              ReadInv, ComfyTypeOK, WasTrue, Misread, Recorded
<1>2. CASE Next
  BY <1>2, RequestIInv, RecordsIInv, ReadIInv, CancelIInv, MovesIInv DEF Next
<1> QED BY <1>1, <1>2

LEMMA AlwaysIInv == Spec => []IInv
<1> QED BY InitIInv, StepIInv, PTL DEF Spec

LEMMA DeliverRest == ASSUME RestInv, IInv, ReadHistory \/ ReadQueue PROVE RestInv'
<1>1. /\ UNCHANGED <<up, submitted, graphs, crashes>> /\ pc # "done"
      /\ \/ Goto("queue") /\ UNCHANGED <<query, walk>>
         \/ \E status : Deliver(status)
  BY DEF ReadHistory, ReadQueue, records
<1>a. refused' \subseteq Jobs \X {"history", "queue", "cancel"}
  <2>1. Head(todo) \in Jobs
    BY HeadTail DEF ReadHistory, ReadQueue, IInv, TypeInv, Waiting
  <2> QED BY <2>1 DEF ReadHistory, ReadQueue, Refuse, RestInv
<1>2. CASE Goto("queue") /\ UNCHANGED <<query, walk>>
  BY <1>1, <1>a, <1>2 DEF RestInv, Goto, query, walk
<1>3. ASSUME NEW status, Deliver(status) PROVE RestInv'
  <2>1. UNCHANGED <<limit, wanted, met>> /\ verdict' \in {verdict, "ok", "notFound"}
    BY <1>3 DEF Deliver, WalkOn, AnswerWith, Goto, Answer, query
  <2>2. \/ scanned' = scanned /\ truncated' = truncated
        \/ /\ scanned' = scanned + 1 /\ truncated' \in BOOLEAN
           /\ pc' # "done" => scanned' < MaxScan
    <3>1. CASE op = "list" /\ WalkOn(Head(todo), Shown(status))
      <4>1. scanned' = scanned + 1 /\ scanned' \in Int
        BY <3>1 DEF WalkOn, RestInv
      <4>2. \/ pc' = "done" /\ truncated' \in BOOLEAN
            \/ ~(scanned' >= MaxScan) /\ truncated' = truncated
        BY <3>1 DEF WalkOn, Answer
      <4> QED BY <4>1, <4>2, StatusAssumption DEF StatusAssumption, RestInv
    <3>2. CASE ~(op = "list" /\ WalkOn(Head(todo), Shown(status)))
      BY <1>3, <3>2 DEF Deliver, AnswerWith, walk
    <3> QED BY <3>1, <3>2
  <2> QED BY <1>1, <1>a, <2>1, <2>2, StatusAssumption DEF StatusAssumption, RestInv
<1> QED BY <1>1, <1>2, <1>3

LEMMA StepRest == IInv /\ RestInv /\ [Next]_vars => RestInv'
<1> SUFFICES ASSUME IInv, RestInv, [Next]_vars PROVE RestInv'
  OBVIOUS
<1>1. CASE UNCHANGED vars
  BY <1>1 DEF vars, records, query, walk, RestInv
<1>a. Recorded \subseteq Jobs
  BY SetOfSeq DEF IInv, TypeInv, Recorded
<1>2. ASSUME NEW j \in Jobs, GetJob(j) \/ GetJobWorkflow(j) \/ CancelJob(j) PROVE RestInv'
  BY <1>2, <1>a DEF GetJob, GetJobWorkflow, CancelJob, Arrive, Goto, Answer, records, RestInv
<1>3. ASSUME NEW n \in Limits, NEW f \in Filters, ListJobs(n, f) PROVE RestInv'
  BY <1>3, <1>a DEF ListJobs, Arrive, Goto, Answer, records, RestInv
<1>4. CASE PostCancel \/ PostCancelLost \/ Unreachable
  <2>1. Head(todo) \in Jobs
    BY <1>4, HeadTail DEF PostCancel, PostCancelLost, Unreachable, IInv, TypeInv, Waiting
  <2> QED BY <1>4, <2>1 DEF PostCancel, PostCancelLost, Unreachable, Goto, Answer, records, query, walk, RestInv
<1>5. CASE ComfyMoves
  BY <1>5 DEF ComfyMoves, records, query, walk, RestInv
<1>6. CASE Crash
  <2>1. /\ UNCHANGED <<limit, wanted, met, scanned, truncated, verdict, refused>> /\ up' = FALSE
        /\ pc' # "done" => pc # "done"
        /\ submitted' \subseteq submitted \cup Jobs /\ graphs' = {}
    BY <1>6 DEF Crash, query, walk
  <2>2. crashes' \in 0..MaxCrashes
    BY <1>6, StatusAssumption DEF Crash, StatusAssumption, RestInv
  <2> QED BY <2>1, <2>2 DEF RestInv
<1>7. CASE Restart
  BY <1>7 DEF Restart, query, walk, RestInv
<1>8. ASSUME NEW j \in Jobs, Remember(j) PROVE RestInv'
  BY <1>8 DEF Remember, query, walk, RestInv
<1> QED BY <1>1, <1>2, <1>3, <1>4, <1>5, <1>6, <1>7, <1>8, DeliverRest DEF Next

-----------------------------------------------------------------------------
(* Theorems *)

\* A walk never looks at more than _MAX_JOB_SCAN jobs, a request that waits has a job to
\* look at, and every variable stays in its range.
THEOREM TypeCorrect == Spec => []TypeOK
<1>1. Init => RestInv
  <2>1. 0 \in 0..MaxScan /\ 0 < MaxScan /\ 0 \in 0..MaxCrashes
    BY StatusAssumption DEF StatusAssumption
  <2> QED BY <2>1 DEF Init, RestInv
<1>2. IInv /\ RestInv => TypeOK
  BY DEF IInv, TypeInv, RestInv, TypeOK, Waiting
<1> QED BY <1>1, <1>2, StepRest, AlwaysIInv, PTL DEF Spec

\* What is answered comes from the step that answers.
LEMMA AnsweringSteps ==
  ASSUME IInv, [Next]_vars, verdict = "none", verdict' # "none"
  PROVE  \/ listed' = <<>>
         \/ ReadHistory \/ ReadQueue
<1>1. CASE UNCHANGED vars
  BY <1>1 DEF vars
<1>2. CASE ComfyMoves \/ Crash \/ Restart \/ \E j \in Jobs : Remember(j)
  BY <1>2 DEF ComfyMoves, Crash, Restart, Remember
<1>3. CASE \/ \E j \in Jobs : GetJob(j) \/ GetJobWorkflow(j) \/ CancelJob(j)
           \/ \E n \in Limits, f \in Filters : ListJobs(n, f)
  BY <1>3 DEF GetJob, GetJobWorkflow, CancelJob, ListJobs, Arrive, IInv, TypeInv
<1>4. CASE PostCancel \/ PostCancelLost \/ Unreachable
  BY <1>4 DEF PostCancel, PostCancelLost, Unreachable, walk, IInv, TypeInv, Waiting
<1> QED BY <1>1, <1>2, <1>3, <1>4 DEF Next

\* No answer goes back behind what was so when the request came, and none runs ahead
\* of what has happened, but for the two exceptions of WasTrue: _status_of reads two
\* endpoints, and list_jobs many jobs, each of which may move between the reads, and
\* any of the reads may be answered with an error.
THEOREM ReportsAreTrue == Spec => ReportsWereTrue
<1>1. ASSUME IInv, [Next]_vars, Answered, NEW e \in ToSet(listed') PROVE WasTrue(e.job, e.status)'
  <2>1. verdict = "none" /\ verdict' = "ok"
    BY <1>1 DEF Answered
  <2>2. ReadHistory \/ ReadQueue
    BY <1>1, <2>1, AnsweringSteps, EmptySet
  <2>3. /\ UNCHANGED <<place, outcome, stopping, began>> /\ refused \subseteq refused'
        /\ pc \in {"history", "queue"}
        /\ ReadOn \/ \E status : Right(status) /\ Serves(status)
    BY <1>1, <2>2, ReadSteps
  <2>4. PICK status : Right(status) /\ (Listed(status) \/ GaveStatus(status))
    BY <2>1, <2>3 DEF ReadOn, Serves, Probed, NotFound
  <2>5. CASE Listed(status)
    <3>1. e \in ToSet(listed) \/ e = [job |-> Head(todo), status |-> Shown(status)]
      BY <1>1, <2>4, <2>5, ListedEntries
    <3>2. CASE e \in ToSet(listed)
      <4>1. WasTrue(e.job, e.status)
        BY <1>1, <2>3, <3>2 DEF IInv, ReadInv
      <4> QED BY <2>3, <4>1 DEF WasTrue, Misread
    <3>3. CASE e = [job |-> Head(todo), status |-> Shown(status)]
      BY <2>4, <3>3 DEF Right
    <3> QED BY <3>1, <3>2, <3>3
  <2>6. CASE GaveStatus(status)
    <3>1. \/ op = "cancel" /\ e = [job |-> Head(todo), status |-> AfterCancel(status)]
          \/ e = [job |-> Head(todo), status |-> Shown(status)]
      BY <2>6 DEF GaveStatus, ToSet
    <3>2. PICK j \in Jobs : Head(todo) = j /\ WasTrue(j, Shown(status))'
      BY <2>4 DEF Right
    <3>3. ASSUME op = "cancel" PROVE WasTrue(j, AfterCancel(status))'
      <4>1. CASE status = "running"
        <5>1. /\ j \in stopping \/ <<j, "cancel">> \in refused'
              /\ began[j] \in {"pending", "running"}
          BY <2>4, <3>2, <3>3, <4>1 DEF Right
        <5>2. WasTrue(j, "canceling")'
          BY <2>3, <5>1 DEF WasTrue
        <5> QED BY <4>1, <5>2 DEF AfterCancel
      <4>2. CASE status # "running"
        BY <3>2, <4>2 DEF AfterCancel
      <4> QED BY <4>1, <4>2
    <3> QED BY <3>1, <3>2, <3>3
  <2> QED BY <2>4, <2>5, <2>6
<1>2. IInv /\ [Next]_vars => [Answered => Truthful']_vars
  BY <1>1 DEF Truthful
<1> QED BY <1>2, AlwaysIInv, PTL DEF Spec, ReportsWereTrue

\* The answer to a cancel that ComfyUI took is never that the job waits or just runs,
\* whatever the job does while the cancel is posted, its effect awaited and the status
\* read; that of a cancel it refused may be.
THEOREM CancelsSettle == Spec => CancelSettles
<1>1. ASSUME IInv, [Next]_vars, op = "cancel", Answered, NEW e \in Entries
      PROVE  /\ <<e.job, "cancel">> \notin refused' => e.status \in Terminal \cup {"canceling"}
             /\ (began[e.job] = "history" /\ place[e.job] = "history"
                  /\ <<e.job, "history">> \notin refused') => e.status = outcome[e.job]
  <2>1. verdict = "none" /\ verdict' = "ok" /\ e \in ToSet(listed')
    BY <1>1 DEF Answered, Entries
  <2>2. ReadHistory \/ ReadQueue
    BY <1>1, <2>1, AnsweringSteps, EmptySet
  <2>3. ReadOn \/ \E status : Right(status) /\ Serves(status)
    BY <1>1, <2>2, ReadSteps
  <2>4. PICK status : Right(status) /\ GaveStatus(status)
    BY <1>1, <2>1, <2>3 DEF ReadOn, Serves, Listed, Probed, NotFound
  <2>5. PICK j \in Jobs : Head(todo) = j
    BY <2>4 DEF Right
  <2>6. e = [job |-> j, status |-> AfterCancel(status)]
    BY <1>1, <2>1, <2>4, <2>5 DEF GaveStatus, ToSet
  <2>7. /\ e.job = j /\ e.status = AfterCancel(status) /\ status \in Read
        /\ status = "queued" => <<j, "cancel">> \in refused'
        /\ status = "running" => began[j] \in {"pending", "running"}
        /\ (began[j] = "history" /\ place[j] = "history" /\ <<j, "history">> \notin refused')
             => status = outcome[j]
        /\ place[j] = "history" => outcome[j] \in Outcomes
    BY <1>1, <2>4, <2>5, <2>6 DEF Right, IInv, MovedInv
  <2>8. CASE status = "running"
    BY <2>7, <2>8 DEF AfterCancel
  <2>9. CASE status = "queued"
    BY <2>7, <2>9 DEF AfterCancel, Outcomes
  <2>10. CASE status \in {"unknown"} \cup Outcomes
    <3>1. AfterCancel(status) = Shown(status)
      BY <2>10 DEF AfterCancel, Outcomes
    <3>2. Shown(status) \in Terminal /\ (status \in Outcomes => Shown(status) = status)
      BY <2>10 DEF Outcomes, Shown, Terminal
    <3> QED BY <2>7, <3>1, <3>2
  <2> QED BY <2>7, <2>8, <2>9, <2>10 DEF Read
<1>2. IInv /\ [Next]_vars =>
        [(op = "cancel" /\ Answered) =>
           \A e \in Entries :
             /\ <<e.job, "cancel">> \notin refused'
                  => e.status \in Terminal \cup {"canceling"}
             /\ (began[e.job] = "history" /\ place[e.job] = "history"
                  /\ <<e.job, "history">> \notin refused') => e.status = outcome[e.job]]_vars
  BY <1>1
<1> QED BY <1>2, AlwaysIInv, PTL DEF Spec, CancelSettles

\* What had a record when the request came is not answered with 404, however many
\* records there are and however often the process died: _job_meta and _job_workflow
\* ask the table for what _jobs lacks.  What was recorded while a cancel read its
\* status is answered so only if those reads could not see it.
THEOREM RecordsAreFound == Spec => RecordedIsFound
<1>1. ASSUME IInv, [Next]_vars, verdict = "none", verdict' = "notFound",
             NEW j \in Jobs, todo'[1] = j
      PROVE  j \notin met' /\ (j \in Recorded => op' = "probe" /\ WasTrue(j, "expired")')
  <2>1. CASE ReadHistory \/ ReadQueue
    <3>1. /\ pc \in {"history", "queue"} /\ met' = met
          /\ ReadOn \/ \E status : Right(status) /\ Serves(status)
      BY <1>1, <2>1, ReadSteps
    <3>2. PICK status : Right(status) /\ NotFound(status)
      BY <1>1, <3>1 DEF ReadOn, Serves, Listed, GaveStatus, Probed
    <3>3. Head(todo) = j /\ op' = op
      BY <1>1, <3>1, <3>2, HeadTail DEF NotFound, IInv, TypeInv, Waiting
    <3>4. CASE op = "probe"
      <4>1. met = {}
        BY <1>1, <3>1, <3>4 DEF IInv, MetInv, Waiting
      <4>2. WasTrue(j, Shown(status))' /\ Shown(status) = "expired"
        BY <3>2, <3>3 DEF Right, NotFound, Shown
      <4> QED BY <3>1, <3>3, <3>4, <4>1, <4>2
    <3>5. CASE ~KnowsJob(j)
      <4>1. j \notin Recorded
        BY <1>1, <3>5, EmptySet DEF KnowsJob, Recorded, IInv, RecordsInv
      <4>2. met \subseteq Recorded
        BY <1>1, <3>1 DEF IInv, MetInv, Waiting
      <4> QED BY <3>1, <4>1, <4>2
    <3> QED BY <3>2, <3>3, <3>4, <3>5 DEF NotFound
  <2>2. ASSUME NEW k \in Jobs, GetJobWorkflow(k)
        PROVE  j \notin met' /\ (j \in Recorded => op' = "probe" /\ WasTrue(j, "expired")')
    <3>1. ~HasWorkflow(j) /\ met' = ToSet(todo') \cap Recorded
      BY <1>1, <2>2 DEF GetJobWorkflow, Arrive, Answer
    <3>2. j \notin Recorded
      BY <1>1, <3>1, EmptySet DEF HasWorkflow, Recorded, IInv, RecordsInv, TypeInv
    <3> QED BY <3>1, <3>2
  <2> QED
    BY <1>1, <2>1, <2>2
    DEF Next, vars, GetJob, CancelJob, ListJobs, Goto, Answer, Unreachable, PostCancel,
        PostCancelLost, ComfyMoves, Crash, Restart, Remember
<1>2. IInv /\ [Next]_vars =>
        [(verdict = "none" /\ verdict' = "notFound") =>
           \A j \in Jobs : todo'[1] = j =>
             /\ j \notin met'
             /\ j \in Recorded => op' = "probe" /\ WasTrue(j, "expired")']_vars
  BY <1>1
<1> QED BY <1>2, AlwaysIInv, PTL DEF Spec, RecordedIsFound

-----------------------------------------------------------------------------
(* The walk of a list *)

Entry == [job : Jobs, status : Statuses]

\* One of the error answers in R hides where the job is.
HiddenBy(j, R) == \/ place[j] = "history" /\ <<j, "history">> \in R
                  \/ place[j] \in {"pending", "running"} /\ <<j, "queue">> \in R

\* The job has not moved since the request came, the list asks for it, and could see it.
Matches(j, R) == began[j] = place[j] /\ Standing(j) \in wanted /\ ~HiddenBy(j, R)

\* A list that has still t to look at, of the n jobs there were, and has listed l, after
\* the error answers R: what it has passed is the newest part of the snapshot; it has
\* listed every match of it, nothing else, newest first.
Covers(t, n, l, R) ==
  /\ Len(t) <= n /\ n <= Len(recent)
  /\ \A k \in 1..Len(t) : t[k] = recent[Len(t) + 1 - k]
  /\ \A i \in 1..n : began[recent[i]] = "gone" => place[recent[i]] = "gone"
  /\ \A i \in (Len(t) + 1)..n : ~Matches(recent[i], R) \/ \E k \in DOMAIN l : l[k].job = recent[i]
  /\ \A k \in DOMAIN l : \E i \in (Len(t) + 1)..n : l[k].job = recent[i]
  /\ \A k, m \in DOMAIN l : \A i, h \in 1..n :
       (k < m /\ l[k].job = recent[i] /\ l[m].job = recent[h]) => i > h

Walking == op = "list" /\ pc \in {"history", "queue"}

\* No job is recorded twice, and a list under way covers what it has passed.
WalkInv ==
  /\ IsInjective(recent) /\ IsInjective(table) /\ Recorded \subseteq submitted
  /\ pc = "new" => scanned = 0
  /\ ~up => pc \in {"new", "done"}
  /\ Walking => Covers(todo, scanned + Len(todo), listed, refused) /\ Len(listed) < limit

LEMMA TailFacts ==
  ASSUME NEW S, NEW s \in Seq(S), s # <<>>
  PROVE  /\ Len(s) \in Nat \ {0} /\ Len(Tail(s)) = Len(s) - 1 /\ Tail(s) \in Seq(S)
         /\ \A k \in 1..(Len(s) - 1) : Tail(s)[k] = s[k + 1]
  OBVIOUS

LEMMA AppendFacts ==
  ASSUME NEW S, NEW s \in Seq(S), NEW e \in S
  PROVE  /\ Append(s, e) \in Seq(S) /\ Len(Append(s, e)) = Len(s) + 1 /\ Len(s) \in Nat
         /\ DOMAIN Append(s, e) = 1..(Len(s) + 1) /\ DOMAIN s = 1..Len(s)
         /\ \A i \in 1..Len(s) : Append(s, e)[i] = s[i]
         /\ Append(s, e)[Len(s) + 1] = e
  OBVIOUS

LEMMA AppendDistinct ==
  ASSUME NEW S, NEW s \in Seq(S), NEW e \in S, IsInjective(s), e \notin ToSet(s)
  PROVE  IsInjective(Append(s, e))
<1>1. \A i \in 1..Len(s) : s[i] # e
  BY DEF ToSet
<1> QED BY <1>1, AppendFacts DEF IsInjective

LEMMA NewestDistinct ==
  ASSUME NEW S, NEW s \in Seq(S), NEW n \in Nat, IsInjective(s) PROVE IsInjective(Newest(s, n))
<1>1. CASE Len(s) <= n
  BY <1>1 DEF Newest
<1>2. CASE ~(Len(s) <= n)
  <2>1. Newest(s, n) = SubSeq(s, Len(s) - n + 1, Len(s)) /\ Len(s) \in Nat /\ Len(s) > n
    BY <1>2 DEF Newest
  <2>2. /\ DOMAIN Newest(s, n) = 1..n
        /\ \A i \in 1..n : Newest(s, n)[i] = s[Len(s) - n + i]
    BY <2>1, SubSeqProperties
  <2>3. \A i \in 1..n : Len(s) - n + i \in DOMAIN s
    BY <2>1
  <2>4. ASSUME NEW a \in 1..n, NEW b \in 1..n, Newest(s, n)[a] = Newest(s, n)[b] PROVE a = b
    <3>1. Len(s) - n + a = Len(s) - n + b
      BY <2>2, <2>3, <2>4 DEF IsInjective
    <3> QED BY <2>1, <3>1
  <2> QED BY <2>2, <2>4 DEF IsInjective
<1> QED BY <1>1, <1>2

\* The next job of the walk, listed if it matches.
LEMMA CoversOn ==
  ASSUME recent \in Seq(Jobs), IsInjective(recent), NEW t \in Seq(Jobs), t # <<>>, NEW n \in Nat,
         NEW l \in Seq(Entry), NEW R, Covers(t, n, l, R), NEW e \in Entry, e.job = Head(t),
         NEW m, m = l \/ m = Append(l, e), Matches(Head(t), R) => m = Append(l, e)
  PROVE  Covers(Tail(t), n, m, R)
<1>1. PICK L \in Nat \ {0} : L = Len(t)
  BY TailFacts
<1>2. PICK u \in Seq(Jobs) : u = Tail(t)
  BY TailFacts
<1>3. Len(u) = L - 1 /\ \A k \in 1..(L - 1) : u[k] = t[k + 1]
  BY <1>1, <1>2, TailFacts
<1>4. /\ L <= n /\ n <= Len(recent) /\ Len(recent) \in Nat /\ DOMAIN recent = 1..Len(recent)
      /\ \A k \in 1..L : t[k] = recent[L + 1 - k]
  BY <1>1 DEF Covers
<1>a. \A a, b \in 1..n : recent[a] = recent[b] => a = b
  <2>1. 1..n \subseteq DOMAIN recent
    BY <1>4
  <2> QED BY <2>1 DEF IsInjective
<1>5. e.job = recent[L] /\ Head(t) = recent[L]
  <2>1. Head(t) = t[1] /\ t[1] = recent[L + 1 - 1] /\ L + 1 - 1 = L
    BY <1>1, <1>4
  <2> QED BY <2>1
<1>6. /\ m \in Seq(Entry) /\ DOMAIN l \subseteq DOMAIN m /\ \A k \in DOMAIN l : m[k] = l[k]
      /\ DOMAIN l = 1..Len(l) /\ Len(l) \in Nat
      /\ \A k \in DOMAIN m : k \in DOMAIN l \/ (k = Len(l) + 1 /\ m[k] = e)
      /\ m = Append(l, e) => Len(l) + 1 \in DOMAIN m /\ m[Len(l) + 1] = e
  <2>1. DOMAIN l = 1..Len(l) /\ Len(l) \in Nat /\ Len(l) + 1 \notin DOMAIN l
    OBVIOUS
  <2>2. PICK a : a = Append(l, e)
    OBVIOUS
  <2>3. /\ a \in Seq(Entry) /\ DOMAIN a = 1..(Len(l) + 1) /\ a[Len(l) + 1] = e
        /\ \A i \in 1..Len(l) : a[i] = l[i]
    BY <2>2, AppendFacts
  <2>4. CASE m = l /\ m # a
    BY <2>1, <2>2, <2>4
  <2>5. CASE m = a
    BY <2>1, <2>2, <2>3, <2>5
  <2> QED BY <2>2, <2>4, <2>5
<1>7. \A k \in 1..Len(u) : u[k] = recent[Len(u) + 1 - k]
  <2>1. SUFFICES ASSUME NEW k \in 1..(L - 1) PROVE u[k] = recent[L - k]
    BY <1>1, <1>3
  <2>2. u[k] = t[k + 1] /\ k + 1 \in 1..L /\ L + 1 - (k + 1) = L - k
    BY <1>1, <1>3
  <2> QED BY <1>4, <2>2
<1>8. \A i \in 1..n : began[recent[i]] = "gone" => place[recent[i]] = "gone"
  BY DEF Covers
<1>9. \A i \in L..n : ~Matches(recent[i], R) \/ \E k \in DOMAIN m : m[k].job = recent[i]
  <2>1. ASSUME NEW i \in (L + 1)..n, Matches(recent[i], R) PROVE \E k \in DOMAIN m : m[k].job = recent[i]
    <3>1. PICK k \in DOMAIN l : l[k].job = recent[i]
      BY <1>1, <2>1 DEF Covers
    <3> QED BY <1>6, <3>1
  <2>2. Matches(recent[L], R) => \E k \in DOMAIN m : m[k].job = recent[L]
    BY <1>5, <1>6
  <2> QED BY <1>1, <1>4, <2>1, <2>2
<1>10. \A k \in DOMAIN m : \E i \in L..n : m[k].job = recent[i]
  <2>1. ASSUME NEW k \in DOMAIN l PROVE \E i \in L..n : m[k].job = recent[i]
    <3>1. PICK i \in (L + 1)..n : l[k].job = recent[i]
      BY <1>1 DEF Covers
    <3> QED BY <1>1, <1>6, <3>1
  <2>2. L \in L..n
    BY <1>1, <1>4
  <2> QED BY <1>5, <1>6, <2>1, <2>2
<1>11. ASSUME NEW k \in DOMAIN m, NEW o \in DOMAIN m, NEW i \in 1..n, NEW h \in 1..n,
              k < o, m[k].job = recent[i], m[o].job = recent[h]
       PROVE  i > h
  <2>1. CASE o \in DOMAIN l
    <3>1. k \in DOMAIN l
      BY <1>6, <1>11, <2>1
    <3> QED BY <1>6, <1>11, <2>1, <3>1 DEF Covers
  <2>2. CASE o = Len(l) + 1 /\ m[o] = e
    <3>1. k \in DOMAIN l /\ m[k] = l[k]
      BY <1>6, <1>11, <2>2
    <3>2. PICK a \in (L + 1)..n : l[k].job = recent[a]
      BY <1>1, <3>1 DEF Covers
    <3>3. i = a
      BY <1>1, <1>a, <1>11, <3>1, <3>2
    <3>4. h = L
      BY <1>1, <1>4, <1>a, <1>5, <1>11, <2>2
    <3> QED BY <1>1, <3>2, <3>3, <3>4
  <2> QED BY <1>6, <2>1, <2>2
<1>12. Len(u) + 1 = L /\ Len(u) <= n
  BY <1>1, <1>3, <1>4
<1>13. Covers(u, n, m, R)
  BY <1>4, <1>7, <1>8, <1>9, <1>10, <1>11, <1>12 DEF Covers
<1> QED BY <1>2, <1>13

\* More error answers leave fewer matches.
LEMMA CoversMore ==
  ASSUME NEW t, NEW n, NEW l, NEW R, NEW Q, R \subseteq Q, Covers(t, n, l, R)
  PROVE  Covers(t, n, l, Q)
<1>1. \A j : Matches(j, Q) => Matches(j, R)
  BY DEF Matches, HiddenBy
<1> QED BY <1>1 DEF Covers

\* What the jobs do meanwhile makes no match of a job that was none, and no record of
\* a new job changes the snapshot.
Later ==
  \A j \in Jobs : /\ place[j] = "gone" => place'[j] = "gone"
                  /\ place[j] = "history" => place'[j] \in {"history", "gone"}
                  /\ place[j] = "running" => place'[j] # "pending"
                  /\ outcome'[j] # outcome[j] => place[j] = "running"

LEMMA CoversKept ==
  ASSUME IInv, Later, UNCHANGED <<began, wanted>>, recent' \in Seq(Jobs),
         Len(recent) <= Len(recent'), \A i \in 1..Len(recent) : recent'[i] = recent[i],
         NEW t \in Seq(Jobs), NEW n \in Nat, NEW l \in Seq(Entry), NEW R, Covers(t, n, l, R)
  PROVE  Covers(t, n, l, R)'
<1>1. /\ Len(t) <= n /\ n <= Len(recent) /\ Len(recent) \in Nat /\ Len(recent') \in Nat
      /\ Len(t) \in Nat
      /\ \A i \in 1..n : recent[i] \in Jobs /\ recent'[i] = recent[i]
  <2>1. recent \in Seq(Jobs) /\ Len(recent) \in Nat /\ Len(recent') \in Nat /\ Len(t) \in Nat
    BY DEF IInv, TypeInv
  <2>2. Len(t) <= n /\ n <= Len(recent)
    BY DEF Covers
  <2>3. 1..n \subseteq 1..Len(recent)
    BY <2>1, <2>2
  <2> QED BY <2>1, <2>2, <2>3
<1>2. ASSUME NEW j \in Jobs, began[j] = "gone" => place[j] = "gone"
      PROVE  /\ began'[j] = "gone" => place'[j] = "gone"
             /\ Matches(j, R)' => Matches(j, R)
  <2>1. /\ began[j] \in Places /\ place[j] \in Places
        /\ began[j] = "running" => place[j] # "pending"
        /\ began[j] = "history" => place[j] \in {"history", "gone"}
    BY DEF IInv, TypeInv, MovedInv, ComfyTypeOK, Places
  <2>2. began'[j] = "gone" => place'[j] = "gone"
    BY <1>2 DEF Later
  <2>3. ASSUME began[j] = place'[j]
        PROVE  began[j] = place[j] /\ (place[j] = "history" => outcome'[j] = outcome[j])
    <3>1. CASE place[j] = "pending"
      BY <1>2, <2>1, <2>3, <3>1 DEF Later, Places
    <3>2. CASE place[j] = "running"
      BY <1>2, <2>1, <2>3, <3>2 DEF Later, Places
    <3>3. CASE place[j] = "history"
      BY <1>2, <2>1, <2>3, <3>3 DEF Later, Places
    <3>4. CASE place[j] = "gone"
      BY <1>2, <2>1, <2>3, <3>4 DEF Later, Places
    <3> QED BY <2>1, <3>1, <3>2, <3>3, <3>4 DEF Places
  <2>4. ASSUME began[j] = place'[j] PROVE Standing(j)' = Standing(j)
    <3>1. place'[j] = place[j] /\ (place[j] = "history" => outcome'[j] = outcome[j])
      BY <2>3, <2>4
    <3>2. CASE place[j] = "history"
      BY <3>1, <3>2 DEF Standing
    <3>3. CASE place[j] # "history"
      BY <2>1, <3>1, <3>3 DEF Standing, Places
    <3> QED BY <3>2, <3>3
  <2>6. ASSUME began[j] = place'[j] PROVE HiddenBy(j, R) => HiddenBy(j, R)'
    <3>1. place'[j] = place[j]
      BY <2>3, <2>6
    <3> QED BY <3>1 DEF HiddenBy
  <2>5. Matches(j, R)' => Matches(j, R)
    BY <2>3, <2>6, <2>4 DEF Matches
  <2> QED BY <2>2, <2>5
<1>3. \A i \in 1..n : /\ began'[recent'[i]] = "gone" => place'[recent'[i]] = "gone"
                      /\ Matches(recent[i], R)' => Matches(recent[i], R)
  BY <1>1, <1>2 DEF Covers
<1>4. /\ (Len(t) <= n)' /\ (n <= Len(recent))'
      /\ \A k \in 1..Len(t) : t[k] = recent'[Len(t) + 1 - k]
  <2>1. ASSUME NEW k \in 1..Len(t) PROVE t[k] = recent'[Len(t) + 1 - k]
    <3>1. Len(t) + 1 - k \in 1..n
      BY <1>1
    <3> QED BY <1>1, <3>1 DEF Covers
  <2> QED BY <1>1, <2>1
<1>5. \A i \in (Len(t) + 1)..n : ~Matches(recent[i], R)' \/ \E k \in DOMAIN l : l[k].job = recent'[i]
  <2>1. ASSUME NEW i \in (Len(t) + 1)..n, Matches(recent[i], R)'
        PROVE  \E k \in DOMAIN l : l[k].job = recent'[i]
    <3>1. i \in 1..n
      BY <1>1
    <3>2. recent'[i] = recent[i] /\ Matches(recent[i], R)
      BY <1>1, <1>3, <2>1, <3>1
    <3> QED BY <2>1, <3>2 DEF Covers
  <2> QED BY <2>1
<1>6. /\ \A k \in DOMAIN l : \E i \in (Len(t) + 1)..n : l[k].job = recent'[i]
      /\ \A k, m \in DOMAIN l : \A i, h \in 1..n :
           (k < m /\ l[k].job = recent'[i] /\ l[m].job = recent'[h]) => i > h
  <2>1. (Len(t) + 1)..n \subseteq 1..n
    BY <1>1
  <2> QED BY <1>1, <2>1 DEF Covers
<1> QED BY <1>1, <1>3, <1>4, <1>5, <1>6 DEF Covers

LEMMA EntryOf ==
  ASSUME NEW j \in Jobs, NEW status \in Statuses
  PROVE  [job |-> j, status |-> status] \in Entry /\ [job |-> j, status |-> status].job = j
  BY DEF Entry

\* How a status comes to be read.
WasRead(status) ==
  \/ /\ pc = "history" /\ place[Head(todo)] = "history" /\ status = outcome[Head(todo)]
     /\ refused' = refused
  \/ /\ pc = "queue" /\ refused' = refused
     /\ status = CASE place[Head(todo)] = "pending" -> "queued"
                   [] place[Head(todo)] = "running" -> "running"
                   [] OTHER -> "unknown"
  \/ pc = "queue" /\ Refuse("queue") /\ status = "unknown"

\* It is the one the job stands at, if the job has not moved and could be seen.
LEMMA ReadStanding ==
  ASSUME IInv, pc \in {"history", "queue"}, NEW status, WasRead(status)
  PROVE  /\ Head(todo) \in Jobs /\ Shown(status) \in Statuses /\ refused \subseteq refused'
         /\ (began[Head(todo)] = place[Head(todo)] /\ ~HiddenBy(Head(todo), refused'))
              => Shown(status) = Standing(Head(todo))
<1>1. PICK j \in Jobs : Head(todo) = j
  BY HeadTail DEF IInv, TypeInv, Waiting
<1>2. /\ place[j] \in Places /\ refused \subseteq refused'
      /\ place[j] = "history" => outcome[j] \in Outcomes
      /\ (pc = "queue" /\ <<j, "history">> \notin refused) =>
           (began[j] = "history" => place[j] = "gone")
  BY <1>1 DEF IInv, TypeInv, MovedInv, ReadInv, ComfyTypeOK, Places, WasRead, Refuse
<1>3. \/ place[j] = "history" /\ status = outcome[j]
      \/ place[j] = "pending" /\ status = "queued"
      \/ place[j] = "running" /\ status = "running"
      \/ /\ status = "unknown" /\ pc = "queue"
         /\ place[j] \in {"history", "gone"} \/ <<j, "queue">> \in refused'
  BY <1>1, <1>2 DEF WasRead, Refuse, Places
<1>4. CASE place[j] = "history" /\ status = outcome[j]
  BY <1>1, <1>2, <1>4 DEF Shown, Standing, Statuses, Terminal, Outcomes
<1>5. CASE place[j] = "pending" /\ status = "queued"
  BY <1>1, <1>2, <1>5 DEF Shown, Standing, Statuses, Terminal
<1>6. CASE place[j] = "running" /\ status = "running"
  BY <1>1, <1>2, <1>6 DEF Shown, Standing, Statuses, Terminal
<1>7. CASE /\ status = "unknown" /\ pc = "queue"
           /\ place[j] \in {"history", "gone"} \/ <<j, "queue">> \in refused'
  <2>1. Shown(status) = "expired" /\ Shown(status) \in Statuses
    BY <1>7 DEF Shown, Statuses, Terminal
  <2>2. ASSUME began[j] = place[j], ~HiddenBy(j, refused') PROVE place[j] = "gone"
    BY <1>2, <1>7, <2>2 DEF HiddenBy, Places
  <2>3. place[j] = "gone" => Standing(j) = "expired"
    BY DEF Standing
  <2> QED BY <1>1, <1>2, <2>1, <2>2, <2>3
<1> QED BY <1>3, <1>4, <1>5, <1>6, <1>7

\* One turn of the loop of list_jobs.
LEMMA WalkTurn ==
  ASSUME IInv, RestInv, WalkInv, op = "list", pc \in {"history", "queue"}, NEW status,
         Head(todo) \in Jobs, Shown(status) \in Statuses,
         (began[Head(todo)] = place[Head(todo)] /\ ~HiddenBy(Head(todo), refused'))
           => Shown(status) = Standing(Head(todo)),
         refused \subseteq refused', WalkOn(Head(todo), Shown(status))
  PROVE  /\ op' = op /\ todo' = Tail(todo) /\ scanned' = scanned + 1
         /\ UNCHANGED <<began, wanted, limit>>
         /\ \E m \in Seq(Entry) :
              /\ listed' = m /\ Len(m) <= limit
              /\ Covers(Tail(todo), scanned + Len(todo), m, refused')
              /\ \/ /\ pc' = "done" /\ verdict' = "ok"
                    /\ truncated' = (Len(m) < limit /\ todo' # <<>>)
                 \/ pc' = "history" /\ verdict' = verdict /\ Len(m) < limit /\ up
<1>1. PICK e : e = [job |-> Head(todo), status |-> Shown(status)]
  OBVIOUS
<1>2. e \in Entry /\ e.job = Head(todo)
  BY <1>1, EntryOf
<1>3. PICK l : l = listed
  OBVIOUS
<1>4. l \in Seq(Entry) /\ Len(l) \in Nat /\ Len(l) < limit /\ limit \in Nat /\ scanned \in Nat
  BY <1>3, StatusAssumption
  DEF IInv, TypeInv, RestInv, WalkInv, Walking, Entry, StatusAssumption
<1>5. PICK m : m = IF Shown(status) \in wanted THEN Append(l, e) ELSE l
  OBVIOUS
<1>6. m \in Seq(Entry) /\ Len(m) \in Nat /\ Len(m) <= limit
  BY <1>2, <1>4, <1>5, AppendFacts
<1>7. Covers(Tail(todo), scanned + Len(todo), m, refused')
  <2>1. PICK t : t = todo
    OBVIOUS
  <2>2. t \in Seq(Jobs) /\ t # <<>> /\ Len(t) \in Nat /\ recent \in Seq(Jobs)
    BY <2>1 DEF IInv, TypeInv, Waiting
  <2>3. PICK n \in Nat : n = scanned + Len(t)
    BY <1>4, <2>2
  <2>a. PICK R : R = refused'
    OBVIOUS
  <2>4. Covers(t, n, l, R) /\ IsInjective(recent)
    <3>1. Covers(t, n, l, refused) /\ IsInjective(recent)
      BY <1>3, <2>1, <2>3 DEF WalkInv, Walking
    <3> QED BY <2>a, <3>1, CoversMore
  <2>5. Matches(Head(t), R) => m = Append(l, e)
    BY <1>5, <2>1, <2>a DEF Matches
  <2>6. Covers(Tail(t), n, m, R)
    BY <1>2, <1>4, <1>5, <2>1, <2>2, <2>4, <2>5, CoversOn
  <2> QED BY <2>1, <2>3, <2>6, <2>a
<1>8. /\ listed' = m /\ todo' = Tail(todo) /\ scanned' = scanned + 1
      /\ IF Len(m) >= limit \/ scanned' >= MaxScan \/ todo' = <<>>
         THEN Answer("ok") /\ truncated' = (Len(m) < limit /\ todo' # <<>>)
         ELSE Goto("history") /\ UNCHANGED truncated
      /\ UNCHANGED query
  BY <1>1, <1>3, <1>5 DEF WalkOn
<1>9. \/ /\ pc' = "done" /\ verdict' = "ok"
         /\ truncated' = (Len(m) < limit /\ todo' # <<>>)
      \/ pc' = "history" /\ verdict' = verdict /\ Len(m) < limit /\ up
  BY <1>4, <1>6, <1>8 DEF Answer, Goto
<1> QED BY <1>6, <1>7, <1>8, <1>9 DEF query

\* A read of a list: on to the second endpoint, or a turn of the loop.
LEMMA ListReads ==
  ASSUME IInv, RestInv, WalkInv, op = "list", ReadHistory \/ ReadQueue
  PROVE  /\ UNCHANGED <<place, outcome, up, recent, table, submitted>>
         /\ refused \subseteq refused'
         /\ pc \in {"history", "queue"} /\ op' = op /\ UNCHANGED <<began, wanted, limit>>
         /\ \/ UNCHANGED <<todo, scanned, listed, verdict>> /\ pc' = "queue"
            \/ /\ todo' = Tail(todo) /\ scanned' = scanned + 1
               /\ \E m \in Seq(Entry) :
                    /\ listed' = m /\ Len(m) <= limit
                    /\ Covers(Tail(todo), scanned + Len(todo), m, refused')
                    /\ \/ /\ pc' = "done" /\ verdict' = "ok"
                          /\ truncated' = (Len(m) < limit /\ todo' # <<>>)
                       \/ pc' = "history" /\ verdict' = verdict /\ Len(m) < limit /\ up
<1>1. /\ UNCHANGED <<place, outcome, up, recent, table, submitted>> /\ pc \in {"history", "queue"}
      /\ refused \subseteq refused'
  BY DEF ReadHistory, ReadQueue, Refuse, comfy, records
<1>2. CASE Goto("queue") /\ UNCHANGED <<query, walk>>
  BY <1>1, <1>2 DEF Goto, query, walk
<1>3. ASSUME NEW status, Deliver(status), WasRead(status)
      PROVE  /\ op' = op /\ UNCHANGED <<began, wanted, limit>>
             /\ todo' = Tail(todo) /\ scanned' = scanned + 1
             /\ \E m \in Seq(Entry) :
                  /\ listed' = m /\ Len(m) <= limit
                  /\ Covers(Tail(todo), scanned + Len(todo), m, refused')
                  /\ \/ /\ pc' = "done" /\ verdict' = "ok"
                        /\ truncated' = (Len(m) < limit /\ todo' # <<>>)
                     \/ pc' = "history" /\ verdict' = verdict /\ Len(m) < limit /\ up
  <2>1. /\ Head(todo) \in Jobs /\ Shown(status) \in Statuses
        /\ (began[Head(todo)] = place[Head(todo)] /\ ~HiddenBy(Head(todo), refused'))
             => Shown(status) = Standing(Head(todo))
    BY <1>1, <1>3, ReadStanding
  <2>2. WalkOn(Head(todo), Shown(status))
    BY <1>3 DEF Deliver
  <2> QED BY <1>1, <2>1, <2>2, WalkTurn
<1>4. ASSUME ReadHistory, ~(Goto("queue") /\ UNCHANGED <<query, walk>>)
      PROVE  \E status : Deliver(status) /\ WasRead(status)
  BY <1>4 DEF ReadHistory, WasRead
<1>5. ASSUME ReadQueue PROVE \E status : Deliver(status) /\ WasRead(status)
  <2>1. PICK answer : answer = CASE place[Head(todo)] = "pending" -> "queued"
                                 [] place[Head(todo)] = "running" -> "running"
                                 [] OTHER -> "unknown"
    OBVIOUS
  <2>2. /\ pc = "queue"
        /\ (Deliver(answer) /\ refused' = refused) \/ (Refuse("queue") /\ Deliver("unknown"))
    BY <1>5, <2>1 DEF ReadQueue
  <2> QED BY <2>1, <2>2 DEF WasRead
<1> QED BY <1>1, <1>2, <1>3, <1>4, <1>5

\* A step that leaves a list under way where it is.
LEMMA WalkKept ==
  ASSUME IInv, RestInv, WalkInv,
         recent' \in Seq(Jobs), IsInjective(recent'), IsInjective(table'),
         Recorded' \subseteq submitted',
         pc' = "new" => scanned' = 0, ~up' => pc' \in {"new", "done"},
         Walking' => /\ Walking /\ Later
                     /\ UNCHANGED <<began, wanted, limit, todo, scanned, listed, refused>>
                     /\ Len(recent) <= Len(recent')
                     /\ \A i \in 1..Len(recent) : recent'[i] = recent[i]
  PROVE  WalkInv'
<1>1. ASSUME Walking' PROVE Covers(todo, scanned + Len(todo), listed, refused)' /\ (Len(listed) < limit)'
  <2>1. PICK t, n, l, R : t = todo /\ n = scanned + Len(todo) /\ l = listed /\ R = refused
    OBVIOUS
  <2>2. t \in Seq(Jobs) /\ n \in Nat /\ l \in Seq(Entry)
    BY <2>1, StatusAssumption DEF IInv, TypeInv, RestInv, Entry, StatusAssumption
  <2>3. Covers(t, n, l, R) /\ Len(l) < limit
    BY <1>1, <2>1 DEF WalkInv
  <2>4. Covers(t, n, l, R)'
    BY <1>1, <2>2, <2>3, CoversKept
  <2>5. t = todo' /\ n = scanned' + Len(todo') /\ l = listed' /\ R = refused' /\ limit' = limit
    BY <1>1, <2>1
  <2> QED BY <2>3, <2>4, <2>5
<1> QED BY <1>1 DEF WalkInv

LEMMA EmptyDistinct == IsInjective(<<>>)
BY DEF IsInjective

\* A list begins with the whole snapshot before it.
LEMMA WalkBegins ==
  ASSUME IInv, RestInv, WalkInv, NEW n \in Limits, NEW f \in Filters, ListJobs(n, f)
  PROVE  WalkInv'
<1>1. /\ UNCHANGED <<place, outcome, up, recent, table, submitted, scanned, listed>>
      /\ up /\ pc = "new" /\ op' = "list" /\ todo' = Reverse(recent) /\ limit' = n
      /\ began' = [j \in Jobs |-> IF j \in ToSet(todo') THEN place[j] ELSE "gone"]
      /\ pc' \in {"history", "done"}
  BY DEF ListJobs, Arrive, NewestFirst, Goto, Answer, comfy, records
<1>2. scanned = 0 /\ listed = <<>> /\ recent \in Seq(Jobs) /\ n \in Nat \ {0}
  BY <1>1, StatusAssumption DEF WalkInv, IInv, TypeInv, StatusAssumption
<1>3. PICK t : t = todo'
  OBVIOUS
<1>4. /\ t \in Seq(Jobs) /\ Len(t) = Len(recent) /\ Len(t) \in Nat
      /\ \A k \in 1..Len(t) : t[k] = recent[Len(t) + 1 - k]
  <2>1. \A k \in 1..Len(recent) : (Len(recent) - k) + 1 = Len(recent) + 1 - k
    BY <1>2
  <2> QED BY <1>1, <1>2, <1>3, <2>1, ReverseSeq DEF Reverse
<1>5. \A i \in 1..Len(recent) : recent[i] \in ToSet(t) /\ recent[i] \in Jobs
  <2>1. ASSUME NEW i \in 1..Len(recent) PROVE recent[i] \in ToSet(t)
    <3>1. PICK k \in 1..Len(t) : k = Len(t) + 1 - i
      BY <1>4
    <3>2. Len(t) + 1 - k = i
      BY <1>4, <3>1
    <3>3. t[k] = recent[Len(t) + 1 - k]
      BY <1>4
    <3>4. k \in DOMAIN t
      BY <1>4, LenProperties
    <3> QED BY <3>2, <3>3, <3>4 DEF ToSet
  <2> QED BY <1>2, <2>1
<1>6. \A i \in 1..Len(recent) : began'[recent[i]] = place[recent[i]]
  BY <1>1, <1>3, <1>5
<1>7. scanned' + Len(todo') = Len(recent) /\ listed' = <<>> /\ recent' = recent /\ place' = place
  BY <1>1, <1>2, <1>3, <1>4
<1>8. Covers(todo, scanned + Len(todo), listed, refused)'
  <2>1. Len(todo') = Len(recent) /\ \A k \in 1..Len(recent) : todo'[k] = recent[Len(recent) + 1 - k]
    BY <1>3, <1>4
  <2>2. ASSUME NEW i \in 1..Len(recent) PROVE began'[recent'[i]] = "gone" => place'[recent'[i]] = "gone"
    BY <1>6, <1>7
  <2>3. (Len(recent) + 1)..Len(recent) = {} /\ DOMAIN listed' = {}
    BY <1>2, <1>7
  <2> QED BY <1>2, <1>7, <2>1, <2>2, <2>3 DEF Covers
<1>9. (Len(listed) < limit)'
  BY <1>1, <1>2
<1> QED BY <1>1, <1>2, <1>8, <1>9 DEF WalkInv, Recorded

LEMMA WalkReads == ASSUME IInv, RestInv, WalkInv, ReadHistory \/ ReadQueue PROVE WalkInv'
<1>1. /\ UNCHANGED <<place, outcome, up, recent, table, submitted>> /\ up /\ pc' # "new"
      /\ op' \in {op, "cancel", "get", "probe"}
  BY DEF ReadHistory, ReadQueue, Deliver, WalkOn, AnswerWith, Goto, Answer, comfy, records, query
<1>2. /\ recent \in Seq(Jobs) /\ IsInjective(recent) /\ IsInjective(table) /\ Recorded \subseteq submitted
      /\ Recorded' = Recorded
  BY <1>1 DEF IInv, TypeInv, WalkInv, Recorded
<1>3. CASE op # "list"
  <2>1. ~Walking'
    BY <1>1, <1>3, ReadSteps DEF ReadOn, Listed, GaveStatus, Probed, NotFound, Walking
  <2> QED BY <1>1, <1>2, <2>1 DEF WalkInv
<1>4. CASE op = "list" /\ UNCHANGED <<todo, scanned, listed>>
  <2>1. UNCHANGED <<began, wanted, limit>> /\ op' = op /\ refused \subseteq refused'
        /\ pc \in {"history", "queue"}
    BY <1>4, ListReads
  <2>2. PICK t, n, l, R : t = todo /\ n = scanned + Len(todo) /\ l = listed /\ R = refused'
    OBVIOUS
  <2>3. t \in Seq(Jobs) /\ n \in Nat /\ l \in Seq(Entry)
    BY <2>2, StatusAssumption DEF IInv, TypeInv, RestInv, Entry, StatusAssumption
  <2>4. Covers(t, n, l, R) /\ Len(l) < limit
    BY <1>4, <2>1, <2>2, CoversMore DEF WalkInv, Walking
  <2>5. Later
    BY <1>1 DEF IInv, TypeInv, ComfyTypeOK, Later
  <2>6. Covers(t, n, l, R)'
    BY <1>1, <1>2, <2>1, <2>3, <2>4, <2>5, CoversKept
  <2>7. Covers(todo, scanned + Len(todo), listed, refused)' /\ (Len(listed) < limit)'
    BY <1>4, <2>1, <2>2, <2>4, <2>6
  <2> QED BY <1>1, <1>2, <2>7 DEF WalkInv
<1>5. ASSUME op = "list", todo' = Tail(todo), scanned' = scanned + 1, UNCHANGED <<began, wanted, limit>>,
             NEW m \in Seq(Entry), listed' = m, Covers(Tail(todo), scanned + Len(todo), m, refused'),
             pc' = "done" \/ Len(m) < limit
      PROVE  WalkInv'
  <2>1. todo \in Seq(Jobs) /\ todo # <<>> /\ scanned \in Nat
    BY <1>5, ListReads, StatusAssumption DEF IInv, TypeInv, RestInv, Waiting, StatusAssumption
  <2>2. scanned' + Len(todo') = scanned + Len(todo)
    <3>1. Len(Tail(todo)) = Len(todo) - 1 /\ Len(todo) \in Nat
      BY <2>1
    <3> QED BY <1>5, <2>1, <3>1
  <2>3. PICK t, n, R : t = Tail(todo) /\ n = scanned + Len(todo) /\ R = refused'
    OBVIOUS
  <2>4. Covers(t, n, m, R)
    BY <1>5, <2>3
  <2>5. Covers(t, n, m, R)'
    <3>1. t \in Seq(Jobs) /\ n \in Nat
      BY <2>1, <2>3
    <3>2. Later
      BY <1>1 DEF IInv, TypeInv, ComfyTypeOK, Later
    <3> QED BY <1>1, <1>2, <1>5, <2>4, <3>1, <3>2, CoversKept
  <2>6. t = todo' /\ n = scanned' + Len(todo') /\ m = listed' /\ R = refused'
    BY <1>5, <2>2, <2>3
  <2>7. Walking' => Covers(todo, scanned + Len(todo), listed, refused)' /\ (Len(listed) < limit)'
    BY <1>5, <2>5, <2>6 DEF Walking
  <2> QED BY <1>1, <1>2, <2>7 DEF WalkInv
<1> QED BY <1>3, <1>4, <1>5, ListReads

LEMMA StepWalk == IInv /\ RestInv /\ WalkInv /\ [Next]_vars => WalkInv'
<1> SUFFICES ASSUME IInv, RestInv, WalkInv, [Next]_vars PROVE WalkInv'
  OBVIOUS
<1>0. /\ recent \in Seq(Jobs) /\ table \in Seq(Jobs) /\ IsInjective(recent) /\ IsInjective(table)
      /\ Recorded \subseteq submitted /\ (pc = "new" => scanned = 0)
      /\ ~up => pc \in {"new", "done"}
      /\ place \in [Jobs -> {"pending", "running", "history", "gone"}]
  BY DEF IInv, TypeInv, WalkInv, ComfyTypeOK
<1>1. CASE UNCHANGED vars
  <2>1. /\ Later
        /\ UNCHANGED <<up, recent, table, submitted, pc, op, scanned, todo, listed, began, wanted,
                       limit, refused>>
    BY <1>0, <1>1 DEF vars, comfy, records, query, walk, Later
  <2> QED BY <1>0, <2>1, WalkKept DEF Walking, Recorded
<1>2. CASE ComfyMoves
  <2>1. UNCHANGED <<up, recent, table, submitted, pc, op, scanned, todo, listed, began, wanted,
                    limit, refused>>
    BY <1>2 DEF ComfyMoves, records, query, walk
  <2>2. Later
    BY <1>0, <1>2 DEF ComfyMoves, ComfyStep, Start, Commit, Lose, Cancelled, Later, IInv, TypeInv,
                      ComfyTypeOK
  <2> QED BY <1>0, <2>1, <2>2, WalkKept DEF Walking, Recorded
<1>3. CASE Crash
  <2>1. /\ up' = FALSE /\ recent' = <<>> /\ table' = table /\ submitted \subseteq submitted'
        /\ pc' \in {"new", "done"} /\ (pc' = "new" => pc = "new") /\ scanned' = scanned
    BY <1>3 DEF Crash, walk
  <2>2. Recorded' \subseteq submitted'
    BY <1>0, <2>1, EmptySet DEF Recorded
  <2> QED BY <1>0, <2>1, <2>2, EmptyDistinct, WalkKept DEF Walking
<1>4. CASE Restart
  <2>1. /\ ~up /\ UNCHANGED <<table, submitted, pc, op, scanned>>
        /\ recent' = IF durable THEN Newest(table, MaxScan) ELSE <<>>
    BY <1>4 DEF Restart, records, query, walk
  <2>2. /\ Newest(table, MaxScan) \in Seq(Jobs) /\ IsInjective(Newest(table, MaxScan))
        /\ ToSet(Newest(table, MaxScan)) \subseteq ToSet(table)
    BY <1>0, NewestSeq, NewestDistinct, StatusAssumption DEF StatusAssumption
  <2>3. recent' \in Seq(Jobs) /\ IsInjective(recent') /\ ToSet(recent') \subseteq ToSet(table)
    BY <2>1, <2>2, EmptyDistinct, EmptySet
  <2>4. Recorded' \subseteq submitted'
    BY <1>0, <2>1, <2>3 DEF Recorded
  <2> QED BY <1>0, <2>1, <2>3, <2>4, WalkKept DEF Walking
<1>5. ASSUME NEW j \in Jobs, Remember(j) PROVE WalkInv'
  <2>1. /\ UNCHANGED <<place, outcome, up, pc, op, scanned, todo, listed, began, wanted, limit, refused>>
        /\ j \notin submitted /\ submitted' = submitted \cup {j} /\ recent' = Append(recent, j)
        /\ table' = table \/ table' = Append(table, j)
    BY <1>5 DEF Remember, comfy, query, walk
  <2>2. j \notin ToSet(recent) /\ j \notin ToSet(table)
    BY <1>0, <2>1 DEF Recorded
  <2>a. /\ Append(recent, j) \in Seq(Jobs) /\ IsInjective(Append(recent, j))
        /\ ToSet(Append(recent, j)) = ToSet(recent) \cup {j}
    BY <1>0, <2>2, AppendDistinct, AppendSet
  <2>b. IsInjective(Append(table, j)) /\ ToSet(Append(table, j)) = ToSet(table) \cup {j}
    BY <1>0, <2>2, AppendDistinct, AppendSet
  <2>3. recent' \in Seq(Jobs) /\ IsInjective(recent') /\ IsInjective(table')
    BY <1>0, <2>1, <2>a, <2>b
  <2>4. Recorded' \subseteq submitted'
    BY <1>0, <2>1, <2>a, <2>b DEF Recorded
  <2>5. Len(recent) <= Len(recent') /\ \A i \in 1..Len(recent) : recent'[i] = recent[i]
    BY <1>0, <2>1
  <2>6. Later
    BY <1>0, <2>1 DEF Later
  <2> QED BY <1>0, <2>1, <2>3, <2>4, <2>5, <2>6, WalkKept DEF Walking
<1>6. ASSUME NEW j \in Jobs, GetJob(j) \/ GetJobWorkflow(j) \/ CancelJob(j) PROVE WalkInv'
  <2>1. /\ UNCHANGED <<up, recent, table, submitted>> /\ up
        /\ op' \in {"get", "workflow", "probe", "cancel"} /\ pc' # "new"
    BY <1>6 DEF GetJob, GetJobWorkflow, CancelJob, Arrive, Goto, Answer, records
  <2> QED BY <1>0, <2>1, WalkKept DEF Walking, Recorded
<1>7. ASSUME NEW n \in Limits, NEW f \in Filters, ListJobs(n, f) PROVE WalkInv'
  BY <1>7, WalkBegins
<1>8. CASE PostCancel \/ PostCancelLost \/ Unreachable
  <2>1. /\ UNCHANGED <<up, recent, table, submitted>> /\ up
        /\ pc' = "done" \/ (pc' = "history" /\ op' = "cancel")
    BY <1>8 DEF PostCancel, PostCancelLost, Unreachable, Goto, Answer, records
  <2> QED BY <1>0, <2>1, WalkKept DEF Walking, Recorded
<1> QED BY <1>1, <1>2, <1>3, <1>4, <1>5, <1>6, <1>7, <1>8, WalkReads DEF Next

LEMMA InitRest == Init => RestInv /\ WalkInv
<1>1. 0 \in 0..MaxScan /\ 0 < MaxScan /\ 0 \in 0..MaxCrashes
  BY StatusAssumption DEF StatusAssumption
<1> QED BY <1>1, EmptyDistinct, EmptySet DEF Init, RestInv, WalkInv, Recorded, Walking

LEMMA AlwaysWalk == Spec => [](IInv /\ RestInv /\ WalkInv)
<1>1. Init => IInv /\ RestInv /\ WalkInv
  BY InitIInv, InitRest
<1>2. IInv /\ RestInv /\ WalkInv /\ [Next]_vars => (IInv /\ RestInv /\ WalkInv)'
  BY StepIInv, StepRest, StepWalk
<1> QED BY <1>1, <1>2, PTL DEF Spec

LEMMA AgeOf ==
  ASSUME recent \in Seq(Jobs), IsInjective(recent), NEW i \in 1..Len(recent)
  PROVE  Age(recent[i]) = i
<1>1. i \in DOMAIN recent /\ \A k \in DOMAIN recent : recent[k] = recent[i] => k = i
  BY DEF IsInjective
<1> QED BY <1>1 DEF Age

\* What it means for a list to cover its snapshot.
LEMMA CoversGives ==
  ASSUME recent \in Seq(Jobs), IsInjective(recent), NEW t \in Seq(Jobs), NEW n \in Nat,
         NEW l \in Seq(Entry), NEW R, Covers(t, n, l, R)
  PROVE  /\ \A i, k \in DOMAIN l : i < k => Age(l[i].job) > Age(l[k].job)
         /\ \A j \in ToSet(SubSeq(recent, 1, n)) :
              (Matches(j, R) /\ \A e \in ToSet(l) : e.job # j) =>
                t # <<>> /\ \A e \in ToSet(l) : Age(e.job) > Age(j)
<1>1. /\ Len(t) \in Nat /\ Len(t) <= n /\ n <= Len(recent) /\ Len(recent) \in Nat
      /\ 1..n \subseteq 1..Len(recent) /\ (Len(t) + 1)..n \subseteq 1..n
  BY DEF Covers
<1>2. \A i \in 1..n : Age(recent[i]) = i
  BY <1>1, AgeOf
<1>3. \A k \in DOMAIN l : \E i \in (Len(t) + 1)..n : l[k].job = recent[i] /\ Age(l[k].job) = i
  <2>1. \A k \in DOMAIN l : \E i \in (Len(t) + 1)..n : l[k].job = recent[i]
    BY DEF Covers
  <2> QED BY <1>1, <1>2, <2>1
<1>4. ASSUME NEW i \in DOMAIN l, NEW k \in DOMAIN l, i < k PROVE Age(l[i].job) > Age(l[k].job)
  <2>1. PICK a \in (Len(t) + 1)..n : l[i].job = recent[a] /\ Age(l[i].job) = a
    BY <1>3
  <2>2. PICK b \in (Len(t) + 1)..n : l[k].job = recent[b] /\ Age(l[k].job) = b
    BY <1>3
  <2>3. a > b
    BY <1>1, <1>4, <2>1, <2>2 DEF Covers
  <2> QED BY <2>1, <2>2, <2>3
<1>5. ASSUME NEW j \in ToSet(SubSeq(recent, 1, n)), Matches(j, R), \A e \in ToSet(l) : e.job # j
      PROVE  t # <<>> /\ \A e \in ToSet(l) : Age(e.job) > Age(j)
  <2>1. j \in ToSet(SubSeq(recent, 1, n)) /\ Matches(j, R) /\ \A e \in ToSet(l) : e.job # j
    BY <1>5
  <2>2. PICK s : s = SubSeq(recent, 1, n)
    OBVIOUS
  <2>3. DOMAIN s = 1..n /\ \A i \in 1..n : s[i] = recent[i]
    BY <1>1, <2>2
  <2>4. PICK i \in 1..n : j = recent[i]
    BY <2>1, <2>2, <2>3 DEF ToSet
  <2>5. i \notin (Len(t) + 1)..n
    <3>1. SUFFICES ASSUME i \in (Len(t) + 1)..n PROVE FALSE
      OBVIOUS
    <3>2. PICK k \in DOMAIN l : l[k].job = recent[i]
      BY <2>1, <2>4, <3>1 DEF Covers
    <3>3. l[k] \in ToSet(l)
      BY DEF ToSet
    <3> QED BY <2>1, <2>4, <3>2, <3>3
  <2>6. i \in 1..Len(t)
    BY <1>1, <2>5
  <2>7. Age(j) \in 1..Len(t)
    BY <1>2, <2>4, <2>6
  <2>8. t # <<>>
    <3>1. SUFFICES ASSUME t = <<>> PROVE FALSE
      OBVIOUS
    <3>2. Len(t) = 0
      BY <3>1
    <3> QED BY <2>7, <3>2
  <2>9. ASSUME NEW e \in ToSet(l) PROVE Age(e.job) > Age(j)
    <3>1. PICK k \in DOMAIN l : e = l[k]
      BY DEF ToSet
    <3>2. Age(e.job) \in (Len(t) + 1)..n
      BY <1>3, <3>1
    <3> QED BY <1>1, <2>7, <3>2
  <2> QED BY <2>8, <2>9
<1> QED BY <1>4, <1>5

\* A list is the newest matches, newest first, and says so when it stopped looking
\* (app.py:831-873): for any number of records and of jobs that move while it reads
\* one status after the other.  A job that an error answer hid may be missing.
THEOREM ListsHoldNewest == Spec => ListHoldsNewest
<1>1. ASSUME IInv, RestInv, WalkInv, [Next]_vars, op' = "list", Answered,
             NEW M, M = {j \in ToSet(SubSeq(recent, 1, scanned' + Len(todo'))) :
                           /\ began'[j] = place[j] /\ Standing(j) \in wanted'
                           /\ j \notin Misread' /\ \A e \in Entries : e.job # j}
      PROVE  /\ \A i, k \in DOMAIN listed' : i < k => Age(listed'[i].job) > Age(listed'[k].job)
             /\ M # {} => truncated' \/ Len(listed') = limit'
             /\ \A j \in M : \A e \in Entries : Age(e.job) > Age(j)
  <2>1. verdict = "none" /\ verdict' = "ok" /\ recent \in Seq(Jobs) /\ IsInjective(recent)
    BY <1>1 DEF Answered, IInv, TypeInv, WalkInv
  <2>2. CASE ReadHistory \/ ReadQueue
    <3>1. op = "list"
      BY <1>1, <2>1, <2>2, ReadSteps DEF ReadOn, Serves, Listed, GaveStatus, Probed, NotFound
    <3>2. todo \in Seq(Jobs) /\ todo # <<>> /\ scanned \in Nat /\ limit \in Nat
      BY <1>1, <2>2, <3>1, ListReads, StatusAssumption
      DEF IInv, TypeInv, RestInv, Waiting, StatusAssumption
    <3>3. PICK l \in Seq(Entry) :
            /\ todo' = Tail(todo) /\ scanned' = scanned + 1 /\ UNCHANGED <<began, wanted, limit>>
            /\ listed' = l /\ Len(l) <= limit /\ Covers(Tail(todo), scanned + Len(todo), l, refused')
            /\ truncated' = (Len(l) < limit /\ todo' # <<>>)
      BY <1>1, <2>1, <2>2, <3>1, ListReads
    <3>4. PICK t, n, R : t = Tail(todo) /\ n = scanned + Len(todo) /\ R = refused'
      OBVIOUS
    <3>5. t \in Seq(Jobs) /\ n \in Nat /\ n = scanned' + Len(todo') /\ t = todo'
      <4>1. Len(Tail(todo)) = Len(todo) - 1 /\ Tail(todo) \in Seq(Jobs) /\ Len(todo) \in Nat
        BY <3>2
      <4> QED BY <3>2, <3>3, <3>4, <4>1
    <3>6. \A j \in M : /\ j \in ToSet(SubSeq(recent, 1, n)) /\ Matches(j, R)
                       /\ \A e \in ToSet(l) : e.job # j
      <4>1. ToSet(SubSeq(recent, 1, n)) \subseteq Jobs
        <5>1. n <= Len(recent)
          BY <3>3, <3>4 DEF Covers
        <5>2. SubSeq(recent, 1, n) \in Seq(Jobs)
          BY <2>1, <3>5, <5>1, SubSeqProperties
        <5> QED BY <5>2, SetOfSeq
      <4>2. place' = place
        BY <2>2, ReadSteps, <1>1
      <4>3. \A j \in Jobs : j \notin Misread' <=> ~HiddenBy(j, R)
        BY <3>4, <4>2 DEF Misread, HiddenBy
      <4> QED BY <1>1, <3>3, <3>5, <4>1, <4>3 DEF Matches, Entries
    <3>7. /\ \A i, k \in DOMAIN l : i < k => Age(l[i].job) > Age(l[k].job)
          /\ M # {} => t # <<>>
          /\ \A j \in M : \A e \in ToSet(l) : Age(e.job) > Age(j)
      <4>1. l \in Seq(Entry) /\ Covers(t, n, l, R)
        BY <3>3, <3>4
      <4>2. /\ \A i, k \in DOMAIN l : i < k => Age(l[i].job) > Age(l[k].job)
            /\ \A j \in ToSet(SubSeq(recent, 1, n)) :
                 (Matches(j, R) /\ \A e \in ToSet(l) : e.job # j) =>
                   t # <<>> /\ \A e \in ToSet(l) : Age(e.job) > Age(j)
        BY <2>1, <3>5, <4>1, CoversGives
      <4> QED BY <3>6, <4>2
    <3>8. /\ Len(l) \in Nat
          /\ M # {} => truncated' \/ Len(l) = limit
      <4>1. Len(l) \in Nat /\ Len(l) <= limit
        BY <3>3
      <4>2. ASSUME M # {}  PROVE truncated' \/ Len(l) = limit
        <5>1. todo' # <<>>
          BY <3>5, <3>7, <4>2
        <5>2. CASE Len(l) = limit
          BY <5>2
        <5>3. CASE Len(l) # limit
          <6>1. Len(l) < limit
            BY <3>2, <4>1, <5>3
          <6> QED BY <3>3, <5>1, <6>1
        <5> QED BY <5>2, <5>3
      <4> QED BY <4>1, <4>2
    <3> QED BY <3>3, <3>7, <3>8 DEF Entries
  <2>3. CASE ~(ReadHistory \/ ReadQueue)
    <3>1. PICK n \in Limits, f \in Filters : ListJobs(n, f)
      BY <1>1, <2>1, <2>3
      DEF Next, vars, Unreachable, PostCancel, PostCancelLost, ComfyMoves, Crash, Restart, Remember,
          GetJob, GetJobWorkflow, CancelJob, Arrive, Answer, Goto
    <3>2. /\ recent = <<>> /\ todo' = Reverse(recent) /\ scanned' = scanned /\ scanned = 0
          /\ listed' = <<>>
      BY <1>1, <2>1, <3>1
      DEF ListJobs, Arrive, NewestFirst, Goto, Answer, IInv, TypeInv, WalkInv
    <3>3. Len(todo') = 0
      BY <2>1, <3>2, ReverseSeq
    <3>4. ToSet(SubSeq(recent, 1, scanned' + Len(todo'))) = {}
      BY <3>2, <3>3 DEF ToSet
    <3>5. DOMAIN listed' = {} /\ Entries = {}
      BY <3>2, EmptySet DEF Entries
    <3> QED BY <1>1, <3>4, <3>5
  <2> QED BY <2>2, <2>3
<1>2. IInv /\ RestInv /\ WalkInv /\ [Next]_vars =>
        [(op' = "list" /\ Answered) =>
           LET snapshot == SubSeq(recent, 1, scanned' + Len(todo'))
               missing == {j \in ToSet(snapshot) : /\ began'[j] = place[j] /\ Standing(j) \in wanted'
                                                   /\ j \notin Misread' /\ \A e \in Entries : e.job # j} IN
           /\ \A i, k \in DOMAIN listed' : i < k => Age(listed'[i].job) > Age(listed'[k].job)
           /\ missing # {} => truncated' \/ Len(listed') = limit'
           /\ \A j \in missing : \A e \in Entries : Age(e.job) > Age(j)]_vars
  BY <1>1
<1> QED BY <1>2, AlwaysWalk, PTL DEF Spec, ListHoldsNewest
=============================================================================
