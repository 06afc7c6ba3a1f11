------------------------------ MODULE JobEvents ------------------------------
(***************************************************************************)
(* GET /jobs/{id}/events: the handler with its cap on open streams         *)
(* (app.py, job_events), the two-endpoint status read it rests on          *)
(* (app.py, _status_of), and the bridge from ComfyUI's WebSocket to        *)
(* server-sent events (realtime.py, JobEventBridge).                       *)
(*                                                                         *)
(* A stream is one request.  Each await is a point where anything else may *)
(* happen: the read of /history, the read of /queue, the WebSocket, the    *)
(* sleep of the poll loop.  Between them a stream takes one step.  Frames  *)
(* of progress and previews, keepalives, and how often they are throttled, *)
(* are left out; a write that finds the client gone is Disconnect.         *)
(***************************************************************************)
EXTENDS ComfyJob, Naturals, FiniteSets, Sequences, SequencesExt

CONSTANTS Streams,        \* requests for an event stream
          Outputs,        \* the output assets of a job that ran
          Nobody,         \* no stream
          MaxStreams,     \* _MAX_CONCURRENT_STREAMS
          MaxInbox,       \* bound: unread WebSocket messages of a stream
          PrepareYields,  \* may sending the response headers suspend the handler
          WsCloses,       \* may ComfyUI close the WebSocket early
          Chatter,        \* do messages about other jobs keep arriving
          Errors          \* may ComfyUI answer a read with an error status

Terminal == {"succeeded", "failed", "canceled", "expired"}
JobStatuses == Terminal \cup {"queued", "running"}

ASSUME EventsAssumption ==
  /\ Nobody \notin Streams /\ IsFiniteSet(Streams)
  /\ IsFiniteSet(Outputs) /\ Outputs \cap JobStatuses = {}
  /\ MaxStreams \in Nat /\ MaxInbox \in Nat
  /\ {PrepareYields, WsCloses, Chatter, Errors} \subseteq BOOLEAN

VARIABLES known,        \* jobs the proxy has a record of
          jobOf,        \* the job a stream is for
          pc, why,      \* where a stream awaits, and what its status read is for
          openStreams,  \* _open_streams
          holder,       \* the WebSocket ComfyUI sends a job's messages to
          announced,    \* ComfyUI has sent the job's terminal message
          inbox,        \* WebSocket messages not yet received
          quiet,        \* nothing received for _HEARTBEAT_SECONDS
          seen,         \* seen_outputs, or seen of the poll loop
          log,          \* status and output frames sent so far
          ending        \* how the request ended

socket == <<holder, announced, inbox, quiet>>
vars == <<comfy, known, jobOf, pc, why, openStreams, socket, seen, log, ending>>

Pcs == {"new", "history", "queue", "prepare", "connect", "live", "sleep", "done"}
Reasons == {"admit", "connect", "executed", "terminal", "quiet", "poll"}

\* The stream counts against the cap.
Holding(s) == \/ pc[s] \in {"connect", "live", "sleep"}
              \/ pc[s] \in {"history", "queue"} /\ why[s] # "admit"
Init == /\ ComfyInit
        /\ known \in SUBSET Jobs
        /\ jobOf \in [Streams -> Jobs]
        /\ pc = [s \in Streams |-> "new"] /\ why = [s \in Streams |-> "admit"]
        /\ openStreams = 0
        /\ holder = [j \in Jobs |-> Nobody] /\ announced = [j \in Jobs |-> FALSE]
        /\ inbox = [s \in Streams |-> <<>>] /\ quiet = [s \in Streams |-> FALSE]
        /\ seen = [s \in Streams |-> {}]
        /\ log = [s \in Streams |-> <<>>]
        /\ ending = [s \in Streams |-> "none"]

-----------------------------------------------------------------------------
(* How a stream goes on *)

Goto(s, p) == pc' = [pc EXCEPT ![s] = p]

\* Start a status read: /history first.
Read(s, reason) == Goto(s, "history") /\ why' = [why EXCEPT ![s] = reason]

\* The WebSocket of s, if any, is closed.
HangUp(s) == holder' = [j \in Jobs |-> IF holder[j] = s THEN Nobody ELSE holder[j]]

\* Mutant: the decrement also runs for requests that never took a slot.
Finish_AlwaysFrees(s, how) ==
  /\ Goto(s, "done") /\ ending' = [ending EXCEPT ![s] = how]
  /\ openStreams' = openStreams - 1
  /\ HangUp(s)
  /\ UNCHANGED <<announced, inbox, quiet, why>>

\* Mutant: the return after a terminal status found by reconciliation is missing.
Finish_GoesOn(s, how) ==
  IF how = "finished" /\ why[s] = "quiet"
  THEN Goto(s, "live") /\ UNCHANGED <<why, openStreams, socket, ending>>
  ELSE /\ Goto(s, "done") /\ ending' = [ending EXCEPT ![s] = how]
       /\ openStreams' = IF Holding(s) THEN openStreams - 1 ELSE openStreams
       /\ HangUp(s)
       /\ UNCHANGED <<announced, inbox, quiet, why>>

\* The request is over; job_events' finally gives the slot back.
Finish(s, how) ==
  /\ Goto(s, "done") /\ ending' = [ending EXCEPT ![s] = how]
  /\ openStreams' = IF Holding(s) THEN openStreams - 1 ELSE openStreams
  /\ HangUp(s)
  /\ UNCHANGED <<announced, inbox, quiet, why>>

\* Mutant: a stream that finds the job over on connect sends its status only.
Emit_StatusOnConnect(s, statuses, outs) ==
  LET sent == IF why[s] = "connect" THEN {} ELSE outs \ seen[s] IN
  /\ log' = [log EXCEPT ![s] = @ \o statuses \o SetToSeq(sent)]
  /\ seen' = [seen EXCEPT ![s] = @ \cup outs]

\* Mutant: outputs are sent without looking at seen.
Emit_Again(s, statuses, outs) ==
  /\ log' = [log EXCEPT ![s] = @ \o statuses \o SetToSeq(outs)]
  /\ seen' = [seen EXCEPT ![s] = @ \cup outs]

\* Frames sent: a status, and the outputs not yet in seen.
Emit(s, statuses, outs) ==
  /\ log' = [log EXCEPT ![s] = @ \o statuses \o SetToSeq(outs \ seen[s])]
  /\ seen' = [seen EXCEPT ![s] = @ \cup outs]

\* Takes the slot and starts the bridge with a first status read.
Attach(s) == openStreams' = openStreams + 1 /\ Read(s, "connect")

\* Mutant: the cap is off by one.
Admit_OffByOne(s, status) ==
  /\ UNCHANGED <<log, seen>>
  /\ \/ /\ \/ status = "unknown" /\ jobOf[s] \notin known
           \/ openStreams > MaxStreams
        /\ Finish(s, "answered")
     \/ /\ status = "unknown" => jobOf[s] \in known
        /\ openStreams <= MaxStreams
        /\ IF PrepareYields THEN Goto(s, "prepare") /\ UNCHANGED <<why, openStreams>>
                            ELSE Attach(s)
        /\ UNCHANGED <<socket, ending>>

Admit(s, status) ==
  /\ UNCHANGED <<log, seen>>
  /\ \/ /\ \/ status = "unknown" /\ jobOf[s] \notin known    \* 404
           \/ openStreams >= MaxStreams                      \* 429
        /\ Finish(s, "answered")
     \/ /\ status = "unknown" => jobOf[s] \in known
        /\ openStreams < MaxStreams
        /\ IF PrepareYields THEN Goto(s, "prepare") /\ UNCHANGED <<why, openStreams>>
                            ELSE Attach(s)
        /\ UNCHANGED <<socket, ending>>

\* A status read is done, with the outputs if /history had the job.
Deliver(s, read, outs) ==
  LET status == IF read = "unknown" THEN "expired" ELSE read
      over == status \in Terminal IN
  \/ why[s] = "admit" /\ Admit(s, read)
  \/ /\ why[s] = "terminal" \/ (why[s] \in {"connect", "quiet", "poll"} /\ over)
     /\ Emit(s, <<status>>, outs) /\ Finish(s, "finished")
  \/ /\ why[s] = "connect" /\ ~over
     /\ Emit(s, <<status>>, {}) /\ Goto(s, "connect")
     /\ UNCHANGED <<why, openStreams, socket, ending>>
  \/ /\ why[s] = "executed"
     /\ Emit(s, <<>>, outs) /\ Goto(s, "live")
     /\ UNCHANGED <<why, openStreams, socket, ending>>
  \/ /\ why[s] \in {"quiet", "poll"} /\ ~over
     /\ Goto(s, IF why[s] = "quiet" THEN "live" ELSE "sleep")
     /\ UNCHANGED <<why, openStreams, socket, seen, log, ending>>

-----------------------------------------------------------------------------
(* job_events and _status_of *)

Request(s) == /\ pc[s] = "new" /\ Read(s, "admit")
              /\ UNCHANGED <<comfy, known, jobOf, openStreams, socket, seen, log, ending>>

\* Mutant: an interrupted job is taken for a failed one.
ReadHistory_InterruptedFails(s) ==
  /\ pc[s] = "history"
  /\ \/ /\ place[jobOf[s]] = "history"
        /\ Deliver(s, IF outcome[jobOf[s]] = "canceled" THEN "failed" ELSE outcome[jobOf[s]],
                   IF outcome[jobOf[s]] = "succeeded" THEN Outputs ELSE {})
     \/ /\ place[jobOf[s]] # "history" \/ Errors
        /\ Goto(s, "queue") /\ UNCHANGED <<why, openStreams, socket, seen, log, ending>>
  /\ UNCHANGED <<comfy, known, jobOf>>

\* An answer other than 200 is taken for one that does not hold the job.
ReadHistory(s) ==
  /\ pc[s] = "history"
  /\ \/ /\ place[jobOf[s]] = "history"
        /\ Deliver(s, outcome[jobOf[s]], IF outcome[jobOf[s]] = "succeeded" THEN Outputs ELSE {})
     \/ /\ place[jobOf[s]] # "history" \/ Errors
        /\ Goto(s, "queue") /\ UNCHANGED <<why, openStreams, socket, seen, log, ending>>
  /\ UNCHANGED <<comfy, known, jobOf>>

ReadQueue(s) ==
  /\ pc[s] = "queue"
  /\ \/ Deliver(s, CASE place[jobOf[s]] = "pending" -> "queued"
                     [] place[jobOf[s]] = "running" -> "running"
                     [] OTHER -> "unknown", {})
     \/ Errors /\ Deliver(s, "unknown", {})
  /\ UNCHANGED <<comfy, known, jobOf>>

\* ComfyUI does not answer: 503, or the end of a stream already under way.
Unreachable(s) ==
  /\ pc[s] \in {"history", "queue"}
  /\ Finish(s, IF why[s] = "admit" THEN "answered" ELSE "cut")
  /\ UNCHANGED <<comfy, known, jobOf, seen, log>>

Prepared(s) == /\ pc[s] = "prepare" /\ Attach(s)
               /\ UNCHANGED <<comfy, known, jobOf, socket, seen, log, ending>>

\* Mutant: a client that goes away keeps its slot.
Disconnect_KeepsSlot(s) ==
  /\ Holding(s) \/ pc[s] = "prepare"
  /\ Goto(s, "done") /\ ending' = [ending EXCEPT ![s] = "cut"] /\ HangUp(s)
  /\ UNCHANGED <<comfy, known, jobOf, why, openStreams, announced, inbox, quiet, seen, log>>

\* The client is gone: a write, or sending the headers, fails.
Disconnect(s) == /\ Holding(s) \/ pc[s] = "prepare"
                 /\ Finish(s, "cut")
                 /\ UNCHANGED <<comfy, known, jobOf, seen, log>>

-----------------------------------------------------------------------------
(* JobEventBridge *)

\* ComfyUI sends a job's messages to the connection that took its client id last.
Connect(s) ==
  /\ pc[s] = "connect" /\ Goto(s, "live")
  /\ holder' = [holder EXCEPT ![jobOf[s]] = s]
  /\ seen' = [seen EXCEPT ![s] = {}]
  /\ quiet' = [quiet EXCEPT ![s] = FALSE]
  /\ UNCHANGED <<comfy, known, jobOf, why, openStreams, announced, inbox, log, ending>>

\* _poll_until_terminal, with a seen of its own.
FallBack(s) ==
  /\ Read(s, "poll") /\ HangUp(s)
  /\ seen' = [seen EXCEPT ![s] = {}]
  /\ UNCHANGED <<comfy, known, jobOf, openStreams, announced, inbox, quiet, log, ending>>

ConnectFails(s) == pc[s] = "connect" /\ FallBack(s)

\* A close is received after the messages sent before it.
WsClosed(s) == WsCloses /\ pc[s] = "live" /\ inbox[s] = <<>> /\ FallBack(s)

\* A message for the job.  The outputs are read again after "executed", unless
\* they were within the last half second; a terminal message is read up on.
Receive(s) ==
  /\ pc[s] = "live" /\ inbox[s] # <<>>
  /\ inbox' = [inbox EXCEPT ![s] = Tail(@)]
  /\ quiet' = [quiet EXCEPT ![s] = FALSE]
  /\ IF Head(inbox[s]) = "executed"
     THEN Read(s, "executed") \/ UNCHANGED <<pc, why>>
     ELSE Read(s, "terminal")
  /\ UNCHANGED <<comfy, known, jobOf, openStreams, holder, announced, seen, log, ending>>

\* A message about another job, ignored.
ReceiveOther(s) ==
  /\ Chatter /\ pc[s] = "live" /\ quiet[s] /\ inbox[s] = <<>>
  /\ quiet' = [quiet EXCEPT ![s] = FALSE]
  /\ UNCHANGED <<comfy, known, jobOf, pc, why, openStreams, holder, announced, inbox,
                 seen, log, ending>>

Elapse(s) ==
  /\ pc[s] = "live" /\ ~quiet[s] /\ inbox[s] = <<>>
  /\ quiet' = [quiet EXCEPT ![s] = TRUE]
  /\ UNCHANGED <<comfy, known, jobOf, pc, why, openStreams, holder, announced, inbox,
                 seen, log, ending>>

\* Mutant: a timed out receive only sends the keepalive.
TimedOut_KeepaliveOnly(s) ==
  /\ pc[s] = "live" /\ quiet[s] /\ inbox[s] = <<>>
  /\ quiet' = [quiet EXCEPT ![s] = FALSE]
  /\ UNCHANGED <<comfy, known, jobOf, pc, why, openStreams, holder, announced, inbox, seen, log,
                 ending>>

\* The receive timed out: look whether a terminal message was missed.
TimedOut(s) ==
  /\ pc[s] = "live" /\ quiet[s] /\ inbox[s] = <<>>
  /\ Read(s, "quiet") /\ quiet' = [quiet EXCEPT ![s] = FALSE]
  /\ UNCHANGED <<comfy, known, jobOf, openStreams, holder, announced, inbox, seen, log, ending>>

\* The poll loop goes on, or 600 seconds are over.
PollAgain(s) == /\ pc[s] = "sleep" /\ Read(s, "poll")
                /\ UNCHANGED <<comfy, known, jobOf, openStreams, socket, seen, log, ending>>
PollDeadline(s) == /\ pc[s] = "sleep" /\ Finish(s, "deadline")
                   /\ UNCHANGED <<comfy, known, jobOf, seen, log>>

-----------------------------------------------------------------------------
(* ComfyUI *)

ComfyMoves == ComfyStep /\ UNCHANGED <<known, jobOf, pc, why, openStreams, socket, seen, log, ending>>

Push(j, msgs) ==
  inbox' = [s \in Streams |-> IF holder[j] = s THEN inbox[s] \o msgs ELSE inbox[s]]

NodeExecuted(j) ==
  /\ place[j] = "running" /\ holder[j] # Nobody /\ Len(inbox[holder[j]]) < MaxInbox
  /\ Push(j, <<"executed">>)
  /\ UNCHANGED <<comfy, known, jobOf, pc, why, openStreams, holder, announced, quiet,
                 seen, log, ending>>

\* "executed" and the terminal message, once /history has the job, as in
\* demo/fake_comfyui.py.
Announce(j) ==
  /\ place[j] = "history" /\ ~announced[j]
  /\ announced' = [announced EXCEPT ![j] = TRUE]
  /\ Push(j, IF outcome[j] = "succeeded" THEN <<"executed", "end">> ELSE <<"end">>)
  /\ UNCHANGED <<comfy, known, jobOf, pc, why, openStreams, holder, quiet, seen, log, ending>>

-----------------------------------------------------------------------------
StreamStep(s) ==
  \/ ReadHistory(s) \/ ReadQueue(s) \/ Prepared(s) \/ Connect(s) \/ ConnectFails(s)
  \/ Receive(s) \/ TimedOut(s) \/ PollAgain(s) \/ PollDeadline(s)

Next ==
  \/ \E s \in Streams : StreamStep(s) \/ Request(s) \/ Unreachable(s) \/ Disconnect(s)
                        \/ WsClosed(s) \/ ReceiveOther(s) \/ Elapse(s)
  \/ \E j \in Jobs : NodeExecuted(j) \/ Announce(j)
  \/ ComfyMoves

Spec == Init /\ [][Next]_vars

\* ComfyUI answers reads and announces the end of a job, the event loop resumes
\* what it can, and time passes.  Nothing obliges other traffic to stop.
Fairness == /\ \A s \in Streams : WF_vars(StreamStep(s)) /\ WF_vars(Elapse(s))
            /\ \A j \in Jobs : WF_vars(Announce(j))
FairSpec == Spec /\ Fairness

-----------------------------------------------------------------------------
(* Properties *)

Frames == JobStatuses \cup Outputs

\* Every variable stays in its range.
TypeOK ==
  /\ ComfyTypeOK
  /\ known \subseteq Jobs /\ jobOf \in [Streams -> Jobs]
  /\ pc \in [Streams -> Pcs] /\ why \in [Streams -> Reasons]
  /\ openStreams \in Nat
  /\ holder \in [Jobs -> Streams \cup {Nobody}] /\ announced \in [Jobs -> BOOLEAN]
  /\ inbox \in [Streams -> Seq({"executed", "end"})] /\ quiet \in [Streams -> BOOLEAN]
  /\ seen \in [Streams -> SUBSET Outputs] /\ log \in [Streams -> Seq(Frames)]
  /\ ending \in [Streams -> {"none", "answered", "finished", "cut", "deadline"}]

\* The counter behind the cap counts the streams under way: whatever way a
\* stream ends, its slot comes back exactly once.
SlotsCounted == openStreams = Cardinality({s \in Streams : Holding(s)})

\* The cap holds, as long as sending the headers does not suspend the handler
\* between its check (app.py:942) and its increment (app.py:981).
CapRespected == PrepareYields \/ openStreams <= MaxStreams

\* A stream that reports success has sent all outputs of the job by its end,
\* whichever way it learned of the end.
SuccessIsComplete ==
  \A s \in Streams :
    (ending[s] = "finished" /\ "succeeded" \in ToSet(log[s])) => Outputs \subseteq ToSet(log[s])

\* Statuses never go back, and a verdict is the job's own.
Rank(f) == CASE f = "queued" -> 0 [] f = "running" -> 1 [] OTHER -> 2
StatusesConsistent ==
  \A s \in Streams :
    /\ \A i, k \in DOMAIN log[s] :
         (i < k /\ log[s][i] \in JobStatuses /\ log[s][k] \in JobStatuses)
           => Rank(log[s][i]) <= Rank(log[s][k])
    /\ \A i \in DOMAIN log[s] : log[s][i] \in Outcomes => log[s][i] = outcome[jobOf[s]]

\* A stream gives one verdict and ends with it: whichever of the four places that
\* look for the end of the job sees it first, the others do not report it again.
OneVerdict ==
  \A s \in Streams :
    Cardinality({i \in DOMAIN log[s] : log[s][i] \in Terminal})
      = IF ending[s] = "finished" THEN 1 ELSE 0

\* "seen_outputs guarantees no output is ever emitted twice" (realtime.py:164),
\* as long as the socket is not closed early: the poll loop starts from an empty
\* set (realtime.py:349).
OutputsOnce ==
  WsCloses \/ \A s \in Streams : \A i, k \in DOMAIN log[s] :
                (log[s][i] \in Outputs /\ log[s][i] = log[s][k]) => i = k

\* Once a job is over every stream of it ends and frees its slot.  ("Yield SSE
\* frames until the job reaches a terminal status", realtime.py:98.)
StreamsEnd ==
  \A s \in Streams :
    (Holding(s) /\ place[jobOf[s]] \in {"history", "gone"}) ~> pc[s] = "done"

\* A poll or a stream that finds a job in neither place calls it expired
\* (app.py:503, "known-to-proxy but gone upstream").
ExpiredMeansGone ==
  \A s \in Streams : "expired" \in ToSet(log[s]) => place[jobOf[s]] = "gone"
=============================================================================
