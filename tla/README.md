# A verification project for comfy-api-proxy

The proxy puts a v2 HTTP API in front of one ComfyUI: it submits workflows,
answers for their status, streams their events, and keeps an index of assets.
It is one asyncio process; with `--state-dir` it writes its indexes through to
SQLite. Paths below are relative to the repository; `app.py` and the other
Python files without a directory are in `src/comfy_api_proxy/`.

## The system's parts

| part | state it keeps | operations | what makes it correct | module |
|---|---|---|---|---|
| submission and idempotency (`app.py` submit) | `_idempotency_keys`, `_jobs`, the request under way | POST /jobs | a key creates at most one job; 201 means recorded; a rejected submission gives its key back | `Submission`, `SubmissionContract` |
| durable state (`persist.py`) | SQLite tables jobs, idempotency_keys, assets, meta | one commit per write; reload at startup | what was promised survives the death of the process | `Submission` (jobs, keys), `AssetIndex` (assets) |
| event streams (`app.py` job_events, `realtime.py`) | `_open_streams`; per stream: socket, `seen`, deadline | GET /jobs/{id}/events | slots come back; success comes with all outputs; every stream of a finished job ends | `JobEvents` |
| ComfyUI's jobs (external) | queue, history, sockets by client id | POST /prompt, /queue, /history, /ws, cancel | - | `ComfyJob`, and `Decide` in `Submission` |
| status, list, cancel (`app.py`) | none of their own; read the job records | GET /jobs/{id}, its workflow, GET /jobs, POST cancel | a status is one the job had; the list is complete or says truncated; a recorded job is found | `JobStatus` |
| asset index (`assets.py`, `app.py`) | `_by_id`, `_id_by_hash`, tables | upload, from-hash, from-path, get, delete, expiry | memory and table agree; a hash leads to a live asset; an id lasts until it is deleted | `AssetIndex` |
| model placement (`app.py`, `security.py`) | the file system | validated path, temp file, O_EXCL gate, rename, record | nothing is overwritten, no partial file, no unexplained leftover | `Placement`, `PlacementContract` |
| path rules (`security.py`) | none | classify, resolve | the two classifiers agree | `PathRules` |
| supervisor (`service.py`) | `proxy.json`, processes | start, stop, status | no server is lost, no listener is mistaken, commands end | `Supervisor` |
| command line (`cli.py`) | none | start-up refusals, order of the middlewares, the child's arguments | a bind beyond loopback is meant | `RequestGate` |
| origin guard, CORS, bearer token (`middleware.py`, `auth.py`) | an Origin stashed in the request | accept, refuse or answer a request | a handler is guarded; CORS headers exactly where allowed | `RequestGate` |
| asset ids, core/ASSET walker, content streaming | the HMAC secret | sign, rewrite, relay | - | not modelled |
| schemas, scripts, demo, tests | none | - | - | not modelled |

How they interact. Handlers run in one event loop; what separates two steps is
an `await`. `submit` writes the job record that status, list, cancel and event
streams read. Each event stream reads the status of its job through the same
two requests as GET /jobs/{id}, and listens on a socket under the client id the
job was submitted with, so two streams of one job compete for it. Everything
durable goes through one `StateStore`. Before any handler a request passes the
middlewares `cli.py` has put together. An upload of a model goes through the path
rules to the file system, and its record to the asset index. The supervisor runs
outside the server and shares nothing with it but its process id and its port.

What is hard here: answers of ComfyUI that are lost or late, commits that are
several where the operation is one, checks and uses separated by an `await`,
messages that were sent before anybody listened, and claims that a cap throws
out while they are in use; files, ports and process ids that others change
between a look and a use. `PROJECT.json` lists each hazard at its line.

## Submission

One request is one submission; its job id is drawn at random, so requests and
jobs share names. `phase` says how far it has come, `upstream` what became of
its prompt at ComfyUI, which goes on deciding after the proxy has stopped
listening.

| action | code |
|---|---|
| `RefuseInvalid` | every refusal before a key is claimed, `app.py` 673-763 |
| `RefuseReuse` | `_claim_idempotency` returns False; a key found only in the table is copied to memory |
| `Dispatch`, `ClaimAndDispatch` | up to the `await` of POST /prompt, with the claim, its eviction and its three commits |
| `ClaimFails` | a SQLite call of the claim raises: 500 before the POST |
| `Accept`, `Reject` | ComfyUI (external) |
| `OnRejected`, `OnUnreachable`, `OnAccepted` | the three ways on from the `await` |
| `OnRejectedFails`, `OnAcceptedFails` | the same with a SQLite call that raises |
| `Crash`, `CrashInClaim`, `CrashInRelease`, `CrashInRecord` | the process dies, at an `await` or between two commits |
| `Restart` | `_load_state` |

Time is a counter every claim and record advances; `claimed_at` and
`created_at` are readings of it, an index a function to readings with 0 for
"absent". So the clock never steps back and no two rows are of the same
microsecond. A SQLite call that raises may or may not have taken effect. A
crash loses memory and keeps what was committed. Two variables are history:
`forgotten`, the keys whose claim went for any reason but the rejection of a
submission (eviction, or a restart without `--state-dir`), and `claimant`, who
claimed a key last.

`SubmissionContract` is what the endpoint promises: a key that is not void opens
one submission at a time, and one that may have created a job stays closed;
201 only for jobs that exist and are recorded; a durable record stays.
`ImplementsContract` maps `open` to the submissions that have, or may yet have,
a job, and `void` to `forgotten`.

## Event streams

One stream is one request. `pc` is the `await` it is suspended in, `why` what
its status read is for: admission, the first frame, an `executed` message, a
terminal message, a timed-out receive, or the poll loop.

| action | code |
|---|---|
| `Request`, `ReadHistory`, `ReadQueue` | the handler's and every snapshot's `_status_of`: two requests |
| `Deliver`, `Admit` | what follows a status read: 404, 429, a slot taken, frames sent, the stream's end |
| `Prepared` | after `await response.prepare` |
| `Unreachable`, `Disconnect` | ComfyUI or the client is gone; `finally` frees the slot |
| `Connect`, `ConnectFails`, `WsClosed` | the socket; the poll loop with its fresh `seen` |
| `Receive`, `ReceiveOther`, `Elapse`, `TimedOut` | the receive loop with its 15 second timeout |
| `PollAgain`, `PollDeadline` | the poll loop with its 600 second deadline |
| `NodeExecuted`, `Announce`, `ComfyMoves` | ComfyUI (external): messages go to the last socket of the client id |

`log` is the sequence of status and output frames a client has been sent.
Progress and preview frames and keepalives are left out, as is their
throttling; the throttle of output reads is the choice not to read in
`Receive`. A write that finds the client gone, and cancellation when the server
stops, are `Disconnect`, allowed wherever the stream holds a slot. The socket of
a cut stream is closed at once; in the code it is closed when the generator is
finalised, a turn of the event loop later.

`PrepareYields` says whether sending the response headers can suspend the
handler. In this program it does not: the one hook on that path
(`middleware.py`, `attach_cors_prepare`) awaits nothing. That is what the cap
rests on, since the check and the increment are on either side of it.
`WsCloses` and `Chatter` say whether ComfyUI closes the socket early and
whether messages about other jobs keep coming. `Errors` says whether it may
answer a read with an error status, which `_status_of` takes for an answer that
does not hold the job: with it a job that waits or runs is reported `expired`
for that reason alone, so the run that shows the other way to a false `expired`
leaves it out.

`Announce` comes after /history has the job, as in `demo/fake_comfyui.py`. A
real ComfyUI may announce the end first, so that the snapshot a terminal message
causes does not find the outcome yet; that order is not in the model, and what is
said of the verdicts and outputs of a stream rests on the modelled one.

## Assets

A request uploads, registers or deletes; `phase` says how far it has come. A
content stands for its hash, and an asset id is drawn by a request (its own
name) or, with `CatalogIds`, one ComfyUI's own asset catalog has for the
content. `record` and `slot` are `_by_id` and `_id_by_hash`, `rows` and
`hashRows` their tables. Dedup hits, from-hash and from-path answer with the
asset in the slot (`Deduplicate`).

| action | code |
|---|---|
| `Refuse` | every refusal before the index is touched |
| `Register` | a placed model file or a host file: look-up and record in one step |
| `SendInput`, `Received`, `UploadFails` | an input upload before and after its `await` of POST /upload/image |
| `AddFails`, `EraseFails` | a SQLite call that raises; `Halfway` is a transaction left with its first statement |
| `StartDelete`, `Erase`, `FinishDelete` | DELETE: before the thread, the thread, back on the event loop |
| `Sweep` | `_cleanup_loop`, which runs without `--state-dir` only |
| `Crash`, `CrashInAdd`, `Restart` | death at an `await` or after a commit; `attach_persist` |

`removed` is history: the assets a delete or the sweep has taken away, counted
when the first trace of them goes. Which upload sets `expires_at` is a choice,
and so is when it passes. The temporary file, the placed file and ComfyUI's copy
of an input are not modelled here.

## Status, list and cancel

`JobStatus` follows one request from an arbitrary moment on, over the job
records (`recent` is `_jobs`, `table` the table, both oldest first) and
`ComfyJob`. The handlers write nothing, so requests meet only through ComfyUI,
whose moves, among them cancels of other clients, are allowed at every `await`.

| action | code |
|---|---|
| `GetJob`, `GetJobWorkflow`, `CancelJob`, `ListJobs` | up to the first `await`; `probe` is the look at ComfyUI for a job without a record |
| `ReadHistory`, `ReadQueue`, `Unreachable` | `_status_of`, one request each, answered, answered with an error, or not |
| `Deliver`, `WalkOn`, `Shown`, `AfterCancel` | what follows a status: the answer, or the next job of the walk |
| `PostCancel`, `PostCancelLost` | POST cancel: taken, refused, or taken with its answer lost |
| `Remember`, `Crash`, `Restart` | `_remember_job`; the records of memory go, the newest rows come back without workflows |

An answer with an error status is an answer: `_get_json` returns it, `_status_of`
takes it for one without the job (`app.py` 351, 380), and `cancel_job` does not
look at the status of the answer to its cancel at all (917). So `ReadHistory`,
`ReadQueue` and `PostCancel` each have a case in which ComfyUI refuses (`Refuse`).

Three variables are history: `began`, where the jobs of the request were when it
came; `met`, which of them had a record; and `refused`, what ComfyUI refused of
which job. `WasTrue` says what each status may mean. `expired` is said of three
kinds of jobs: those that are gone, those that came to an end between the two
reads, and those an error answer hid (`Misread`). `canceling` says that ComfyUI
has the interrupt, or refused it. `CancelSettles` therefore speaks of cancels
ComfyUI took and `RecordedIsFound` of records that were there when the request
came: a cancel decides that there is no such job from its two reads alone
(`app.py` 913), so that one recorded meanwhile may be a 404 if it is over or was
hidden. Without these exceptions both fail, against what the documents say (What
the code does here). A cancelled pending job is in neither place, so its cancel
reports `expired` and not `canceled`; and a GET after a cancel shows `running`
again until the interrupt lands.

## Paths, and the gate before the handlers

`PathRules` has the two classifiers as operators: a path is the sequence of
what its slashes separate, so that empty and dot segments, a leading slash and
the `models/` prefix keep their meaning. `Links` says where the directory of a
model root really leads.

`RequestGate` starts a server from a command line (`RunForeground`, or `Start`
and the `run` its child is) and sends one request through the middlewares in
the order of `cli.py` 151-157: `CorsMiddleware`, `OriginOnlyMiddleware`,
`BearerAuthMiddleware`, `Handler`. Each either answers (`Stop`) or passes on.
`stashed` is the Origin the first one notes, by which `attach_cors_prepare` puts
headers on every answer of the request, errors included.

Two details the properties spell out. `models//` is accepted as an input whose
name is `/`. And the guard, which leaves the port out of the comparison if one
side has none (`middleware.py` 26), refuses the same client at an IPv6
address: the side that loses its port loses its brackets too.

## Placement

Uploads run in processes; one process serves one placement at a time, since
there is no `await` in it, and several proxies on one ComfyUI interleave at
every call. `file` is what is at each destination, `tmp` what is at the
temporary name of each destination and pid.

| action | code |
|---|---|
| `Accept`, `Refuse` | up to `resolve_placement_path` and its look at the destination |
| `OpenTmp`, `WriteTmp` | `write_bytes`, which truncates first |
| `Gate`, `Conflict` | the O_EXCL open, and `FileExistsError` |
| `Replace` | `os.replace` of whatever is at the temporary name |
| `WriteFails` | any other OSError: `finally` unlinks, 500 |
| `Record`, `RecordFails` | `assets.add` |
| `Crash` | the process dies and one with a free pid takes its place |
| `Touch` | a user copies a file in, or removes one |

`PlacementContract` is a store: a file lands whole, in one step, where nothing
is, and is confirmed after that. An empty destination counts as none there
(`Seen`). `LeftoversHaveCause` says what the contract cannot: where a destination
is empty and nobody is about to fill it, an upload to it failed or was lost; where
a temporary file has no writer, its upload was lost in a crash. What empties a
destination in the model is a crash or a refused rename after the gate; the
property does not tell these from other failures of an upload to the same place.
The empty file then blocks the name until somebody removes it, and so does the
placed file of a deleted asset.

Three assumptions. The unlinks of the temporary file (`security.py` 225, 228) do
not fail. Live processes have different pids: two containers that share
the directory and the pid would share the temporary name. And the user does not
write to a destination between gate and rename, when it looks empty: what is
written there is replaced.

## Supervisor

Commands read and write one state file, look at processes and at one address,
and may overlap. A pid is free, a program of others, a proxy that boots, serves
or drains, or a zombie that waits for its parent to look.

| action | code |
|---|---|
| `Begin` | `main` calls start, stop or status |
| `ReadState`, `PidAlive`, `PidCmdline`, `NotOurs` | `read_state`, `_pid_is_ours` and the branch on it |
| `PortCheck`, `Spawn`, `Wait`, `Probe` | start: the address is free, `Popen`, `_wait_port` |
| `Truncate`, `Write` | `write_text`, in two steps: a reader between them finds no state |
| `Terminate`, `Poll`, `Kill` | `_terminate` |
| `Clear` | `_clear_state` |
| `Killed` | a command dies; a server it launched lives on |
| `Boot`, `CloseListener`, `Exit`, `OtherRuns`, `OtherBinds` | the processes (external) |

History: `raced`, the starts during whose launch somebody else took the address,
and `orderly`, no command was killed and no two starts or stops overlapped.
What happens without `orderly`, all of it in the model: a start killed between
`Popen` and the write leaves a server nobody knows; a stop clears a record an
overlapping start has just written; two starts that both found the address
free both report success, since the one whose child lost sees the other's
listener. The docstring (`service.py` 11-13) says a foreign listener is "never"
mistaken so; `MistakenOnlyAfterRace` is what is left of it. Also in the model:
`start` terminates by pid a child `poll()` has already reaped, and a `ps` that
prints nothing counts as the proxy (`CmdlineReadable` FALSE is a system without
`ps`).

## What TLC checks

All runs set `CHECK_DEADLOCK FALSE`: a finite set of requests or commands is
served and then nothing is left to do.

| run | bounds | shows |
|---|---|---|
| submission_durable | 3 submissions, 3 keys, cap 1, reload window 1, 2 crashes, 1 SQLite error | types; single use (`NoDoubleSubmit`) and its inductive form (`ClaimsProtectOpenKeys`); 201 is never lost; no ghost records; a held key has a claimant that was not definitely rejected; the cap is exceeded by faults only |
| submission_memory | 4 submissions, 3 keys, cap 2, 1 crash, no store | eviction takes no claim unless the cap's worth of younger ones remain |
| submission_contract | 3 submissions, 2 keys, cap 1, 1 crash, 1 error, fair | refinement of `SubmissionContract`; every submission under way ends |
| events_safety | 2 streams of 1 job, 2 outputs, cap 1 | cap, complete success, consistent statuses, one verdict |
| events_end | 2 streams, 1 output, no chatter, sockets stay open, headers may suspend, fair | streams of a finished job end; no output twice; slots |
| assets | 4 requests, 2 contents, catalog ids, 1 crash, 1 SQLite error | a hash leads to a live asset of its content (`IndexSound`); answered ids last; deleted assets stay deleted; memory and table hold the same assets, but for busy and reissued ids |
| jobs | 3 jobs, limits 1 and 2, scan cap 2, 1 crash, one request of any kind, 1 error answer | a status was true, or hidden by an error answer, or refused (`ReportsWereTrue`); a list holds the newest matches, in order, or says it stopped looking; a cancel that was taken settles; a job recorded before the request is never a 404 |
| gate | all command lines of 2 hosts, 2 tokens, 3 origin lists; some 1,350 requests; paths of up to 4 segments | what reaches a handler, who gets CORS headers, who is turned away, what is served beyond loopback, the classifiers |
| placement | 3 uploads, 2 processes, 3 pids, 2 crashes, 5 paths of which 2 are one place | refinement of `PlacementContract`; whole files only; leftovers have a cause |
| supervisor | 2 commands, 3 pids, 1 round of waiting, fair | servers are known, mistakes take a race, commands end, types |
| events_false_expired, assets_hash_split | as small as shows it | the findings below |

Why the bounds are enough. Two submissions with one key are needed for a double
submit and a third, with another key, to evict it; a cap of one makes every
second claim evict, a third key makes `trim` delete something `DELETE` did not;
two crashes make a reload of what a crash left half done crash again. A window
of one job puts the second one outside. Two streams contend for a slot, and for
the client id of one job; two outputs tell "some" from "all". Larger caps only
put more claims between two that matter. In the index two requests race for one
hash, a third deletes what the first added, and a fourth meets what is left; the
second content tells a slot that leads to the wrong asset from an empty one. A
list of three jobs under a cap of two can be full, cut off or complete; failed
jobs are left out of `jobs` since they are read as succeeded ones are. At most
one job is lost by ComfyUI, one is interrupted, and one question or cancel is
answered with an error, and two of these in one behaviour (`Bounds`): each is an
exception some property makes, and one is enough to tell a job it is made for
from those it is not. A restart is followed where it leaves at least two records;
without any the proxy is where its first start left it, with jobs at ComfyUI it has
no record of. In `placement` two uploads race, a third comes after a crash, and
the third pid lets a process come back under its own pid or another. In
`supervisor` two commands are a race, or a stop after a start; the third pid lets
a server live on while its old pid goes to others.

Fairness. `submission_contract` assumes that ComfyUI answers a prompt it received
and that the event loop resumes a handler whose answer is there; it does not
assume that connections fail, that the process restarts, or that anything
arrives. `events_end` assumes that ComfyUI answers reads, announces the end of
a job and accepts or refuses a connection, that the loop resumes what is ready,
and that time passes. It does not assume that clients disconnect. With other
traffic on the socket the same property fails, see below. `supervisor` assumes
only that a command that runs is scheduled: `CommandsEnd` asks nothing of the
processes it waits for.

### What the violations show

* **events_false_expired** - a job that ends between the reads of /history and
  /queue is in neither and is reported `expired`, a terminal status, on which
  the stream ends. GET /jobs/{id} and GET /jobs use the same two reads.
* **assets_hash_split** - a delete empties the tables in a thread and memory
  afterwards. An upload of the same content that comes back from ComfyUI in
  between takes the slot in the table and not in memory, where the dying asset
  still has it. Afterwards memory has no slot for a content it has an asset of,
  and deduplicates it no more until a restart. (If ComfyUI gave the upload the id
  of the deleted asset, as it may with a catalog, the delete takes the new
  record out of memory and leaves its row. `RecordsAgree` leaves out these ids,
  `Reissued`.)

### What the code does here

Seen in the models, and the reason some properties say "but for":

* A key evicted during its POST and claimed again by another submission is given
  back by the first one's rejection (`_release_idempotency` goes by the key
  alone), though `spec/openapi.yaml` line 334 has a claim released only by the
  rejection of its submission. It takes as many claims as the cap (10,000)
  during one POST. `forgotten` is the key's mark from its eviction on.
* A stream that missed the terminal message looks again only when a receive
  times out, and every message restarts the timeout: with other traffic
  (`Chatter`) it may never end.
* When the socket closes early (`WsCloses`) the poll loop starts with an empty
  `seen` and repeats outputs, against the comment at `realtime.py` 163; `OutputsOnce`
  holds where it stays open.
* `AssetStore.add` changes memory before the table. If the table write raises, the
  retry after the 500 is answered with the id of a record no table holds, which
  a restart forgets. This is why `AnsweredAssetSurvives` is `IdsSurvive` as long
  as no SQLite call has raised.
* ComfyUI may answer a cancel with an error status (it has no such route, or fails).
  Nobody looks at the status (`app.py` 917), so the caller gets 200 with the job as
  it is: `queued` if it waits, where `spec/openapi.yaml` 514-518 has `canceling` or
  a terminal status. A job that runs is said to be `canceling` though nothing will
  interrupt it.
* A read that is answered with an error status hides a job, which is then reported
  `expired`, or is a 404, while it waits, runs or has ended (`app.py` 351, 380).
* A cancel of a job without a record looks for it in /history and then in /queue. If
  the job waits during the first read and is over before the second it is in
  neither answer: 404, though ComfyUI knows it (`app.py` 907). After a restart
  without `--state-dir` every job is without a record.
* After a 503 the job may exist, and a retry with the key is told to list the
  jobs (`app.py` 768), where it is not. Outputs follow the terminal status that
  is documented as the last event (`realtime.py` 16). The poll loop ends after
  600 seconds without a terminal status (`PollDeadline`). The transition from
  queued to running is reported to no stream (`spec/openapi.yaml` 472). A
  duplicate upload with `expires_in` gets the asset as it is, whenever that
  expires.

## What is proved

`SubmissionProofs`, `SubmissionIndexProofs`, `JobEventsProofs`, `JobStatusProofs`,
`AssetIndexProofs`, `RequestGateProofs`, `PlacementProofs` and `SupervisorProofs` hold
proofs TLAPS checks, for every number of requests, keys, streams, jobs, outputs,
contents, uploads, path segments, commands, processes, crashes and errors. Each
invariant, action property and refinement that a passing run checks is a
theorem. Their assumptions are the named ones of the modules: the caps and
bounds are natural numbers (the key cap positive), the placeholders are not
members of the sets they stand outside of, the sets of streams and of outputs
are finite, an output is not named like a status, drawn and catalog ids are
different, a path is a sequence of strings, model roots are not named like a
path segment with a meaning.

* `TypeCorrect`, `KeysProtected`, `SingleUse`. `NoDoubleSubmit` is not inductive:
  it looks at jobs that exist and not at submissions that may still create
  one. `ClaimsProtectOpenKeys` adds those (`OneOpenPerKey`) and says what stops
  a second one: the claim is in memory while the process runs and in the table
  whenever there is one (`OpenKeyHeld`). It needs that no reading of the clock
  lies ahead of it (`IndexOK`), so that a new claim is never the one evicted,
  nor trimmed, and that only a running process has requests waiting
  (`PhaseOK`). The lemmas on `Keep`, `Oldest`, `Evicted` and the three commits of
  a claim carry the argument.
* `RecordsKept`, `NoGhosts`. The two properties of records, each kept together with
  what a request that has not been sent looks like.
* `CapKept`, `RecentClaimsKept`, `HeldKeysCaused`. The index changes in seven ways
  only (`IndexMove`), which carry what follows. No two claims are of one instant,
  in memory or in the table (`Indexed`), so the oldest is one claim and an
  eviction leaves the cap's worth of younger ones. Memory and table together
  exceed the cap by no more than the faults so far (`Capped`): without a fault
  both are written, and each fault adds one claim at most. `Caused` says of each
  claim, in memory or in the table, that the request that made it carries the
  key and was not refused.
* `KeepsContract`. Each action maps to a step of the contract or to a stutter, from
  the two invariants above.
* `SlotsExact`, `CapHolds`. A step either frees the slot of one stream, takes one
  for a stream without, or leaves the set of holders alone; the cap needs that
  no handler is suspended between check and increment unless `PrepareYields`.
* `EventTypes`, `SuccessesComplete`, `StatusesOrdered`, `VerdictsOnce`,
  `OutputsNotRepeated`. The properties speak of the log of a stream, so their
  invariant, `StreamOK`, ties the log to the rest. `LogOK`: its statuses are in
  order, a verdict is its job's outcome, success comes with every output, and
  unless `WsCloses` its outputs are those in `seen`. `PlaceOK`: a stream that was
  told of the end, or looks because of it, has a job that is over, since nothing
  ComfyUI sent can be taken back. `VerdictOK`: a verdict is there exactly if the
  stream has finished with one. `JobsOK` is what ComfyUI's jobs keep.
* `ReportsAreTrue`, `CancelsSettle`, `RecordsAreFound`. What was said of a job must stay
  true while the list goes on, and jobs move: `MovedInv` says they move one way.
  `ReadInv` says what a request knows between its two reads: a job that had ended
  when the request came, and that history, asked and not refused, did not have, is
  gone; one whose cancel ComfyUI took waits no more, and if it runs ComfyUI has the
  interrupt. `RecordsInv` (memory holds nothing the table lacks) and `MetInv` (a
  record that was there when the request came is there while it waits) are what a
  404 needs.
* `ListsHoldNewest`. `WalkInv` relates three sequences: what is left to look at is
  the reverse of a prefix of the records, and `Covers` says that every match among
  those behind the walk is in the list, newest first, unless it moved after the
  request came or an error answer hid it (`HiddenBy`). It holds although records are appended while the list reads.
* `HashLeadsHome`. A slot keeps its first writer, so it stays sound when a second
  asset of the content is added; what could break it is an id given to two
  contents. `IdsFresh` excludes that: a catalog id names its own content, and a
  request that has not added its record has none under its id yet.
* `DeletesLast`. A restart brings back what the table holds and memory has
  forgotten: `DeleteInv` says there is no such drawn id, that the thread has
  emptied the row before memory is touched, and that no request under a deleted
  id has still to add it. It holds with SQLite errors as well.
* `AnswersLast`. A duplicate is answered from memory, so memory must hold nothing the
  table lacks (`TableHasIt`) but what a delete has taken from it, and that must
  have been counted by the time memory drops it (`DeletesCounted`).

* `MemoryIsTable`. Memory and table are written in different steps, by the thread of
  a delete and by the event loop: `Mirrored` names the deletes that are between
  the two, and `MirrorStep` shows that every other step changes both alike, for
  catalog ids too until one was taken away by a delete (`Reissued`).
  `RemovedInv` says that a delete that has emptied its row has counted it.

* `HandlersAreGuarded`, `CorsForAllowed`, `SameHostsPass`, `ExposuresAreMeant`. One
  invariant says for each middleware what a request that waits before it, or
  after the last one, has passed, and what is stashed by then.
* `PathsAgreed`. What the classifiers do with a path of any length, where the run has
  up to four segments. It rests on what `Names` does, which drops segments and
  keeps the order: the n-th position that is kept exists (`NthInSet`, by counting),
  so each name is a segment of the path and none is empty (`NamesAre`). `Names`
  is written with positions since the provers have no definition of
  `SelectSeq`; that both are the same TLC checks on the paths of the run
  (`NamesSelect` in `MCRequestGate`).
* `PlacementContracted`, `LeftoversCaused`. `GateHeld` is the inductive part: from
  the gate to the rename a destination is empty and belongs to one upload, and
  the temporary name of a process holds the bytes of the upload it serves, since
  live pids differ and a process serves one upload. With it `Replace` is the one
  step that lands a file, and every other step is a stutter of the contract, a
  refusal or the user's.
* `TypeCorrect` of `Supervisor` needs `Held`, what a command holds at each step:
  two commands never have the same child, and a child is only held while its
  command runs, so no pid is recycled under it. `OnlyARaceMistakes` adds that
  during a launch the address is free, the child's, or raced (`NotRaced`).
* `ServersAreKnown`. `Known` says where the one start or stop that runs has the
  server at each of its steps (`Tracked`), and that with none running the state
  file names it. A status changes nothing in it, and processes only ever end.

Only model-checked: the three liveness properties, `SubmissionsEnd`, `StreamsEnd` and
`CommandsEnd`. They need fairness and ENABLED, which are out of the prover's
reach.

## What is not modelled

The output asset ids (an HMAC over a reference: what is correct about them is the
hash), the core/ASSET walker (a rewrite of a JSON graph without state or
`await`; a model would repeat it node by node), content streaming (bytes relayed
from /view), the safetensors header check (a set of contents it accepts),
argument parsing, the Windows branches of the supervisor, the generated schemas,
the build scripts, the demo and the tests.

Two proxies on one state directory (the documentation asks for one; a refused
INSERT leaves SQLite's implicit transaction open, which a second process would
notice). Loss of power, which may take back a commit in WAL mode with
`synchronous=NORMAL`. A gateway before ComfyUI that answers an error for a prompt
ComfyUI queued: the code takes any status but 200 as a definite rejection, and
so does the model. Orderly shutdown, which is a crash at an `await`.

## Plan

1. `Submission`, `SubmissionContract`, `SubmissionProofs` - done.
2. `ComfyJob`, `JobEvents`, `JobEventsProofs` - done.
3. `JobStatus`, `JobStatusProofs` - done.
4. `AssetIndex`, `AssetIndexProofs` - done.
5. `Placement`, `PlacementContract`, `PlacementProofs` - done.
6. `Supervisor`, `SupervisorProofs` - done.
7. `PathRules`, `RequestGate`, `RequestGateProofs` - done.
8. `SubmissionIndexProofs`: the cap, the eviction order, the cause of a held key - done.

Left: what the contracts promise a client, proved of `SubmissionContract` and
`PlacementContract` alone; and what a supervised server keeps beyond the orderly
case, where only `MistakenOnlyAfterRace` speaks.

The parts that keep state across an `await` or a crash were taken first, then
those that share the file system and processes with others, then the pure ones.
