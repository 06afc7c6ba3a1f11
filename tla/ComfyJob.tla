------------------------------ MODULE ComfyJob ------------------------------
(***************************************************************************)
(* External: a ComfyUI job as the proxy sees it, after the stand-in server *)
(* demo/fake_comfyui.py and the comments in app.py and realtime.py.        *)
(*                                                                         *)
(* /queue lists a job while it is pending or running, /history from the    *)
(* moment it is over, never both and, until ComfyUI forgets it, never      *)
(* neither.  The two are separate endpoints.                               *)
(***************************************************************************)
CONSTANT Jobs

VARIABLES place,    \* where ComfyUI lists each job
          outcome   \* how it ended

comfy == <<place, outcome>>

Outcomes == {"succeeded", "failed", "canceled"}

ComfyTypeOK ==
  /\ place \in [Jobs -> {"pending", "running", "history", "gone"}]
  /\ outcome \in [Jobs -> Outcomes \cup {"none"}]

ComfyInit == place = [j \in Jobs |-> "pending"] /\ outcome = [j \in Jobs |-> "none"]

Start(j) == /\ place[j] = "pending"
            /\ place' = [place EXCEPT ![j] = "running"]
            /\ outcome' = outcome

\* The job succeeds, fails, or is interrupted by a cancel.
Commit(j) == /\ place[j] = "running"
             /\ place' = [place EXCEPT ![j] = "history"]
             /\ \E o \in Outcomes : outcome' = [outcome EXCEPT ![j] = o]

\* A cancel takes a pending job off the queue; history drops its oldest entry;
\* a restart of ComfyUI loses the queue and the history.
Lose(j) == /\ place[j] # "gone"
           /\ place' = [place EXCEPT ![j] = "gone"]
           /\ outcome' = outcome

ComfyStep == \E j \in Jobs : Start(j) \/ Commit(j) \/ Lose(j)
=============================================================================
