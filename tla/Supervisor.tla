----------------------------- MODULE Supervisor ------------------------------
(***************************************************************************)
(* start, stop and status of the background proxy (service.py): commands   *)
(* that may run at the same time and share one state file, among processes *)
(* whose ids are used again.  All commands name one address.               *)
(*                                                                         *)
(* A command is interleaved with everything else at each look at the state *)
(* file, at a process or at the port, and at each change of them.          *)
(***************************************************************************)
EXTENDS Naturals

CONSTANTS Commands, Pids, None, Torn,
          MaxRounds,         \* turns of a waiting loop
          CmdlineReadable    \* ps shows the command line of a process

ASSUME SupervisorAssumption == /\ MaxRounds \in Nat /\ CmdlineReadable \in BOOLEAN
                               /\ None \notin Pids \cup {Torn} /\ Torn \notin Pids

VARIABLES process,    \* what each pid is; a zombie waits for its parent to look
          bound,      \* who listens on the address
          stateFile,  \* the pid in proxy.json, Torn while it is half written
          kind, pc,   \* what a command is and how far
          target,     \* the pid it deals with
          child,      \* the child its Popen has not reaped
          rounds, answer,
          raced,      \* starts during whose launch somebody else took the address
          orderly     \* no command was killed, no two starts or stops overlapped

system == <<process, bound>>
command == <<kind, pc, target, child, rounds, answer>>
ghosts == <<raced, orderly>>
vars == <<system, stateFile, command, ghosts>>

Proxy == {"booting", "serving", "draining"}
Steps == {"read", "alive", "cmdline", "port", "spawn", "wait", "probe", "truncate", "write",
          "term", "poll", "kill", "clear"}
Active(c) == pc[c] \in Steps
Launching(c) == pc[c] \in {"spawn", "wait", "probe"}

Init == /\ process \in [Pids -> {"free", "other"}] /\ bound = None /\ stateFile = None
        /\ kind = [c \in Commands |-> None] /\ pc = [c \in Commands |-> "idle"]
        /\ target = [c \in Commands |-> None] /\ child = [c \in Commands |-> None]
        /\ rounds = [c \in Commands |-> 0] /\ answer = [c \in Commands |-> None]
        /\ raced = {} /\ orderly = TRUE

-----------------------------------------------------------------------------
(* Processes *)

\* i ends: a zombie if its parent runs and has not reaped it.  A socket goes with it.
Ended(i, parents) ==
  [process EXCEPT ![i] = IF \E c \in parents : child[c] = i THEN "zombie" ELSE "free"]
Released(i) == IF bound = i THEN None ELSE bound
Ends(i) == process' = Ended(i, {c \in Commands : Active(c)}) /\ bound' = Released(i)

TakeAddress(i) == /\ bound' = i
                  /\ raced' = raced \cup {c \in Commands : Launching(c) /\ child[c] # i}

\* web.run_app binds, or fails on an occupied address.
Boot(i) == /\ process[i] = "booting"
           /\ IF bound = None THEN TakeAddress(i) /\ process' = [process EXCEPT ![i] = "serving"]
              ELSE Ends(i) /\ UNCHANGED raced

\* After SIGTERM the listener goes first, the process later.
CloseListener(i) == /\ process[i] = "draining" /\ bound = i /\ bound' = None
                    /\ UNCHANGED <<process, raced>>

Exit(i) == process[i] \in Proxy \cup {"other"} /\ Ends(i) /\ UNCHANGED raced

OtherRuns(i) == /\ process[i] = "free" /\ process' = [process EXCEPT ![i] = "other"]
                /\ UNCHANGED <<bound, raced>>
OtherBinds(i) == process[i] = "other" /\ bound = None /\ TakeAddress(i) /\ UNCHANGED process

System(i) == /\ Boot(i) \/ CloseListener(i) \/ Exit(i) \/ OtherRuns(i) \/ OtherBinds(i)
             /\ UNCHANGED <<stateFile, command, orderly>>

-----------------------------------------------------------------------------
(* Commands *)

Only(c, k) == k = "status" \/ \A d \in Commands \ {c} : Active(d) => kind[d] = "status"

Begin(c, k) == /\ pc[c] = "idle" /\ pc' = [pc EXCEPT ![c] = "read"]
               /\ kind' = [kind EXCEPT ![c] = k] /\ orderly' = (orderly /\ Only(c, k))
               /\ UNCHANGED <<system, stateFile, target, child, rounds, answer, raced>>

Goto(c, s) == pc' = [pc EXCEPT ![c] = s] /\ UNCHANGED <<kind, answer, ghosts>>
Same(c) == UNCHANGED <<target, child, rounds>>

\* A process that ends leaves its children to init, which reaps them.
Abandon(c, procs) ==
  /\ process' = [i \in Pids |-> IF child[c] = i /\ procs[i] = "zombie" THEN "free" ELSE procs[i]]
  /\ child' = [child EXCEPT ![c] = None]

AnswerWith(c, a, procs) == /\ pc' = [pc EXCEPT ![c] = "done"] /\ answer' = [answer EXCEPT ![c] = a]
                           /\ Abandon(c, procs) /\ UNCHANGED <<kind, target, rounds, ghosts>>

\* No state, or a pid that is not this proxy.
NotOurs(c) == /\ UNCHANGED bound
              /\ CASE kind[c] = "start" -> Goto(c, "port") /\ Same(c) /\ UNCHANGED process
                   [] kind[c] = "stop" -> Goto(c, "clear") /\ Same(c) /\ UNCHANGED process
                   [] kind[c] = "status" -> AnswerWith(c, "not running", process)

\* read_state: what is not well-formed is no state.
ReadState(c) == /\ pc[c] = "read" /\ UNCHANGED stateFile
                /\ IF stateFile \in Pids
                   THEN /\ Goto(c, "alive") /\ target' = [target EXCEPT ![c] = stateFile]
                        /\ UNCHANGED <<system, child, rounds>>
                   ELSE NotOurs(c)

\* _pid_is_ours: _pid_alive, then ps, which prints nothing if the process is gone by then.
PidAlive(c) == /\ pc[c] = "alive" /\ UNCHANGED stateFile
               /\ IF process[target[c]] = "free" THEN NotOurs(c)
                  ELSE Goto(c, "cmdline") /\ Same(c) /\ UNCHANGED system

PidCmdline(c) ==
  /\ pc[c] = "cmdline" /\ UNCHANGED stateFile
  /\ IF process[target[c]] \in Proxy \cup {"free"} \/ ~CmdlineReadable
     THEN IF kind[c] = "stop" THEN Goto(c, "term") /\ Same(c) /\ UNCHANGED system
          ELSE AnswerWith(c, "running", process) /\ UNCHANGED bound
     ELSE NotOurs(c)

\* Mutant: the address is not looked at before the launch.
PortCheck_Skipped(c) == /\ pc[c] = "port" /\ Goto(c, "spawn")
                        /\ Same(c) /\ UNCHANGED <<system, stateFile>>

PortCheck(c) == /\ pc[c] = "port" /\ UNCHANGED <<bound, stateFile>>
                /\ IF bound = None THEN Goto(c, "spawn") /\ Same(c) /\ UNCHANGED process
                   ELSE AnswerWith(c, "in use", process)

\* Popen, which fails if no process can be made.
Spawn(c) ==
  /\ pc[c] = "spawn" /\ UNCHANGED <<bound, stateFile>>
  /\ IF \E i \in Pids : process[i] = "free"
     THEN \E i \in Pids : /\ process[i] = "free" /\ process' = [process EXCEPT ![i] = "booting"]
                          /\ target' = [target EXCEPT ![c] = i] /\ child' = [child EXCEPT ![c] = i]
                          /\ Goto(c, "wait") /\ UNCHANGED rounds
     ELSE AnswerWith(c, "failed", process)

\* Mutant: the child that is not ready in time is left alone.
Wait_LeavesChild(c) ==
  /\ pc[c] = "wait" /\ UNCHANGED <<bound, stateFile>>
  /\ IF rounds[c] < MaxRounds /\ process[child[c]] # "zombie"
     THEN Goto(c, "probe") /\ Same(c) /\ UNCHANGED process
     ELSE AnswerWith(c, "failed", process)

\* Mutant: the exit of the child is seen, and its id still taken for the child's.
Wait_KeepsChild(c) ==
  /\ pc[c] = "wait" /\ UNCHANGED <<bound, stateFile, target, child>>
  /\ IF process[child[c]] = "zombie"
     THEN process' = [process EXCEPT ![child[c]] = "free"] /\ Goto(c, "term") /\ UNCHANGED rounds
     ELSE UNCHANGED <<process, rounds>> /\ \E s \in {"probe", "term"} : Goto(c, s)

\* _wait_port: the deadline; the child's exit, which reaps it; and the address, open
\* to whoever listens.  The deadline may come in any round, and comes in the last.
Wait(c) ==
  /\ pc[c] = "wait" /\ UNCHANGED <<bound, stateFile, target>>
  /\ \/ Goto(c, "term") /\ rounds' = [rounds EXCEPT ![c] = 0] /\ UNCHANGED <<process, child>>
     \/ /\ rounds[c] < MaxRounds /\ process[child[c]] = "zombie"
        /\ process' = [process EXCEPT ![child[c]] = "free"] /\ child' = [child EXCEPT ![c] = None]
        /\ Goto(c, "term") /\ rounds' = [rounds EXCEPT ![c] = 0]
     \/ /\ rounds[c] < MaxRounds /\ process[child[c]] # "zombie"
        /\ Goto(c, "probe") /\ UNCHANGED <<process, child, rounds>>

Probe(c) == /\ pc[c] = "probe" /\ UNCHANGED <<system, stateFile, target, child>>
            /\ IF bound # None THEN Goto(c, "truncate") /\ UNCHANGED rounds
               ELSE Goto(c, "wait") /\ rounds' = [rounds EXCEPT ![c] = @ + 1]

\* write_text: truncate, then write; what was unlinked in between stays so, and two
\* writers may leave what neither wrote.
Truncate(c) == /\ pc[c] = "truncate" /\ Goto(c, "write") /\ stateFile' = Torn
               /\ Same(c) /\ UNCHANGED system
Write(c) == /\ pc[c] = "write" /\ UNCHANGED bound
            /\ stateFile' \in CASE stateFile = Torn -> {target[c]}
                                [] stateFile = None -> {None}
                                [] OTHER -> {target[c], stateFile, Torn}
            /\ AnswerWith(c, "started", process)

\* A stop goes on to clear the state file, a start reports that it failed.
AfterTerminate(c, procs) ==
  IF kind[c] = "stop" THEN Goto(c, "clear") /\ Same(c) /\ process' = procs
  ELSE AnswerWith(c, "failed", procs)

\* SIGTERM: a server drains, any other process ends.  Whose pid it is is not looked at.
Terminate(c) ==
  LET i == target[c] IN
  /\ pc[c] = "term" /\ UNCHANGED stateFile
  /\ IF process[i] = "free" THEN AfterTerminate(c, process) /\ UNCHANGED bound
     ELSE /\ Goto(c, "poll") /\ rounds' = [rounds EXCEPT ![c] = 0] /\ UNCHANGED <<target, child>>
          /\ CASE process[i] = "serving" -> /\ process' = [process EXCEPT ![i] = "draining"]
                                           /\ UNCHANGED bound
               [] process[i] \in {"booting", "other"} -> Ends(i)
               [] OTHER -> UNCHANGED system

\* Mutant: no end of waiting for a graceful stop.
Poll_ForEver(c) ==
  /\ pc[c] = "poll" /\ UNCHANGED <<bound, stateFile>>
  /\ IF process[target[c]] = "free" THEN AfterTerminate(c, process)
     ELSE Goto(c, "poll") /\ Same(c) /\ UNCHANGED process

\* A zombie counts as alive.
Poll(c) ==
  /\ pc[c] = "poll" /\ UNCHANGED <<bound, stateFile>>
  /\ CASE process[target[c]] = "free" -> AfterTerminate(c, process)
       [] process[target[c]] # "free" /\ rounds[c] < MaxRounds ->
            /\ Goto(c, "poll") /\ rounds' = [rounds EXCEPT ![c] = @ + 1]
            /\ UNCHANGED <<process, target, child>>
       [] OTHER -> Goto(c, "kill") /\ Same(c) /\ UNCHANGED process

\* SIGKILL.
Kill(c) ==
  LET i == target[c] IN
  /\ pc[c] = "kill" /\ UNCHANGED stateFile
  /\ IF process[i] \in {"free", "zombie"} THEN AfterTerminate(c, process) /\ UNCHANGED bound
     ELSE AfterTerminate(c, Ended(i, {d \in Commands : Active(d)})) /\ bound' = Released(i)

\* _clear_state, whatever the file says by now.
Clear(c) == /\ pc[c] = "clear" /\ stateFile' = None /\ UNCHANGED bound
            /\ AnswerWith(c, "stopped", process)

Step(c) == \/ ReadState(c) \/ PidAlive(c) \/ PidCmdline(c) \/ PortCheck(c) \/ Spawn(c)
           \/ Wait(c) \/ Probe(c) \/ Truncate(c) \/ Write(c)
           \/ Terminate(c) \/ Poll(c) \/ Kill(c) \/ Clear(c)

\* A command is killed; the server it launched is detached and lives on.
Killed(c) == /\ Active(c) /\ pc' = [pc EXCEPT ![c] = "killed"] /\ orderly' = FALSE
             /\ Abandon(c, process)
             /\ UNCHANGED <<bound, stateFile, kind, target, rounds, answer, raced>>

Next == \/ \E c \in Commands : \/ Step(c) \/ Killed(c)
                               \/ \E k \in {"start", "stop", "status"} : Begin(c, k)
        \/ \E i \in Pids : System(i)

Spec == Init /\ [][Next]_vars

\* A command that runs is scheduled; nothing is asked of the other processes.
FairSpec == Spec /\ \A c \in Commands : WF_vars(Step(c))

-----------------------------------------------------------------------------
(* Properties *)

\* Who listens is alive and may listen; a child is not recycled before it is reaped.
TypeOK ==
  /\ process \in [Pids -> Proxy \cup {"free", "other", "zombie"}]
  /\ bound \in Pids \cup {None} /\ stateFile \in Pids \cup {None, Torn}
  /\ bound # None => process[bound] \in {"serving", "draining", "other"}
  /\ pc \in [Commands -> Steps \cup {"idle", "done", "killed"}]
  /\ target \in [Commands -> Pids \cup {None}] /\ child \in [Commands -> Pids \cup {None}]
  /\ \A c \in Commands : child[c] # None => process[child[c]] \notin {"free", "other"}
  /\ rounds \in [Commands -> 0..MaxRounds]

\* No server is out of reach of "stop": while no command is killed and no start or
\* stop overlaps another one, a server is in the state file or is the child of a start
\* that still runs, and there are no two.
ServerIsKnown ==
  LET live == {i \in Pids : process[i] \in {"booting", "serving"}} IN
  orderly => /\ \A i \in live : stateFile = i \/ \E c \in Commands : Active(c) /\ child[c] = i
             /\ \A i, j \in live : i = j

\* A start takes the listener of another process for its own child only if that process
\* took the address after the start had found it free.  The docstring (service.py:11)
\* says never; the address is looked at before the launch, and not held.
MistakenOnlyAfterRace ==
  [][\A c \in Commands : (pc[c] = "probe" /\ pc'[c] = "truncate") =>
       bound = child[c] \/ c \in raced]_vars

\* Every command that is not killed comes to its end, whatever the processes do.
CommandsEnd == \A c \in Commands : Active(c) ~> ~Active(c)
=============================================================================
