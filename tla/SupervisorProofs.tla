-------------------------- MODULE SupervisorProofs ---------------------------
(***************************************************************************)
(* For any number of commands and pids: the types, that a start takes a    *)
(* foreign listener for its own only after a race, and that no server gets *)
(* out of the reach of stop while commands run one at a time to their end. *)
(***************************************************************************)
EXTENDS Supervisor, TLAPS

\* What a command holds at each of its steps.
Held ==
  /\ kind \in [Commands -> {"start", "stop", "status", None}]
  /\ \A c \in Commands :
       /\ Active(c) => kind[c] \in {"start", "stop", "status"}
       /\ pc[c] \in {"port", "spawn", "wait", "probe", "truncate", "write"} => kind[c] = "start"
       /\ pc[c] = "clear" => kind[c] = "stop"
       /\ pc[c] \in {"term", "poll", "kill"} => kind[c] \in {"start", "stop"}
       /\ pc[c] \in {"alive", "cmdline", "wait", "probe", "truncate", "write", "term", "poll", "kill"} =>
            target[c] \in Pids
       /\ pc[c] \in {"wait", "probe", "truncate", "write"} => child[c] = target[c]
       /\ pc[c] = "probe" => rounds[c] < MaxRounds
       /\ child[c] # None =>
            /\ pc[c] \in {"wait", "probe", "truncate", "write", "term", "poll", "kill"}
            /\ kind[c] = "start" /\ child[c] = target[c]
  /\ \A c, d \in Commands : (child[c] = child[d] /\ child[c] # None) => c = d

IInv == TypeOK /\ Held

LEMMA InitIInv == Init => IInv
  BY SupervisorAssumption
  DEF Init, IInv, TypeOK, Held, Active, Steps, Proxy, SupervisorAssumption

-----------------------------------------------------------------------------
(* What the parts of a step keep *)

\* What may become of the processes and the address in a step.
Kinds == Proxy \cup {"free", "other", "zombie"}
SystemOK(procs, listener) ==
  /\ procs \in [Pids -> Kinds] /\ listener \in Pids \cup {None}
  /\ listener # None => procs[listener] \in {"serving", "draining", "other"}
  /\ \A d \in Commands : child[d] # None => procs[child[d]] \notin {"free", "other"}

LEMMA SystemStays == ASSUME IInv PROVE SystemOK(process, bound)
  BY DEF IInv, TypeOK, SystemOK, Kinds

LEMMA EndedOK ==
  ASSUME IInv, NEW i \in Pids
  PROVE  SystemOK(Ended(i, {d \in Commands : Active(d)}), Released(i))
<1>1. \A d \in Commands : child[d] # None => Active(d)
  BY DEF IInv, Held, Active, Steps
<1> QED BY <1>1 DEF IInv, TypeOK, SystemOK, Kinds, Proxy, Ended, Released

LEMMA AnswerIInv ==
  ASSUME IInv, NEW c \in Commands, NEW a, NEW procs, SystemOK(procs, bound'),
         AnswerWith(c, a, procs), stateFile' \in Pids \cup {None, Torn}
  PROVE  IInv'
<1>1. /\ pc' = [pc EXCEPT ![c] = "done"] /\ child' = [child EXCEPT ![c] = None]
      /\ UNCHANGED <<kind, target, rounds>>
      /\ process' = [i \in Pids |-> IF child[c] = i /\ procs[i] = "zombie" THEN "free" ELSE procs[i]]
  BY DEF AnswerWith, Abandon
<1>2. Held'
  BY <1>1 DEF IInv, TypeOK, Held, Active, Steps
<1>3. process' \in [Pids -> Kinds]
  BY <1>1 DEF SystemOK, Kinds
<1>4. bound' # None => process'[bound'] \in {"serving", "draining", "other"}
  BY <1>1 DEF SystemOK
<1>5. \A d \in Commands : child'[d] # None => process'[child'[d]] \notin {"free", "other"}
  BY <1>1 DEF SystemOK, IInv, TypeOK, Held
<1>6. TypeOK'
  BY <1>1, <1>3, <1>4, <1>5 DEF IInv, TypeOK, SystemOK, Kinds
<1> QED BY <1>2, <1>6 DEF IInv

\* What a command must hold to go on to step s.
Ready(c, s) ==
  /\ s \in {"port", "spawn", "probe", "wait", "truncate", "write"} => kind[c] = "start"
  /\ s = "clear" => kind[c] = "stop"
  /\ s \in {"term", "poll", "kill"} => kind[c] \in {"start", "stop"}
  /\ s \in {"alive", "cmdline", "wait", "probe", "truncate", "write", "term", "poll", "kill"} =>
       target'[c] \in Pids
  /\ s \in {"wait", "probe", "truncate", "write"} => child[c] = target'[c]
  /\ s = "probe" => rounds'[c] < MaxRounds
  /\ child[c] # None =>
       /\ s \in {"wait", "probe", "truncate", "write", "term", "poll", "kill"}
       /\ kind[c] = "start" /\ child[c] = target'[c]

LEMMA GotoIInv ==
  ASSUME IInv, NEW c \in Commands, NEW s \in Steps, Active(c), Goto(c, s), Ready(c, s),
         UNCHANGED child, SystemOK(process', bound'), stateFile' \in Pids \cup {None, Torn},
         \E t \in Pids \cup {None} : target' = [target EXCEPT ![c] = t],
         rounds' \in [Commands -> 0..MaxRounds], \A d \in Commands \ {c} : rounds'[d] = rounds[d]
  PROVE  IInv'
<1>1. pc' = [pc EXCEPT ![c] = s] /\ UNCHANGED <<kind, child>>
  BY DEF Goto
<1>2. TypeOK'
  BY <1>1 DEF IInv, TypeOK, SystemOK, Kinds
<1>3. Held'
  BY <1>1 DEF IInv, TypeOK, Held, Active, Ready, Steps
<1> QED BY <1>2, <1>3 DEF IInv

LEMMA NotOursIInv ==
  ASSUME IInv, NEW c \in Commands, Active(c), child[c] = None, NotOurs(c), UNCHANGED stateFile
  PROVE  IInv'
<1>0. kind[c] \in {"start", "stop", "status"} /\ SystemOK(process, bound) /\ bound' = bound
      /\ stateFile' \in Pids \cup {None, Torn}
  BY SystemStays DEF IInv, TypeOK, Held, NotOurs
<1>1. CASE kind[c] \in {"start", "stop"}
  <2>1. PICK s \in {"port", "clear"} : Goto(c, s) /\ (s = "port" <=> kind[c] = "start")
    BY <1>1 DEF NotOurs
  <2>2. UNCHANGED <<process, target, child, rounds>>
    BY <1>1 DEF NotOurs, Same
  <2>3. Ready(c, s) /\ s \in Steps
    BY <1>1, <2>1 DEF Ready, Steps
  <2>4. /\ SystemOK(process', bound') /\ rounds' \in [Commands -> 0..MaxRounds]
        /\ \E t \in Pids \cup {None} : target' = [target EXCEPT ![c] = t]
    BY <1>0, <2>2 DEF IInv, TypeOK
  <2> QED BY <1>0, <2>1, <2>2, <2>3, <2>4, GotoIInv
<1>2. CASE kind[c] = "status"
  BY <1>0, <1>2, AnswerIInv DEF NotOurs
<1> QED BY <1>0, <1>1, <1>2

-----------------------------------------------------------------------------
(* The steps *)

\* A step that only goes on, and leaves everything else alone.
LEMMA PlainGoto ==
  ASSUME IInv, NEW c \in Commands, NEW s \in Steps, Active(c), Goto(c, s), Same(c),
         UNCHANGED system, stateFile' \in Pids \cup {None, Torn},
         target' = target => Ready(c, s)
  PROVE  IInv'
<1>1. /\ SystemOK(process', bound') /\ UNCHANGED <<child, rounds>>
      /\ rounds' \in [Commands -> 0..MaxRounds]
      /\ \E t \in Pids \cup {None} : target' = [target EXCEPT ![c] = t]
      /\ Ready(c, s)
  BY SystemStays DEF IInv, TypeOK, Same, system
<1> QED BY <1>1, GotoIInv

LEMMA AnswerAsIs ==
  ASSUME IInv, NEW c \in Commands, NEW a, AnswerWith(c, a, process), UNCHANGED bound,
         stateFile' \in Pids \cup {None, Torn}
  PROVE  IInv'
  BY SystemStays, AnswerIInv

LEMMA ReadIInv == ASSUME IInv, NEW c \in Commands, ReadState(c) PROVE IInv'
<1>0. /\ Active(c) /\ child[c] = None /\ stateFile' = stateFile
      /\ stateFile \in Pids \cup {None, Torn}
  BY DEF ReadState, IInv, TypeOK, Held, Active, Steps
<1>1. CASE stateFile \in Pids
  <2>1. /\ Goto(c, "alive") /\ target' = [target EXCEPT ![c] = stateFile]
        /\ UNCHANGED <<system, child, rounds>>
    BY <1>1 DEF ReadState
  <2>2. Ready(c, "alive") /\ "alive" \in Steps /\ SystemOK(process', bound')
        /\ rounds' \in [Commands -> 0..MaxRounds]
    BY <1>0, <1>1, <2>1, SystemStays DEF Ready, Steps, IInv, TypeOK, system
  <2> QED BY <1>0, <1>1, <2>1, <2>2, GotoIInv
<1>2. CASE stateFile \notin Pids
  BY <1>0, <1>2, NotOursIInv DEF ReadState
<1> QED BY <1>1, <1>2

LEMMA AliveIInv == ASSUME IInv, NEW c \in Commands, PidAlive(c) PROVE IInv'
<1>0. /\ Active(c) /\ child[c] = None /\ stateFile' = stateFile /\ target[c] \in Pids
      /\ stateFile \in Pids \cup {None, Torn}
  BY DEF PidAlive, IInv, TypeOK, Held, Active, Steps
<1>1. CASE process[target[c]] = "free"
  BY <1>0, <1>1, NotOursIInv DEF PidAlive
<1>2. CASE process[target[c]] # "free"
  BY <1>0, <1>2, PlainGoto DEF PidAlive, Ready, Steps, IInv, TypeOK
<1> QED BY <1>1, <1>2

LEMMA CmdlineIInv == ASSUME IInv, NEW c \in Commands, PidCmdline(c) PROVE IInv'
<1>0. /\ Active(c) /\ child[c] = None /\ stateFile' = stateFile /\ target[c] \in Pids
      /\ stateFile \in Pids \cup {None, Torn}
  BY DEF PidCmdline, IInv, TypeOK, Held, Active, Steps
<1>1. CASE NotOurs(c)
  BY <1>0, <1>1, NotOursIInv
<1>2. CASE kind[c] = "stop" /\ Goto(c, "term") /\ Same(c) /\ UNCHANGED system
  BY <1>0, <1>2, PlainGoto DEF Ready, Steps, IInv, TypeOK
<1>3. CASE AnswerWith(c, "running", process) /\ UNCHANGED bound
  BY <1>0, <1>3, AnswerAsIs
<1> QED BY <1>1, <1>2, <1>3 DEF PidCmdline

LEMMA PortIInv == ASSUME IInv, NEW c \in Commands, PortCheck(c) PROVE IInv'
<1>0. /\ Active(c) /\ child[c] = None /\ stateFile' = stateFile /\ kind[c] = "start"
      /\ stateFile \in Pids \cup {None, Torn}
  BY DEF PortCheck, IInv, TypeOK, Held, Active, Steps
<1>1. CASE Goto(c, "spawn") /\ Same(c) /\ UNCHANGED system
  BY <1>0, <1>1, PlainGoto DEF Ready, Steps, IInv, TypeOK
<1>2. CASE AnswerWith(c, "in use", process) /\ UNCHANGED bound
  BY <1>0, <1>2, AnswerAsIs
<1> QED BY <1>1, <1>2 DEF PortCheck, system

LEMMA SpawnIInv == ASSUME IInv, NEW c \in Commands, Spawn(c) PROVE IInv'
  BY SupervisorAssumption
  DEF IInv, TypeOK, Held, Active, Steps, Proxy, Spawn, Goto, Same, AnswerWith, Abandon,
      system, ghosts, SupervisorAssumption

LEMMA WaitIInv == ASSUME IInv, NEW c \in Commands, Wait(c) PROVE IInv'
  BY SupervisorAssumption
  DEF IInv, TypeOK, Held, Active, Steps, Proxy, Wait, Goto, Same,
      system, ghosts, SupervisorAssumption

LEMMA ProbeIInv == ASSUME IInv, NEW c \in Commands, Probe(c) PROVE IInv'
<1>0. PICK s \in {"truncate", "wait"} : Goto(c, s)
  BY DEF Probe
<1>1. /\ Active(c) /\ s \in Steps /\ UNCHANGED <<system, target, child>>
      /\ stateFile' \in Pids \cup {None, Torn} /\ kind[c] = "start" /\ pc[c] = "probe"
      /\ target[c] \in Pids /\ child[c] = target[c]
  BY DEF Probe, Active, Steps, IInv, TypeOK, Held
<1>2. Ready(c, s)
  BY <1>1 DEF Ready
<1>3. rounds[c] < MaxRounds
  BY <1>1 DEF IInv, Held
<1>4. rounds' \in [Commands -> 0..MaxRounds] /\ \A d \in Commands \ {c} : rounds'[d] = rounds[d]
  BY <1>3, SupervisorAssumption DEF Probe, IInv, TypeOK, SupervisorAssumption
<1>5. SystemOK(process', bound') /\ \E t \in Pids \cup {None} : target' = [target EXCEPT ![c] = t]
  BY <1>1, SystemStays DEF system, IInv, TypeOK
<1> QED BY <1>0, <1>1, <1>2, <1>4, <1>5, GotoIInv

LEMMA TruncateIInv == ASSUME IInv, NEW c \in Commands, Truncate(c) PROVE IInv'
  BY SupervisorAssumption
  DEF IInv, TypeOK, Held, Active, Steps, Proxy, Truncate, Goto, Same, system, ghosts,
      SupervisorAssumption

LEMMA WriteIInv == ASSUME IInv, NEW c \in Commands, Write(c) PROVE IInv'
<1>1. stateFile' \in Pids \cup {None, Torn}
  BY DEF Write, IInv, TypeOK, Held
<1> QED BY <1>1, AnswerAsIs DEF Write

LEMMA AfterTerminateIInv ==
  ASSUME IInv, NEW c \in Commands, pc[c] \in {"term", "poll", "kill"}, NEW procs,
         SystemOK(procs, bound'), AfterTerminate(c, procs), UNCHANGED stateFile
  PROVE  IInv'
<1>0. Active(c) /\ stateFile' \in Pids \cup {None, Torn} /\ kind[c] \in {"start", "stop"}
  BY DEF IInv, TypeOK, Held, Active, Steps
<1>1. CASE kind[c] = "stop"
  <2>1. /\ Goto(c, "clear") /\ Same(c) /\ process' = procs /\ child[c] = None
    BY <1>1 DEF AfterTerminate, IInv, Held
  <2>2. /\ Ready(c, "clear") /\ "clear" \in Steps /\ rounds' \in [Commands -> 0..MaxRounds]
        /\ UNCHANGED <<child, rounds>> /\ \E t \in Pids \cup {None} : target' = [target EXCEPT ![c] = t]
    BY <1>1, <2>1 DEF Ready, Steps, Same, IInv, TypeOK
  <2> QED BY <1>0, <2>1, <2>2, GotoIInv
<1>2. CASE kind[c] = "start"
  BY <1>0, <1>2, AnswerIInv DEF AfterTerminate
<1> QED BY <1>0, <1>1, <1>2

LEMMA TerminateIInv == ASSUME IInv, NEW c \in Commands, Terminate(c) PROVE IInv'
<1>0. /\ Active(c) /\ stateFile' = stateFile /\ kind[c] \in {"start", "stop"}
      /\ target[c] \in Pids /\ stateFile \in Pids \cup {None, Torn} /\ pc[c] = "term"
  BY DEF Terminate, IInv, TypeOK, Held, Active, Steps
<1>1. CASE process[target[c]] = "free"
  BY <1>0, <1>1, SystemStays, AfterTerminateIInv DEF Terminate
<1>2. CASE process[target[c]] # "free"
  <2>1. Goto(c, "poll") /\ rounds' = [rounds EXCEPT ![c] = 0] /\ UNCHANGED <<target, child>>
    BY <1>2 DEF Terminate
  <2>2. SystemOK(process', bound')
    <3>1. CASE process[target[c]] = "serving"
      <4>1. process' = [process EXCEPT ![target[c]] = "draining"] /\ UNCHANGED bound
        BY <1>2, <3>1 DEF Terminate
      <4> QED BY <1>0, <4>1, SystemStays DEF SystemOK, Kinds, Proxy
    <3>2. CASE process[target[c]] \in {"booting", "other"}
      BY <1>0, <1>2, <3>2, EndedOK DEF Terminate, Ends
    <3>3. CASE process[target[c]] \notin {"booting", "other", "serving"}
      BY <1>0, <1>2, <3>3, SystemStays DEF Terminate, system
    <3> QED BY <3>1, <3>2, <3>3
  <2>3. /\ Ready(c, "poll") /\ "poll" \in Steps
        /\ \E t \in Pids \cup {None} : target' = [target EXCEPT ![c] = t]
        /\ rounds' \in [Commands -> 0..MaxRounds]
    BY <1>0, <2>1, SupervisorAssumption DEF Ready, Steps, IInv, TypeOK, Held, SupervisorAssumption
  <2> QED BY <1>0, <2>1, <2>2, <2>3, GotoIInv
<1> QED BY <1>1, <1>2

LEMMA PollIInv == ASSUME IInv, NEW c \in Commands, Poll(c) PROVE IInv'
<1>0. /\ Active(c) /\ stateFile' = stateFile /\ kind[c] \in {"start", "stop"} /\ bound' = bound
      /\ target[c] \in Pids /\ stateFile \in Pids \cup {None, Torn} /\ pc[c] = "poll"
  BY DEF Poll, IInv, TypeOK, Held, Active, Steps
<1>1. CASE AfterTerminate(c, process)
  BY <1>0, <1>1, SystemStays, AfterTerminateIInv
<1>2. CASE /\ Goto(c, "poll") /\ rounds[c] < MaxRounds /\ rounds' = [rounds EXCEPT ![c] = @ + 1]
           /\ UNCHANGED <<process, target, child>>
  <2>1. /\ Ready(c, "poll") /\ "poll" \in Steps /\ SystemOK(process', bound')
        /\ \E t \in Pids \cup {None} : target' = [target EXCEPT ![c] = t]
    BY <1>0, <1>2, SystemStays DEF Ready, Steps, IInv, TypeOK, Held
  <2>2. rounds' \in [Commands -> 0..MaxRounds]
    BY <1>2, SupervisorAssumption DEF IInv, TypeOK, SupervisorAssumption
  <2> QED BY <1>0, <1>2, <2>1, <2>2, GotoIInv
<1>3. CASE Goto(c, "kill") /\ Same(c) /\ UNCHANGED process
  <2>1. target' = target => Ready(c, "kill")
    BY <1>0 DEF Ready, IInv, TypeOK, Held
  <2> QED BY <1>0, <1>3, <2>1, PlainGoto DEF Steps, system
<1> QED BY <1>1, <1>2, <1>3 DEF Poll

LEMMA KillIInv == ASSUME IInv, NEW c \in Commands, Kill(c) PROVE IInv'
<1>0. UNCHANGED stateFile /\ target[c] \in Pids /\ pc[c] = "kill"
  BY DEF Kill, IInv, Held
<1>1. CASE process[target[c]] \in {"free", "zombie"}
  BY <1>0, <1>1, SystemStays, AfterTerminateIInv DEF Kill
<1>2. CASE process[target[c]] \notin {"free", "zombie"}
  BY <1>0, <1>2, EndedOK, AfterTerminateIInv DEF Kill
<1> QED BY <1>1, <1>2

LEMMA ClearIInv == ASSUME IInv, NEW c \in Commands, Clear(c) PROVE IInv'
  BY AnswerAsIs DEF Clear

LEMMA KilledIInv == ASSUME IInv, NEW c \in Commands, Killed(c) PROVE IInv'
  BY SupervisorAssumption
  DEF IInv, TypeOK, Held, Active, Steps, Proxy, Killed, Abandon, SupervisorAssumption

LEMMA BeginIInv ==
  ASSUME IInv, NEW c \in Commands, NEW k \in {"start", "stop", "status"}, Begin(c, k) PROVE IInv'
  BY SupervisorAssumption
  DEF IInv, TypeOK, Held, Active, Steps, Proxy, Begin, system, SupervisorAssumption

LEMMA SystemIInv == ASSUME IInv, NEW i \in Pids, System(i) PROVE IInv'
<1>0. UNCHANGED <<stateFile, kind, pc, target, child, rounds>>
  BY DEF System, command
<1>1. SystemOK(process', bound')
  <2>1. CASE Ends(i)
    BY <2>1, EndedOK DEF Ends
  <2>2. CASE /\ process[i] = "booting" /\ bound = None /\ bound' = i
             /\ process' = [process EXCEPT ![i] = "serving"]
    BY <2>2, SystemStays DEF SystemOK, Kinds, Proxy
  <2>3. CASE bound' = None /\ UNCHANGED process
    BY <2>3, SystemStays DEF SystemOK
  <2>4. CASE process[i] = "free" /\ process' = [process EXCEPT ![i] = "other"] /\ UNCHANGED bound
    BY <2>4, SystemStays DEF SystemOK, Kinds
  <2>5. CASE process[i] = "other" /\ bound' = i /\ UNCHANGED process
    BY <2>5, SystemStays DEF SystemOK
  <2> QED BY <2>1, <2>2, <2>3, <2>4, <2>5 DEF System, Boot, CloseListener, Exit, OtherRuns,
       OtherBinds, TakeAddress
<1>2. TypeOK'
  BY <1>0, <1>1 DEF IInv, TypeOK, SystemOK, Kinds
<1>3. Held'
  BY <1>0 DEF IInv, Held, Active
<1> QED BY <1>2, <1>3 DEF IInv

LEMMA StepIInv == IInv /\ [Next]_vars => IInv'
<1> SUFFICES ASSUME IInv, [Next]_vars PROVE IInv'
  OBVIOUS
<1>1. CASE UNCHANGED vars
  BY <1>1 DEF vars, system, command, ghosts, IInv, TypeOK, Held, Active
<1>2. ASSUME NEW c \in Commands, Step(c) PROVE IInv'
  BY <1>2, ReadIInv, AliveIInv, CmdlineIInv, PortIInv, SpawnIInv, WaitIInv, ProbeIInv, TruncateIInv,
     WriteIInv, TerminateIInv, PollIInv, KillIInv, ClearIInv DEF Step
<1> QED BY <1>1, <1>2, KilledIInv, BeginIInv, SystemIInv DEF Next

\* The types: who listens is alive and may listen, and the pid of a child is not used
\* again before its parent has reaped it (service.py:172, 212).
THEOREM TypeCorrect == Spec => []TypeOK
  BY InitIInv, StepIInv, PTL DEF Spec, IInv

-----------------------------------------------------------------------------
(* Mistaken only after a race *)

\* While a start launches, the address is free or its child's, or it was raced.
NotRaced == \A c \in Commands : Launching(c) => bound \in {None, child[c]} \/ c \in raced

\* What a command's step means for the address, for the others and for itself.
LEMMA StepEffect ==
  ASSUME IInv, NEW c \in Commands, Step(c)
  PROVE  /\ bound' \in {bound, None} /\ raced' = raced /\ orderly' = orderly /\ kind' = kind
         /\ \A d \in Commands \ {c} : pc'[d] = pc[d] /\ child'[d] = child[d] /\ target'[d] = target[d]
         /\ Launching(c)' =>
              \/ bound' = None
              \/ Launching(c) /\ bound' = bound /\ (child'[c] = child[c] \/ child[c] = None)
         /\ (pc[c] = "probe" /\ pc'[c] = "truncate") => bound # None
<1>1. CASE ReadState(c) \/ PidAlive(c) \/ PidCmdline(c)
  <2>1. /\ bound' = bound /\ UNCHANGED <<kind, ghosts>>
        /\ \E s \in {"alive", "cmdline", "term", "port", "clear", "done"} : pc' = [pc EXCEPT ![c] = s]
        /\ child' = child \/ child' = [child EXCEPT ![c] = None]
        /\ target' = target \/ target' = [target EXCEPT ![c] = stateFile]
    <3>1. kind[c] \in {"start", "stop", "status"}
      BY <1>1 DEF ReadState, PidAlive, PidCmdline, IInv, Held, Active, Steps
    <3> QED BY <1>1, <3>1 DEF ReadState, PidAlive, PidCmdline, NotOurs, Goto, Same, AnswerWith,
         Abandon, system
  <2> QED BY <1>1, <2>1 DEF ReadState, PidAlive, PidCmdline, ghosts, IInv, TypeOK, Launching
<1>2. CASE PortCheck(c)
  BY <1>2 DEF PortCheck, Goto, Same, AnswerWith, Abandon, ghosts, IInv, TypeOK, Launching
<1>3. CASE Spawn(c)
  BY <1>3 DEF Spawn, Goto, AnswerWith, Abandon, ghosts, IInv, TypeOK, Held, Launching
<1>4. CASE Wait(c)
  BY <1>4 DEF Wait, Goto, ghosts, IInv, TypeOK, Launching
<1>5. CASE Probe(c)
  BY <1>5 DEF Probe, Goto, ghosts, system, IInv, TypeOK, Launching
<1>6. CASE Truncate(c) \/ Write(c) \/ Clear(c)
  BY <1>6 DEF Truncate, Write, Clear, Goto, Same, AnswerWith, Abandon, ghosts, system, IInv, TypeOK,
     Launching
<1>7. CASE Terminate(c) \/ Poll(c) \/ Kill(c)
  <2>1. /\ bound' \in {bound, None} /\ UNCHANGED <<kind, ghosts, target>>
        /\ \E s \in {"poll", "kill", "clear", "done"} : pc' = [pc EXCEPT ![c] = s]
        /\ child' = child \/ child' = [child EXCEPT ![c] = None]
    BY <1>7 DEF Terminate, Poll, Kill, AfterTerminate, Ends, Released, Goto, Same, AnswerWith,
       Abandon, system
  <2> QED BY <1>7, <2>1 DEF Terminate, Poll, Kill, ghosts, IInv, TypeOK, Launching
<1> QED BY <1>1, <1>2, <1>3, <1>4, <1>5, <1>6, <1>7 DEF Step

\* What the other steps mean for the address.
LEMMA OtherEffect ==
  ASSUME IInv, [Next]_vars, \A c \in Commands : ~Step(c)
  PROVE  \A c \in Commands : Launching(c)' =>
           /\ Launching(c) /\ child'[c] = child[c] /\ pc'[c] = pc[c]
           /\ (bound' \in {bound, None} /\ raced' = raced) \/ bound' = child[c] \/ c \in raced'
           /\ raced \subseteq raced'
<1>1. CASE UNCHANGED vars
  BY <1>1 DEF vars, system, command, ghosts, Launching
<1>2. ASSUME NEW c \in Commands, NEW k \in {"start", "stop", "status"}, Begin(c, k)
      PROVE  \A d \in Commands : Launching(d)' => /\ Launching(d) /\ child'[d] = child[d]
                                                 /\ pc'[d] = pc[d] /\ bound' = bound /\ raced' = raced
  BY <1>2 DEF Begin, system, Launching, IInv, TypeOK
<1>3. ASSUME NEW c \in Commands, Killed(c)
      PROVE  \A d \in Commands : Launching(d)' => /\ Launching(d) /\ child'[d] = child[d]
                                                 /\ pc'[d] = pc[d] /\ bound' = bound /\ raced' = raced
  BY <1>3 DEF Killed, Abandon, Launching, IInv, TypeOK
<1>4. ASSUME NEW i \in Pids, System(i)
      PROVE  /\ UNCHANGED <<pc, child>> /\ raced \subseteq raced'
             /\ \/ bound' \in {bound, None} /\ raced' = raced
                \/ \A c \in Commands : Launching(c) => bound' = child[c] \/ c \in raced'
  BY <1>4 DEF System, Boot, CloseListener, Exit, OtherRuns, OtherBinds, TakeAddress, Ends, Released,
     command
<1> QED BY <1>1, <1>2, <1>3, <1>4 DEF Next, Launching

LEMMA InitNotRaced == Init => NotRaced
  BY DEF Init, NotRaced, Launching

LEMMA StepNotRaced == IInv /\ NotRaced /\ [Next]_vars => NotRaced'
<1> SUFFICES ASSUME IInv, NotRaced, [Next]_vars PROVE NotRaced'
  OBVIOUS
<1>1. ASSUME NEW c \in Commands, Step(c) PROVE NotRaced'
  BY <1>1, StepEffect DEF NotRaced, Launching
<1>2. CASE \A c \in Commands : ~Step(c)
  BY <1>2, OtherEffect DEF NotRaced
<1> QED BY <1>1, <1>2

Unmistaken == \A c \in Commands : (pc[c] = "probe" /\ pc'[c] = "truncate") =>
                bound = child[c] \/ c \in raced

LEMMA StepUnmistaken == IInv /\ NotRaced /\ [Next]_vars => [Unmistaken]_vars
<1> SUFFICES ASSUME IInv, NotRaced, [Next]_vars, NEW c \in Commands,
                    pc[c] = "probe", pc'[c] = "truncate"
             PROVE  bound = child[c] \/ c \in raced
  BY DEF Unmistaken
<1>1. bound # None
  <2>1. Step(c) => bound # None
    BY StepEffect
  <2>2. ASSUME NEW d \in Commands \ {c} PROVE ~Step(d)
    BY <2>2, StepEffect
  <2>3. ~UNCHANGED vars /\ \A i \in Pids : ~System(i)
    BY DEF vars, command, System
  <2>4. \A d \in Commands : ~Killed(d) /\ \A k \in {"start", "stop", "status"} : ~Begin(d, k)
    BY DEF Killed, Begin, IInv, TypeOK
  <2> QED BY <2>1, <2>2, <2>3, <2>4 DEF Next
<1> QED BY <1>1 DEF NotRaced, Launching

\* A start that found the address free takes a foreign listener for its child only if
\* it took the address after that (service.py:191-217).
THEOREM OnlyARaceMistakes == Spec => MistakenOnlyAfterRace
<1>1. Spec => [][Unmistaken]_vars
  BY InitIInv, StepIInv, InitNotRaced, StepNotRaced, StepUnmistaken, PTL DEF Spec
<1> QED BY <1>1 DEF MistakenOnlyAfterRace, Unmistaken

-----------------------------------------------------------------------------
(* No server is out of reach *)

Live(i) == process[i] \in {"booting", "serving"}
Mine(c) == Active(c) /\ kind[c] \in {"start", "stop"}

\* Nothing but what the state file says.
Found == \A i \in Pids : Live(i) => stateFile = i

\* Where a start or stop has a server at each of its steps, if it is the only one.
Tracked(c) ==
  /\ pc[c] \in {"alive", "cmdline"} => stateFile = target[c]
  /\ (pc[c] = "term" /\ kind[c] = "stop") => stateFile = target[c]
  /\ pc[c] = "write" => stateFile = Torn
  /\ \A i \in Pids : Live(i) =>
       /\ pc[c] \in {"read", "alive", "cmdline"} => stateFile = i
       /\ pc[c] \in {"wait", "probe", "truncate", "write"} => child[c] = i
       /\ pc[c] = "term" => IF kind[c] = "stop" THEN stateFile = i ELSE child[c] = i
       /\ pc[c] \notin {"port", "spawn", "poll", "kill", "clear"}

Known == orderly => /\ \A c, d \in Commands : Mine(c) /\ Mine(d) => c = d
                    /\ (\A c \in Commands : ~Mine(c)) => Found
                    /\ \A c \in Commands : Mine(c) => Tracked(c)

NoneNew == \A i \in Pids : Live(i)' => Live(i)

\* A step that starts no server, and leaves the state file and what the commands hold.
LEMMA QuietKnown ==
  ASSUME Known, orderly' => orderly, NoneNew, UNCHANGED <<stateFile, kind, pc, target, child>>
  PROVE  Known'
  BY DEF Known, Found, Tracked, Mine, Active, NoneNew, Live

\* A status changes nothing that matters to the others.
LEMMA StatusKnown ==
  ASSUME IInv, Known, NEW c \in Commands, Step(c), kind[c] = "status" PROVE Known'
<1>1. ReadState(c) \/ PidAlive(c) \/ PidCmdline(c)
  BY DEF Step, PortCheck, Spawn, Wait, Probe, Truncate, Write, Terminate, Poll, Kill, Clear, IInv, Held
<1>2. child[c] = None
  BY DEF IInv, Held
<1>3. UNCHANGED <<stateFile, kind>> /\ orderly' = orderly
  BY <1>1, StepEffect DEF ReadState, PidAlive, PidCmdline
<1>4. NoneNew
  <2>1. process' = process \/ process' = [i \in Pids |-> IF child[c] = i /\ process[i] = "zombie"
                                                         THEN "free" ELSE process[i]]
    BY <1>1 DEF ReadState, PidAlive, PidCmdline, NotOurs, AnswerWith, Abandon, system
  <2> QED BY <2>1 DEF NoneNew, Live
<1>5. \A d \in Commands \ {c} : pc'[d] = pc[d] /\ child'[d] = child[d] /\ target'[d] = target[d]
  BY StepEffect
<1>6. ~Mine(c) /\ ~Mine(c)'
  BY <1>3 DEF Mine
<1>7. \A d \in Commands \ {c} : (Mine(d)' <=> Mine(d)) /\ (Tracked(d) => Tracked(d)')
  BY <1>3, <1>4, <1>5 DEF Mine, Active, Tracked, NoneNew, Live
<1>8. Found => Found'
  BY <1>3, <1>4 DEF Found, NoneNew
<1> QED BY <1>3, <1>6, <1>7, <1>8 DEF Known

\* A start or stop that is the only one leaves the server in the state file at its
\* end, and where it should be at any other step.
Keeps(c) == Tracked(c) => IF Active(c)' THEN Tracked(c)' ELSE Found'

LEMMA MineKnown ==
  ASSUME IInv, Known, NEW c \in Commands, Step(c), Mine(c), Keeps(c) PROVE Known'
<1>1. /\ orderly' = orderly /\ kind' = kind
      /\ \A d \in Commands \ {c} : pc'[d] = pc[d]
  BY StepEffect
<1>2. \A d \in Commands \ {c} : Mine(d)' <=> Mine(d)
  BY <1>1 DEF Mine, Active
<1>3. Mine(c)' <=> Active(c)'
  BY <1>1 DEF Mine
<1> QED BY <1>1, <1>2, <1>3 DEF Known, Keeps

LEMMA AnswerKeeps ==
  ASSUME IInv, NEW c \in Commands, NEW a, NEW procs, AnswerWith(c, a, procs),
         \A i \in Pids : procs[i] \in {"booting", "serving"} => stateFile' = i
  PROVE  Keeps(c)
<1>1. ~Active(c)'
  BY DEF AnswerWith, Active, Steps, IInv, TypeOK
<1>2. Found'
  BY DEF AnswerWith, Abandon, Found, Live
<1> QED BY <1>1, <1>2 DEF Keeps

LEMMA NotOursKeeps ==
  ASSUME IInv, NEW c \in Commands, Mine(c), NotOurs(c), UNCHANGED stateFile,
         \A i \in Pids : ~Live(i)
  PROVE  Keeps(c)
<1>1. PICK s \in {"port", "clear"} : Goto(c, s) /\ UNCHANGED process
  BY DEF NotOurs, Mine
<1>2. pc'[c] = s /\ \A i \in Pids : ~Live(i)'
  BY <1>1 DEF Goto, Live, IInv, TypeOK
<1> QED BY <1>2 DEF Keeps, Tracked, Active, Steps

LEMMA ReadKeeps ==
  ASSUME IInv, NEW c \in Commands, Mine(c), ReadState(c) PROVE Keeps(c)
<1> SUFFICES ASSUME Tracked(c) PROVE Keeps(c)
  BY DEF Keeps
<1>1. CASE stateFile \in Pids
  <2>1. /\ pc'[c] = "alive" /\ target'[c] = stateFile /\ UNCHANGED <<process, stateFile>>
    BY <1>1 DEF ReadState, Goto, system, IInv, TypeOK
  <2> QED BY <2>1 DEF ReadState, Keeps, Tracked, Live, Active, Steps
<1>2. CASE stateFile \notin Pids
  BY <1>2, NotOursKeeps DEF ReadState, Tracked
<1> QED BY <1>1, <1>2

LEMMA AliveKeeps ==
  ASSUME IInv, NEW c \in Commands, Mine(c), PidAlive(c) PROVE Keeps(c)
<1> SUFFICES ASSUME Tracked(c) PROVE Keeps(c)
  BY DEF Keeps
<1>1. CASE process[target[c]] = "free"
  <2>1. \A i \in Pids : ~Live(i)
    BY <1>1 DEF PidAlive, Tracked, Live
  <2> QED BY <1>1, <2>1, NotOursKeeps DEF PidAlive
<1>2. CASE process[target[c]] # "free"
  <2>1. pc'[c] = "cmdline" /\ UNCHANGED <<process, stateFile, target>>
    BY <1>2 DEF PidAlive, Goto, Same, system, IInv, TypeOK
  <2> QED BY <2>1 DEF PidAlive, Keeps, Tracked, Live, Active, Steps
<1> QED BY <1>1, <1>2

LEMMA CmdlineKeeps ==
  ASSUME IInv, NEW c \in Commands, Mine(c), PidCmdline(c) PROVE Keeps(c)
<1> SUFFICES ASSUME Tracked(c) PROVE Keeps(c)
  BY DEF Keeps
<1>0. pc[c] = "cmdline" /\ stateFile' = stateFile
  BY DEF PidCmdline
<1>1. CASE process[target[c]] \in Proxy \cup {"free"} \/ ~CmdlineReadable
  <2>1. CASE kind[c] = "stop"
    <3>1. pc'[c] = "term" /\ UNCHANGED <<process, stateFile, target, kind>>
      BY <1>1, <2>1 DEF PidCmdline, Goto, Same, system, IInv, TypeOK
    <3> QED BY <1>0, <2>1, <3>1 DEF Keeps, Tracked, Live, Active, Steps
  <2>2. CASE kind[c] # "stop"
    BY <1>0, <1>1, <2>2, AnswerKeeps DEF PidCmdline, Tracked, Live
  <2> QED BY <2>1, <2>2
<1>2. CASE process[target[c]] \notin Proxy \cup {"free"} /\ CmdlineReadable
  <2>1. \A i \in Pids : ~Live(i)
    BY <1>0, <1>2 DEF Tracked, Live, Proxy
  <2> QED BY <1>0, <1>2, <2>1, NotOursKeeps DEF PidCmdline
<1> QED BY <1>1, <1>2

LEMMA LaunchKeeps ==
  ASSUME IInv, NEW c \in Commands, Mine(c), PortCheck(c) \/ Spawn(c) PROVE Keeps(c)
<1> SUFFICES ASSUME Tracked(c) PROVE Keeps(c)
  BY DEF Keeps
<1>0. \A i \in Pids : ~Live(i)
  BY DEF PortCheck, Spawn, Tracked
<1>1. CASE \E a : AnswerWith(c, a, process)
  BY <1>0, <1>1, AnswerKeeps DEF Live
<1>2. CASE PortCheck(c) /\ Goto(c, "spawn") /\ Same(c) /\ UNCHANGED process
  <2>1. pc'[c] = "spawn" /\ \A i \in Pids : ~Live(i)'
    BY <1>0, <1>2 DEF Goto, Live, IInv, TypeOK
  <2> QED BY <2>1 DEF Keeps, Tracked, Active, Steps
<1>3. ASSUME Spawn(c), NEW i \in Pids, process' = [process EXCEPT ![i] = "booting"],
             child' = [child EXCEPT ![c] = i], Goto(c, "wait")
      PROVE  Keeps(c)
  <2>1. pc'[c] = "wait" /\ child'[c] = i /\ \A j \in Pids : Live(j)' => j = i
    BY <1>0, <1>3 DEF Goto, Live, IInv, TypeOK
  <2> QED BY <2>1 DEF Keeps, Tracked, Active, Steps
<1> QED BY <1>1, <1>2, <1>3 DEF PortCheck, Spawn

LEMMA WaitKeeps ==
  ASSUME IInv, NEW c \in Commands, Mine(c), Wait(c) PROVE Keeps(c)
<1> SUFFICES ASSUME Tracked(c) PROVE Keeps(c)
  BY DEF Keeps
<1>0. /\ kind[c] = "start" /\ kind' = kind /\ pc[c] = "wait"
      /\ \A i \in Pids : Live(i) => child[c] = i
  BY DEF Wait, Goto, IInv, Held, Tracked
<1>1. CASE process[child[c]] = "zombie" /\ process' = [process EXCEPT ![child[c]] = "free"]
           /\ Goto(c, "term")
  <2>1. pc'[c] = "term" /\ \A i \in Pids : ~Live(i)'
    BY <1>0, <1>1 DEF Goto, Live, IInv, TypeOK
  <2> QED BY <1>0, <2>1 DEF Keeps, Tracked, Active, Steps
<1>2. ASSUME NEW s \in {"term", "probe"}, Goto(c, s), UNCHANGED <<process, child>> PROVE Keeps(c)
  <2>1. pc'[c] = s
    BY <1>2 DEF Goto, IInv, TypeOK
  <2> QED BY <1>0, <1>2, <2>1 DEF Keeps, Tracked, Live, Active, Steps
<1> QED BY <1>1, <1>2 DEF Wait

LEMMA RecordKeeps ==
  ASSUME IInv, NEW c \in Commands, Mine(c), Probe(c) \/ Truncate(c) \/ Write(c) PROVE Keeps(c)
<1> SUFFICES ASSUME Tracked(c) PROVE Keeps(c)
  BY DEF Keeps
<1>0. \A i \in Pids : Live(i) => child[c] = i
  BY DEF Probe, Truncate, Write, Tracked
<1>1. CASE Probe(c)
  <2>1. pc'[c] \in {"truncate", "wait"} /\ UNCHANGED <<process, child>>
    BY <1>1 DEF Probe, Goto, system, IInv, TypeOK
  <2> QED BY <1>0, <2>1 DEF Keeps, Tracked, Live, Active, Steps
<1>2. CASE Truncate(c)
  <2>1. pc'[c] = "write" /\ UNCHANGED <<process, child>> /\ stateFile' = Torn
    BY <1>2 DEF Truncate, Goto, Same, system, IInv, TypeOK
  <2> QED BY <1>0, <2>1 DEF Keeps, Tracked, Live, Active, Steps
<1>3. CASE Write(c)
  <2>1. stateFile' = target[c] /\ child[c] = target[c]
    BY <1>3, SupervisorAssumption DEF Write, Tracked, IInv, Held, SupervisorAssumption
  <2> QED BY <1>0, <1>3, <2>1, AnswerKeeps DEF Write, Live
<1> QED BY <1>1, <1>2, <1>3

LEMMA AfterTerminateKeeps ==
  ASSUME IInv, NEW c \in Commands, Mine(c), NEW procs, AfterTerminate(c, procs),
         \A i \in Pids : procs[i] \notin {"booting", "serving"}
  PROVE  Keeps(c)
<1>1. CASE kind[c] = "stop"
  <2>1. pc'[c] = "clear" /\ \A i \in Pids : ~Live(i)'
    BY <1>1 DEF AfterTerminate, Goto, Live, IInv, TypeOK
  <2> QED BY <2>1 DEF Keeps, Tracked, Active, Steps
<1>2. CASE kind[c] = "start"
  BY <1>2, AnswerKeeps DEF AfterTerminate
<1> QED BY <1>1, <1>2 DEF Mine

LEMMA TerminateKeeps ==
  ASSUME IInv, NEW c \in Commands, Mine(c), Terminate(c) PROVE Keeps(c)
<1> SUFFICES ASSUME Tracked(c) PROVE Keeps(c)
  BY DEF Keeps
<1>0. target[c] \in Pids /\ \A i \in Pids : Live(i) => target[c] = i
  BY SupervisorAssumption DEF Terminate, Tracked, IInv, Held, Mine, SupervisorAssumption
<1>1. CASE process[target[c]] = "free"
  BY <1>0, <1>1, AfterTerminateKeeps DEF Terminate, Live
<1>2. CASE process[target[c]] # "free"
  <2>1. pc'[c] = "poll"
    BY <1>2 DEF Terminate, Goto, IInv, TypeOK
  <2>2. \A i \in Pids : ~Live(i)'
    BY <1>0, <1>2 DEF Terminate, Ends, Ended, Live, system, IInv, TypeOK
  <2> QED BY <2>1, <2>2 DEF Keeps, Tracked, Active, Steps
<1> QED BY <1>1, <1>2

LEMMA EndKeeps ==
  ASSUME IInv, NEW c \in Commands, Mine(c), Poll(c) \/ Kill(c) \/ Clear(c) PROVE Keeps(c)
<1> SUFFICES ASSUME Tracked(c) PROVE Keeps(c)
  BY DEF Keeps
<1>0. \A i \in Pids : process[i] \notin {"booting", "serving"}
  BY DEF Poll, Kill, Clear, Tracked, Live
<1>1. CASE Poll(c)
  <2>1. CASE AfterTerminate(c, process)
    BY <1>0, <2>1, AfterTerminateKeeps
  <2>2. ASSUME NEW s \in {"poll", "kill"}, Goto(c, s), UNCHANGED process PROVE Keeps(c)
    <3>1. pc'[c] = s /\ \A i \in Pids : ~Live(i)'
      BY <1>0, <2>2 DEF Goto, Live, IInv, TypeOK
    <3> QED BY <3>1 DEF Keeps, Tracked, Active, Steps
  <2> QED BY <1>1, <2>1, <2>2 DEF Poll
<1>2. CASE Kill(c)
  <2>1. CASE AfterTerminate(c, process)
    BY <1>0, <2>1, AfterTerminateKeeps
  <2>2. CASE AfterTerminate(c, Ended(target[c], {d \in Commands : Active(d)}))
    <3>1. \A i \in Pids : Ended(target[c], {d \in Commands : Active(d)})[i] \notin {"booting", "serving"}
      BY <1>0 DEF Ended, IInv, TypeOK
    <3> QED BY <2>2, <3>1, AfterTerminateKeeps
  <2> QED BY <1>2, <2>1, <2>2 DEF Kill
<1>3. CASE Clear(c)
  BY <1>0, <1>3, AnswerKeeps DEF Clear
<1> QED BY <1>1, <1>2, <1>3

LEMMA StepKnown == IInv /\ Known /\ [Next]_vars => Known'
<1> SUFFICES ASSUME IInv, Known, [Next]_vars PROVE Known'
  OBVIOUS
<1>1. CASE UNCHANGED vars
  BY <1>1, QuietKnown DEF vars, system, command, ghosts, NoneNew, Live
<1>2. ASSUME NEW c \in Commands, Step(c) PROVE Known'
  <2>1. kind[c] \in {"start", "stop", "status"} /\ Active(c)
    BY <1>2 DEF Step, ReadState, PidAlive, PidCmdline, PortCheck, Spawn, Wait, Probe, Truncate,
       Write, Terminate, Poll, Kill, Clear, Active, Steps, IInv, Held
  <2>2. CASE kind[c] = "status"
    BY <1>2, <2>2, StatusKnown
  <2>3. CASE kind[c] \in {"start", "stop"}
    <3>1. Mine(c)
      BY <2>1, <2>3 DEF Mine
    <3>2. Keeps(c)
      BY <1>2, <3>1, ReadKeeps, AliveKeeps, CmdlineKeeps, LaunchKeeps, WaitKeeps, RecordKeeps,
         TerminateKeeps, EndKeeps DEF Step
    <3> QED BY <1>2, <3>1, <3>2, MineKnown
  <2> QED BY <2>1, <2>2, <2>3
<1>3. ASSUME NEW c \in Commands, NEW k \in {"start", "stop", "status"}, Begin(c, k) PROVE Known'
  <2>1. /\ UNCHANGED <<process, stateFile, target, child>> /\ orderly' = (orderly /\ Only(c, k))
        /\ pc[c] = "idle" /\ pc' = [pc EXCEPT ![c] = "read"] /\ kind' = [kind EXCEPT ![c] = k]
    BY <1>3 DEF Begin, system
  <2>2. \A d \in Commands \ {c} : pc'[d] = pc[d] /\ kind'[d] = kind[d]
    BY <2>1 DEF IInv, TypeOK, Held
  <2>3. \A d \in Commands \ {c} : (Mine(d)' <=> Mine(d)) /\ (Tracked(d) => Tracked(d)')
    BY <2>1, <2>2 DEF Mine, Active, Tracked, Live
  <2>4. ~Mine(c) /\ pc'[c] = "read" /\ kind'[c] = k
    BY <2>1 DEF Mine, Active, Steps, IInv, TypeOK, Held
  <2>5. Found <=> Found'
    BY <2>1 DEF Found, Live
  <2>6. CASE k = "status"
    BY <2>1, <2>3, <2>4, <2>5, <2>6 DEF Known, Mine
  <2>7. CASE k # "status"
    <3>1. orderly' => \A d \in Commands : ~Mine(d)
      BY <2>1, <2>4, <2>7 DEF Only, Mine
    <3>2. orderly' => Found
      BY <2>1, <3>1 DEF Known
    <3>3. orderly' => Tracked(c)'
      BY <2>4, <2>5, <3>2 DEF Tracked, Found
    <3>4. Mine(c)'
      BY <2>4, <2>7 DEF Mine, Active, Steps
    <3>5. orderly' => \A d \in Commands : Mine(d)' => d = c
      BY <2>3, <3>1
    <3> QED BY <3>3, <3>4, <3>5 DEF Known
  <2> QED BY <2>6, <2>7
<1>4. ASSUME NEW c \in Commands, Killed(c) PROVE Known'
  BY <1>4 DEF Killed, Known
<1>5. ASSUME NEW i \in Pids, System(i) PROVE Known'
  <2>1. NoneNew
    BY <1>5 DEF System, Boot, CloseListener, Exit, OtherRuns, OtherBinds, Ends, Ended, NoneNew, Live,
       IInv, TypeOK
  <2> QED BY <1>5, <2>1, QuietKnown DEF System, command
<1> QED BY <1>1, <1>2, <1>3, <1>4, <1>5 DEF Next

LEMMA InitKnown == Init => Known
  BY DEF Init, Known, Found, Mine, Active, Steps, Live

LEMMA KnownSuffices == IInv /\ Known => ServerIsKnown
<1> SUFFICES ASSUME IInv, Known, orderly
             PROVE  \E x \in Pids \cup {None, Torn} : \A i \in Pids : Live(i) =>
                      i = x /\ (stateFile = i \/ \E c \in Commands : Active(c) /\ child[c] = i)
  BY DEF ServerIsKnown, Live
<1>1. CASE \A c \in Commands : ~Mine(c)
  BY <1>1 DEF Known, Found, IInv, TypeOK
<1>2. ASSUME NEW c \in Commands, Mine(c)
      PROVE  \A i \in Pids : Live(i) => stateFile = i \/ child[c] = i
  <2>1. Tracked(c)
    BY <1>2 DEF Known
  <2> QED BY <1>2, <2>1 DEF Tracked, Mine, Active, Steps
<1>3. ASSUME NEW c \in Commands, Mine(c), NEW i \in Pids, NEW j \in Pids, Live(i), Live(j)
      PROVE  i = j
  <2>1. Tracked(c)
    BY <1>3 DEF Known
  <2> QED BY <1>3, <2>1 DEF Tracked, Mine, Active, Steps
<1>4. CASE \E c \in Commands : Mine(c)
  <2>1. PICK c \in Commands : Mine(c)
    BY <1>4
  <2>2. CASE \A i \in Pids : ~Live(i)
    BY <2>2
  <2>3. CASE \E i \in Pids : Live(i)
    <3>1. PICK i \in Pids : Live(i)
      BY <2>3
    <3>2. \A j \in Pids : Live(j) => j = i
      BY <1>3, <2>1, <3>1
    <3>3. stateFile = i \/ (Active(c) /\ child[c] = i)
      BY <1>2, <2>1, <3>1 DEF Mine
    <3> QED BY <3>2, <3>3
  <2> QED BY <2>2, <2>3
<1> QED BY <1>1, <1>4

\* No server is out of reach of stop while starts and stops come one after another and
\* none is killed: it is in the state file or the child of the start that runs
\* (service.py:180-258).
THEOREM ServersAreKnown == Spec => []ServerIsKnown
  BY InitIInv, StepIInv, InitKnown, StepKnown, KnownSuffices, PTL DEF Spec
=============================================================================
