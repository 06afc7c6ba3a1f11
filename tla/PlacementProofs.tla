--------------------------- MODULE PlacementProofs ---------------------------
(***************************************************************************)
(* For any number of uploads, processes, pids and crashes: the types, the  *)
(* hold of an upload on its destination and its temporary file, the cause  *)
(* of what is left behind, and that Placement implements PlacementContract. *)
(***************************************************************************)
EXTENDS Placement, TLAPS

\* The step of one upload that serves a process.
UploadStep(u) == \/ OpenTmp(u) \/ WriteTmp(u) \/ Gate(u) \/ Conflict(u) \/ Replace(u)
                 \/ WriteFails(u) \/ Record(u) \/ RecordFails(u)

LEMMA Steps ==
  ASSUME Next
  PROVE  \/ \E u \in Uploads, p \in Procs, raw \in RawPaths, b \in Blobs :
              Accept(u, p, raw, b) \/ Refuse(u, p, raw, b)
         \/ \E u \in Uploads : UploadStep(u)
         \/ \E p \in Procs : Crash(p)
         \/ \E d \in Dests : Touch(d)
  BY DEF Next, UploadStep

LEMMA ModelsHaveAPlace ==
  ASSUME NEW raw \in RawPaths, IsModel(raw) PROVE PlaceOf(raw) \in Dests
  BY DEF Dests

IInv == TypeOK /\ GateHeld

-----------------------------------------------------------------------------
(* The invariant *)

LEMMA InitIInv == Init => IInv
  BY PlacementAssumption DEF Init, IInv, TypeOK, GateHeld, Writing, At, PlacementAssumption

LEMMA AcceptIInv ==
  ASSUME IInv, NEW u \in Uploads, NEW p \in Procs, NEW raw \in RawPaths, NEW b \in Blobs,
         Accept(u, p, raw, b)
  PROVE  IInv'
<1>1. /\ pc' = [pc EXCEPT ![u] = "open"] /\ proc' = [proc EXCEPT ![u] = p]
      /\ \E d \in Dests : place' = [place EXCEPT ![u] = d]
      /\ bytes' = [bytes EXCEPT ![u] = b] /\ UNCHANGED <<file, tmp, pid, crashes>>
      /\ \A v \in Uploads : pc[v] \in Writing => proc[v] # p
  BY ModelsHaveAPlace DEF Accept, Busy
<1>2. TypeOK'
  BY <1>1 DEF IInv, TypeOK, Writing
<1>3. GateHeld'
  BY <1>1 DEF IInv, TypeOK, GateHeld, Writing, At, TmpOf
<1> QED BY <1>2, <1>3 DEF IInv

LEMMA RefuseIInv ==
  ASSUME IInv, NEW u \in Uploads, At(u, "idle"), Goto(u, "refused"), UNCHANGED <<file, tmp>>
  PROVE  IInv'
<1>1. TypeOK'
  BY DEF IInv, TypeOK, Goto, Writing
<1>2. GateHeld'
  BY DEF IInv, TypeOK, GateHeld, Goto, Writing, At, TmpOf
<1> QED BY <1>1, <1>2 DEF IInv

\* Two uploads under way have different temporary names.
LEMMA TmpNamesDiffer ==
  ASSUME IInv, NEW u \in Uploads, NEW v \in Uploads, u # v, pc[u] \in Writing, pc[v] \in Writing
  PROVE  TmpOf(u) # TmpOf(v)
  BY DEF IInv, GateHeld, TmpOf

LEMMA TmpNameType ==
  ASSUME IInv, NEW u \in Uploads, pc[u] \in Writing PROVE TmpOf(u) \in Dests \X Pids
  BY DEF IInv, TypeOK, GateHeld, TmpOf

\* What every step of an upload under way does to its own state.
LEMMA UploadEffect ==
  ASSUME IInv, NEW u \in Uploads, UploadStep(u)
  PROVE  /\ pc[u] \in Writing /\ UNCHANGED <<pid, proc, place, bytes, crashes>>
         /\ \E s \in (Writing \ {"open"}) \cup {"refused", "failed", "created", "unrecorded"} :
              pc' = [pc EXCEPT ![u] = s]
         /\ \A v \in Uploads : TmpOf(v)' = TmpOf(v)
         /\ \A n \in Dests \X Pids : n # TmpOf(u) => tmp'[n] = tmp[n]
         /\ \A d \in Dests : d # place[u] => file'[d] = file[d]
<1>1. TmpOf(u) \in Dests \X Pids /\ pc[u] \in Writing /\ place[u] \in Dests
  BY TmpNameType DEF UploadStep, OpenTmp, WriteTmp, Gate, Conflict, Replace, WriteFails, Record,
     RecordFails, At, Writing, IInv, GateHeld
<1>2. UNCHANGED <<pid, proc, place, bytes, crashes>>
  BY DEF UploadStep, OpenTmp, WriteTmp, Gate, Conflict, Replace, WriteFails, Record, RecordFails, Goto
<1>3. \E s \in (Writing \ {"open"}) \cup {"refused", "failed", "created", "unrecorded"} :
         pc' = [pc EXCEPT ![u] = s]
  BY DEF UploadStep, OpenTmp, WriteTmp, Gate, Conflict, Replace, WriteFails, Record, RecordFails,
     Goto, Writing
<1>4. \A n \in Dests \X Pids : n # TmpOf(u) => tmp'[n] = tmp[n]
  BY <1>1 DEF UploadStep, OpenTmp, WriteTmp, Gate, Conflict, Replace, WriteFails, Record,
     RecordFails, SetTmp, IInv, TypeOK
<1>5. \A d \in Dests : d # place[u] => file'[d] = file[d]
  BY <1>1 DEF UploadStep, OpenTmp, WriteTmp, Gate, Conflict, Replace, WriteFails, Record,
     RecordFails, IInv, TypeOK
<1>6. \A v \in Uploads : TmpOf(v)' = TmpOf(v)
  BY <1>2 DEF TmpOf
<1> QED BY <1>1, <1>2, <1>3, <1>4, <1>5, <1>6

\* What it leaves at its destination and its temporary name, by its new place in the code.
LEMMA UploadLeaves ==
  ASSUME IInv, NEW u \in Uploads, UploadStep(u)
  PROVE  /\ file' \in [Dests -> {Absent, Empty, Foreign} \cup Blobs]
         /\ tmp' \in [Dests \X Pids -> {Absent, Partial} \cup Blobs]
         /\ pc'[u] \in {"gate", "replace"} => tmp'[TmpOf(u)] = bytes[u]
         /\ pc'[u] \in {"refused", "failed", "record"} => tmp'[TmpOf(u)] = Absent
         /\ pc'[u] = "replace" => file[place[u]] = Absent /\ file'[place[u]] = Empty
         /\ pc'[u] = "record" => At(u, "replace") /\ file'[place[u]] = bytes[u]
         /\ pc'[u] \notin {"replace", "record"} => UNCHANGED file
         /\ pc'[u] \in {"created", "unrecorded"} => At(u, "record") /\ UNCHANGED tmp
         /\ pc'[u] \in {"refused", "failed"} => ~At(u, "record")
<1>1. TmpOf(u) \in Dests \X Pids /\ place[u] \in Dests /\ bytes[u] \in Blobs /\ pc[u] \in Writing
  BY UploadEffect, TmpNameType DEF IInv, GateHeld
<1>2. CASE OpenTmp(u)
  BY <1>1, <1>2 DEF OpenTmp, Goto, SetTmp, At, IInv, TypeOK
<1>3. CASE WriteTmp(u)
  BY <1>1, <1>3 DEF WriteTmp, Goto, SetTmp, At, IInv, TypeOK
<1>4. CASE Gate(u)
  BY <1>1, <1>4 DEF Gate, Goto, At, IInv, TypeOK, GateHeld
<1>5. CASE Conflict(u)
  BY <1>1, <1>5 DEF Conflict, Goto, SetTmp, At, IInv, TypeOK
<1>6. CASE Replace(u)
  BY <1>1, <1>6 DEF Replace, Goto, SetTmp, At, IInv, TypeOK, GateHeld
<1>7. CASE WriteFails(u)
  BY <1>1, <1>7 DEF WriteFails, Goto, SetTmp, At, IInv, TypeOK
<1>8. CASE Record(u) \/ RecordFails(u)
  BY <1>1, <1>8 DEF Record, RecordFails, Goto, At, IInv, TypeOK
<1> QED BY <1>2, <1>3, <1>4, <1>5, <1>6, <1>7, <1>8 DEF UploadStep

LEMMA UploadIInv ==
  ASSUME IInv, NEW u \in Uploads, UploadStep(u) PROVE IInv'
<1>0. PICK s \in (Writing \ {"open"}) \cup {"refused", "failed", "created", "unrecorded"} :
        pc' = [pc EXCEPT ![u] = s]
  BY UploadEffect
<1>1. /\ pc[u] \in Writing /\ UNCHANGED <<pid, proc, place, bytes, crashes>>
      /\ \A v \in Uploads : TmpOf(v)' = TmpOf(v)
      /\ pc' \in [Uploads -> Writing \cup {"idle", "refused", "failed", "created", "unrecorded", "lost"}]
      /\ pc'[u] = s /\ \A v \in Uploads \ {u} : pc'[v] = pc[v]
      /\ \A v \in Uploads : pc'[v] \in Writing => pc[v] \in Writing
  BY <1>0, UploadEffect DEF IInv, TypeOK
<1>2. TypeOK'
  BY <1>1, UploadLeaves DEF IInv, TypeOK
<1>3. \A v \in Uploads : pc'[v] \in {"gate", "replace"} => tmp'[TmpOf(v)] = bytes[v]
  <2> SUFFICES ASSUME NEW v \in Uploads, pc'[v] \in {"gate", "replace"} PROVE tmp'[TmpOf(v)] = bytes[v]
    OBVIOUS
  <2>1. CASE v = u
    BY <2>1, UploadLeaves
  <2>2. CASE v # u
    <3>1. pc[v] \in {"gate", "replace"} /\ pc[v] \in Writing
      BY <1>1, <2>2 DEF Writing
    <3>2. TmpOf(v) # TmpOf(u) /\ TmpOf(v) \in Dests \X Pids
      BY <1>1, <2>2, <3>1, TmpNamesDiffer, TmpNameType
    <3>3. tmp'[TmpOf(v)] = tmp[TmpOf(v)]
      BY <3>2, UploadEffect
    <3> QED BY <3>1, <3>3 DEF IInv, GateHeld
  <2> QED BY <2>1, <2>2
<1>4. \A v \in Uploads \ {u} : pc'[v] = "replace" =>
         place[v] # place[u] \/ pc'[u] \notin {"replace", "record"}
  BY <1>1, UploadLeaves, PlacementAssumption DEF IInv, GateHeld, At, PlacementAssumption
<1>5. \A v \in Uploads : pc'[v] = "replace" => file'[place[v]] = Empty
  <2> SUFFICES ASSUME NEW v \in Uploads \ {u}, pc'[v] = "replace" PROVE file'[place[v]] = Empty
    BY UploadLeaves
  <2>1. file[place[v]] = Empty /\ place[v] \in Dests
    BY <1>1 DEF IInv, GateHeld, At, Writing
  <2>2. file'[place[v]] = file[place[v]]
    BY <1>4, <2>1, UploadEffect, UploadLeaves
  <2> QED BY <2>1, <2>2
<1>6. \A v, w \in Uploads : (pc'[v] = "replace" /\ pc'[w] = "replace" /\ place[v] = place[w]) => v = w
  BY <1>1, <1>4 DEF IInv, GateHeld, At
<1>7. /\ \A v \in Uploads : pc'[v] \in Writing =>
           proc[v] \in Procs /\ place[v] \in Dests /\ bytes[v] \in Blobs
      /\ \A v, w \in Uploads : (pc'[v] \in Writing /\ pc'[w] \in Writing /\ proc[v] = proc[w]) => v = w
  BY <1>1 DEF IInv, GateHeld
<1>8. GateHeld'
  BY <1>1, <1>3, <1>5, <1>6, <1>7 DEF IInv, GateHeld, At, Writing
<1> QED BY <1>2, <1>8 DEF IInv

LEMMA CrashIInv ==
  ASSUME IInv, NEW p \in Procs, Crash(p) PROVE IInv'
<1>1. /\ \E i \in Pids : (\A q \in Procs \ {p} : pid[q] # i) /\ pid' = [pid EXCEPT ![p] = i]
      /\ UNCHANGED <<file, tmp, proc, place, bytes>> /\ crashes' = crashes + 1 /\ crashes < MaxCrashes
      /\ pc' \in [Uploads -> Writing \cup {"idle", "refused", "failed", "created", "unrecorded", "lost"}]
      /\ \A u \in Uploads : pc'[u] \in Writing => pc'[u] = pc[u] /\ proc[u] # p
  BY DEF Crash, AfterCrash, IInv, TypeOK, Writing
<1>2. TypeOK'
  BY <1>1, PlacementAssumption DEF IInv, TypeOK, PlacementAssumption
<1>3. \A u \in Uploads : pc'[u] \in Writing => TmpOf(u)' = TmpOf(u) /\ proc[u] \in Procs
  BY <1>1 DEF IInv, TypeOK, GateHeld, TmpOf
<1>4. \A q, r \in Procs : pid'[q] = pid'[r] => q = r
  BY <1>1 DEF IInv, TypeOK, GateHeld
<1>5. \A u \in Uploads : pc'[u] \in {"gate", "replace"} => tmp'[TmpOf(u)'] = bytes'[u]
  BY <1>1, <1>3 DEF IInv, GateHeld, Writing
<1>6. /\ \A u \in Uploads : pc'[u] = "replace" => file'[place'[u]] = Empty
      /\ \A u, v \in Uploads : (pc'[u] = "replace" /\ pc'[v] = "replace" /\ place'[u] = place'[v]) => u = v
  BY <1>1 DEF IInv, GateHeld, At, Writing
<1>7. /\ \A u \in Uploads : pc'[u] \in Writing =>
           proc'[u] \in Procs /\ place'[u] \in Dests /\ bytes'[u] \in Blobs
      /\ \A u, v \in Uploads : (pc'[u] \in Writing /\ pc'[v] \in Writing /\ proc'[u] = proc'[v]) => u = v
  BY <1>1 DEF IInv, GateHeld
<1>8. GateHeld'
  BY <1>4, <1>5, <1>6, <1>7 DEF GateHeld, At
<1> QED BY <1>2, <1>8 DEF IInv

LEMMA TouchIInv ==
  ASSUME IInv, NEW d \in Dests, Touch(d) PROVE IInv'
<1>1. TypeOK'
  BY DEF IInv, TypeOK, Touch
<1>2. GateHeld'
  BY DEF IInv, TypeOK, GateHeld, Touch, At, TmpOf, Writing
<1> QED BY <1>1, <1>2 DEF IInv

LEMMA StutterIInv ==
  ASSUME IInv, UNCHANGED vars PROVE IInv'
<1>1. TypeOK'
  BY DEF IInv, TypeOK, vars
<1>2. GateHeld'
  BY DEF IInv, GateHeld, vars, At, TmpOf
<1> QED BY <1>1, <1>2 DEF IInv

LEMMA StepIInv == IInv /\ [Next]_vars => IInv'
  BY Steps, AcceptIInv, RefuseIInv, UploadIInv, CrashIInv, TouchIInv, StutterIInv DEF Refuse

\* At every destination there is no file, the user's, an empty one or a whole content,
\* in every behaviour: no upload leaves a part of one there (security.py:220-223).
THEOREM TypeCorrect == Spec => []TypeOK
  BY InitIInv, StepIInv, PTL DEF Spec, IInv

\* From the exclusive creation to the rename a destination belongs to one upload,
\* whose bytes are at its own temporary name (security.py:218-223).
THEOREM GateIsHeld == Spec => []GateHeld
  BY InitIInv, StepIInv, PTL DEF Spec, IInv

-----------------------------------------------------------------------------
(* What is left behind *)

LEMMA InitLeftovers == Init => LeftoversHaveCause
  BY PlacementAssumption DEF Init, LeftoversHaveCause, PlacementAssumption

LEMMA IdleLeftovers ==
  ASSUME IInv, LeftoversHaveCause, NEW u \in Uploads, At(u, "idle"), UNCHANGED <<file, tmp, pid>>,
         NEW s \in {"open", "refused"}, pc' = [pc EXCEPT ![u] = s],
         \A v \in Uploads \ {u} : proc'[v] = proc[v] /\ place'[v] = place[v] /\ bytes'[v] = bytes[v]
  PROVE  LeftoversHaveCause'
<1>1. \A v \in Uploads : pc[v] # "idle" =>
         pc'[v] = pc[v] /\ proc'[v] = proc[v] /\ place'[v] = place[v] /\ bytes'[v] = bytes[v]
  BY DEF At, IInv, TypeOK
<1> QED BY <1>1 DEF LeftoversHaveCause, At

LEMMA UploadLeftovers ==
  ASSUME IInv, LeftoversHaveCause, NEW u \in Uploads, UploadStep(u)
  PROVE  LeftoversHaveCause'
<1>0. PICK s \in (Writing \ {"open"}) \cup {"refused", "failed", "created", "unrecorded"} :
        pc' = [pc EXCEPT ![u] = s]
  BY UploadEffect
<1>1. /\ pc[u] \in Writing /\ UNCHANGED <<pid, proc, place, bytes>>
      /\ pc'[u] = s /\ \A v \in Uploads \ {u} : pc'[v] = pc[v]
      /\ TmpOf(u) = <<place[u], pid[proc[u]]>> /\ place[u] \in Dests /\ bytes[u] \in Blobs
  BY <1>0, UploadEffect DEF IInv, TypeOK, GateHeld, TmpOf
<1>2. ASSUME NEW d \in Dests, file'[d] = Empty
      PROVE  \E v \in Uploads : place'[v] = d /\ pc'[v] \in {"replace", "failed", "lost"}
  <2>1. CASE s = "replace" /\ d = place[u]
    BY <1>1, <2>1
  <2>2. CASE s = "record" /\ d = place[u]
    BY <1>1, <1>2, <2>2, UploadLeaves, PlacementAssumption DEF PlacementAssumption
  <2>3. CASE s \notin {"replace", "record"} \/ d # place[u]
    <3>1. file[d] = Empty
      BY <1>1, <1>2, <2>3, UploadEffect, UploadLeaves
    <3>2. PICK v \in Uploads : place[v] = d /\ pc[v] \in {"replace", "failed", "lost"}
      BY <3>1 DEF LeftoversHaveCause
    <3>3. CASE v # u
      BY <1>1, <3>2, <3>3
    <3>4. CASE v = u
      <4>1. s \notin {"replace", "record", "created", "unrecorded"}
        BY <1>1, <2>3, <3>2, <3>4, UploadLeaves DEF At
      <4>2. pc[u] = "replace" /\ s \in {"write", "gate", "refused", "failed"}
        BY <1>1, <3>2, <3>4, <4>1 DEF Writing
      <4>3. s = "failed"
        BY <1>0, <1>1, <4>2 DEF UploadStep, OpenTmp, WriteTmp, Gate, Conflict, Replace, WriteFails,
           Record, RecordFails, Goto, At, IInv, TypeOK
      <4> QED BY <1>1, <3>2, <3>4, <4>3
    <3> QED BY <3>3, <3>4
  <2> QED BY <2>1, <2>2, <2>3
<1>3. ASSUME NEW d \in Dests, NEW i \in Pids, tmp'[<<d, i>>] # Absent
      PROVE  \E v \in Uploads : /\ place'[v] = d
                                /\ \/ pc'[v] \in {"write", "gate", "replace"} /\ pid'[proc'[v]] = i
                                   \/ pc'[v] = "lost"
  <2>1. CASE <<d, i>> = TmpOf(u) /\ s \in {"write", "gate", "replace"}
    BY <1>1, <2>1
  <2>2. CASE <<d, i>> = TmpOf(u) /\ s \in {"refused", "failed", "record"}
    BY <1>1, <1>3, <2>2, UploadLeaves
  <2>3. CASE <<d, i>> # TmpOf(u) \/ s \in {"created", "unrecorded"}
    <3>1. tmp[<<d, i>>] # Absent
      BY <1>1, <1>3, <2>3, UploadEffect, UploadLeaves
    <3>2. PICK v \in Uploads : /\ place[v] = d
                               /\ \/ pc[v] \in {"write", "gate", "replace"} /\ pid[proc[v]] = i
                                  \/ pc[v] = "lost"
      BY <3>1 DEF LeftoversHaveCause, At
    <3>3. v # u
      BY <1>1, <2>3, <3>2, UploadLeaves DEF Writing, At
    <3> QED BY <1>1, <3>2, <3>3
  <2> QED BY <1>1, <2>1, <2>2, <2>3 DEF Writing
<1>4. ASSUME NEW d \in Dests, file'[d] \in Blobs
      PROVE  \E v \in Uploads : /\ place'[v] = d /\ bytes'[v] = file'[d]
                                /\ pc'[v] \in {"record", "created", "unrecorded"}
  <2>1. CASE s = "record" /\ d = place[u]
    BY <1>1, <2>1, UploadLeaves
  <2>2. CASE s = "replace" /\ d = place[u]
    BY <1>1, <1>4, <2>2, UploadLeaves, PlacementAssumption DEF PlacementAssumption
  <2>3. CASE s \notin {"replace", "record"} \/ d # place[u]
    <3>1. file[d] = file'[d]
      BY <1>1, <2>3, UploadEffect, UploadLeaves
    <3>2. PICK v \in Uploads : /\ place[v] = d /\ bytes[v] = file[d]
                               /\ pc[v] \in {"record", "created", "unrecorded"}
      BY <1>4, <3>1 DEF LeftoversHaveCause
    <3>3. v = u => s \in {"created", "unrecorded"}
      <4> SUFFICES ASSUME pc[u] = "record" PROVE s \in {"created", "unrecorded"}
        BY <1>1, <3>2 DEF Writing
      <4> QED BY <1>0, <1>1 DEF UploadStep, OpenTmp, WriteTmp, Gate, Conflict, Replace, WriteFails,
           Record, RecordFails, Goto, At, IInv, TypeOK
    <3> QED BY <1>1, <3>1, <3>2, <3>3
  <2> QED BY <2>1, <2>2, <2>3
<1> QED BY <1>2, <1>3, <1>4 DEF LeftoversHaveCause, At

LEMMA CrashLeftovers ==
  ASSUME IInv, LeftoversHaveCause, NEW p \in Procs, Crash(p)
  PROVE  LeftoversHaveCause'
<1>1. /\ UNCHANGED <<file, tmp, proc, place, bytes>>
      /\ \A q \in Procs \ {p} : pid'[q] = pid[q]
      /\ \A u \in Uploads : \/ pc'[u] = pc[u] /\ (pc[u] \in Writing => proc[u] # p)
                            \/ pc[u] = "record" /\ pc'[u] = "unrecorded"
                            \/ pc[u] \in {"open", "write", "gate", "replace"} /\ pc'[u] = "lost"
      /\ \A u \in Uploads : pc[u] \in Writing => proc[u] \in Procs
  BY DEF Crash, AfterCrash, At, IInv, TypeOK, GateHeld, Writing
<1>2. \A d \in Dests : file'[d] = Empty =>
         \E u \in Uploads : place'[u] = d /\ pc'[u] \in {"replace", "failed", "lost"}
  BY <1>1 DEF LeftoversHaveCause
<1>3. \A u \in Uploads : pc'[u] \in {"write", "gate", "replace"} => pid'[proc[u]] = pid[proc[u]]
  BY <1>1 DEF Writing
<1>4. \A d \in Dests, i \in Pids : tmp'[<<d, i>>] # Absent =>
         \E u \in Uploads : /\ place'[u] = d
                            /\ \/ pc'[u] \in {"write", "gate", "replace"} /\ pid'[proc'[u]] = i
                               \/ pc'[u] = "lost"
  BY <1>1, <1>3 DEF LeftoversHaveCause, At
<1>5. \A d \in Dests : file'[d] \in Blobs =>
         \E u \in Uploads : /\ place'[u] = d /\ bytes'[u] = file'[d]
                            /\ pc'[u] \in {"record", "created", "unrecorded"}
  BY <1>1 DEF LeftoversHaveCause
<1> QED BY <1>2, <1>4, <1>5 DEF LeftoversHaveCause, At

LEMMA TouchLeftovers ==
  ASSUME IInv, LeftoversHaveCause, NEW d \in Dests, Touch(d)
  PROVE  LeftoversHaveCause'
<1>1. /\ UNCHANGED <<tmp, pid, pc, proc, place, bytes>>
      /\ file'[d] \in {Absent, Foreign} /\ \A e \in Dests \ {d} : file'[e] = file[e]
  BY DEF Touch, IInv, TypeOK
<1> QED BY <1>1, PlacementAssumption DEF LeftoversHaveCause, At, PlacementAssumption

LEMMA StepLeftovers == IInv /\ LeftoversHaveCause /\ [Next]_vars => LeftoversHaveCause'
<1> SUFFICES ASSUME IInv, LeftoversHaveCause, [Next]_vars PROVE LeftoversHaveCause'
  OBVIOUS
<1>1. CASE UNCHANGED vars
  BY <1>1 DEF vars, LeftoversHaveCause, At
<1>2. ASSUME NEW u \in Uploads, NEW p \in Procs, NEW raw \in RawPaths, NEW b \in Blobs,
             Accept(u, p, raw, b) \/ Refuse(u, p, raw, b)
      PROVE  LeftoversHaveCause'
  <2>1. /\ At(u, "idle") /\ UNCHANGED <<file, tmp, pid>>
        /\ \E s \in {"open", "refused"} : pc' = [pc EXCEPT ![u] = s]
        /\ \A v \in Uploads \ {u} : proc'[v] = proc[v] /\ place'[v] = place[v] /\ bytes'[v] = bytes[v]
    BY <1>2 DEF Accept, Refuse, Goto, IInv, TypeOK
  <2> QED BY <2>1, IdleLeftovers
<1> QED BY <1>1, <1>2, Steps, UploadLeftovers, CrashLeftovers, TouchLeftovers

\* In every behaviour an empty destination, a temporary file and a placed content have
\* their cause: what was refused leaves nothing (security.py:224-228).
THEOREM LeftoversCaused == Spec => []LeftoversHaveCause
  BY InitIInv, StepIInv, InitLeftovers, StepLeftovers, PTL DEF Spec

-----------------------------------------------------------------------------
(* Placement implements PlacementContract *)

State == [u \in Uploads |-> Phase(pc[u])]

LEMMA InitContract == Init => Contract!Init
<1> SUFFICES ASSUME Init PROVE Contract!Init
  OBVIOUS
<1>1. Seen \in [Dests -> {Absent, Foreign}]
  BY PlacementAssumption DEF Init, Seen, PlacementAssumption
<1>2. [u \in Uploads |-> Phase(pc[u])] = [u \in Uploads |-> "idle"]
  BY DEF Init, Phase
<1> QED BY <1>1, <1>2 DEF Init, Contract!Init

\* How a change of one upload's place in the code, or of a destination, is seen.
LEMMA StateChange ==
  ASSUME TypeOK, NEW u \in Uploads, NEW s, pc' = [pc EXCEPT ![u] = s]
  PROVE  State' = [State EXCEPT ![u] = Phase(s)]
  BY DEF State, TypeOK

LEMMA SeenChange ==
  ASSUME TypeOK, NEW d \in Dests, NEW c, file' = [file EXCEPT ![d] = c]
  PROVE  Seen' = [Seen EXCEPT ![d] = IF c = Empty THEN Absent ELSE c]
  BY DEF Seen, TypeOK

LEMMA SeenStays == ASSUME UNCHANGED file PROVE UNCHANGED Seen
  BY DEF Seen

LEMMA AcceptContract ==
  ASSUME IInv, NEW u \in Uploads, NEW p \in Procs, NEW raw \in RawPaths, NEW b \in Blobs,
         Accept(u, p, raw, b)
  PROVE  Contract!Ask(u)
<1>1. State[u] = "idle" /\ State' = [State EXCEPT ![u] = "asked"] /\ UNCHANGED Seen
  BY StateChange, SeenStays DEF Accept, At, Phase, State, IInv
<1>2. \E d \in Dests, c \in Blobs : /\ place' = [place EXCEPT ![u] = d]
                                   /\ bytes' = [bytes EXCEPT ![u] = c]
  BY ModelsHaveAPlace DEF Accept
<1> QED BY <1>1, <1>2 DEF Contract!Ask, State

\* A step on the way to the gate, and through it, is not seen; a failed one is a refusal.
LEMMA UploadContract ==
  ASSUME IInv, NEW u \in Uploads, UploadStep(u)
  PROVE  \/ UNCHANGED <<Seen, State, place, bytes>>
         \/ Contract!Refuse(u) \/ Contract!Land(u) \/ Contract!Confirm(u) \/ Contract!Lose(u)
<1>0. /\ TypeOK /\ State[u] = Phase(pc[u]) /\ UNCHANGED <<place, bytes>>
      /\ place[u] \in Dests /\ bytes[u] \in Blobs
  BY UploadEffect DEF State, IInv, GateHeld
<1>1. CASE OpenTmp(u)
  <2>1. State' = [State EXCEPT ![u] = "asked"] /\ State[u] = "asked" /\ UNCHANGED Seen
    BY <1>0, <1>1, StateChange, SeenStays DEF OpenTmp, Goto, At, Phase
  <2> QED BY <1>0, <2>1 DEF State
<1>2. CASE WriteTmp(u)
  <2>1. State' = [State EXCEPT ![u] = "asked"] /\ State[u] = "asked" /\ UNCHANGED Seen
    BY <1>0, <1>2, StateChange, SeenStays DEF WriteTmp, Goto, At, Phase
  <2> QED BY <1>0, <2>1 DEF State
<1>3. CASE Gate(u)
  <2>1. State' = [State EXCEPT ![u] = "asked"] /\ State[u] = "asked"
    BY <1>0, <1>3, StateChange DEF Gate, Goto, At, Phase
  <2>2. Seen' = [Seen EXCEPT ![place[u]] = Absent] /\ Seen[place[u]] = Absent
    BY <1>0, <1>3, SeenChange DEF Gate, Seen
  <2>3. UNCHANGED Seen
    BY <2>2 DEF Seen
  <2>4. UNCHANGED State
    BY <2>1 DEF State
  <2> QED BY <1>0, <2>3, <2>4
<1>4. CASE Conflict(u) \/ WriteFails(u)
  <2>1. State' = [State EXCEPT ![u] = "refused"] /\ State[u] = "asked" /\ UNCHANGED Seen
    BY <1>0, <1>4, StateChange, SeenStays DEF Conflict, WriteFails, Goto, At, Phase
  <2> QED BY <1>0, <2>1 DEF State, Contract!Refuse, Contract!To
<1>5. CASE Replace(u)
  <2>1. State' = [State EXCEPT ![u] = "landed"] /\ State[u] = "asked"
    BY <1>0, <1>5, StateChange DEF Replace, Goto, At, Phase
  <2>2. file[place[u]] = Empty /\ tmp[TmpOf(u)] = bytes[u] /\ bytes[u] # Empty
    BY <1>0, <1>5, PlacementAssumption DEF Replace, IInv, GateHeld, At, PlacementAssumption
  <2>3. Seen[place[u]] = Absent
    BY <1>0, <2>2 DEF Seen
  <2>4. Seen' = [Seen EXCEPT ![place[u]] = bytes[u]]
    BY <1>0, <1>5, <2>2, SeenChange DEF Replace
  <2> QED BY <1>0, <2>1, <2>3, <2>4 DEF State, Contract!Land, Contract!To
<1>6. CASE Record(u)
  <2>1. State' = [State EXCEPT ![u] = "created"] /\ State[u] = "landed" /\ UNCHANGED Seen
    BY <1>0, <1>6, StateChange, SeenStays DEF Record, Goto, At, Phase
  <2> QED BY <1>0, <2>1 DEF State, Contract!Confirm, Contract!To
<1>7. CASE RecordFails(u)
  <2>1. State' = [State EXCEPT ![u] = "unrecorded"] /\ State[u] = "landed" /\ UNCHANGED Seen
    BY <1>0, <1>7, StateChange, SeenStays DEF RecordFails, Goto, At, Phase
  <2> QED BY <1>0, <2>1 DEF State, Contract!Lose, Contract!To
<1> QED BY <1>1, <1>2, <1>3, <1>4, <1>5, <1>6, <1>7 DEF UploadStep

\* A process serves one upload at a time, so a crash takes at most one with it.
LEMMA CrashContract ==
  ASSUME IInv, NEW p \in Procs, Crash(p)
  PROVE  \/ UNCHANGED <<Seen, State, place, bytes>>
         \/ \E u \in Uploads : Contract!Refuse(u) \/ Contract!Lose(u)
<1>0. TypeOK /\ UNCHANGED <<Seen, place, bytes>>
  BY SeenStays DEF Crash, IInv
<1>1. CASE ~Busy(p)
  <2>1. pc' = pc
    BY <1>1 DEF Crash, Busy, IInv, TypeOK
  <2> QED BY <1>0, <2>1 DEF State
<1>2. CASE Busy(p)
  <2>1. PICK u \in Uploads : pc[u] \in Writing /\ proc[u] = p
    BY <1>2 DEF Busy
  <2>2. pc' = [pc EXCEPT ![u] = AfterCrash(u)]
    BY <2>1 DEF Crash, IInv, TypeOK, GateHeld
  <2>3. CASE pc[u] = "record"
    <3>1. State' = [State EXCEPT ![u] = "unrecorded"] /\ State[u] = "landed"
      BY <1>0, <2>2, <2>3, StateChange DEF AfterCrash, At, Phase, State
    <3> QED BY <1>0, <3>1 DEF State, Contract!Lose, Contract!To
  <2>4. CASE pc[u] # "record"
    <3>1. State' = [State EXCEPT ![u] = "refused"] /\ State[u] = "asked"
      BY <1>0, <2>1, <2>2, <2>4, StateChange DEF AfterCrash, At, Phase, State, Writing
    <3> QED BY <1>0, <3>1 DEF State, Contract!Refuse, Contract!To
  <2> QED BY <2>3, <2>4
<1> QED BY <1>1, <1>2

LEMMA TouchContract ==
  ASSUME IInv, NEW d \in Dests, Touch(d)
  PROVE  UNCHANGED <<Seen, State, place, bytes>> \/ Contract!Touch(d)
<1>0. TypeOK /\ UNCHANGED <<State, place, bytes>>
  BY DEF Touch, IInv, State
<1>1. Seen' = [Seen EXCEPT ![d] = IF file[d] = Absent THEN Foreign ELSE Absent]
  <2>1. file' = [file EXCEPT ![d] = IF file[d] = Absent THEN Foreign ELSE Absent]
    BY <1>0 DEF Touch, TypeOK
  <2> QED BY <1>0, <2>1, SeenChange, PlacementAssumption DEF PlacementAssumption
<1>2. CASE file[d] = Empty
  <2>1. Seen[d] = Absent /\ Seen' = [Seen EXCEPT ![d] = Absent]
    BY <1>1, <1>2, PlacementAssumption DEF Seen, PlacementAssumption
  <2> QED BY <1>0, <2>1 DEF Seen
<1>3. CASE file[d] # Empty
  <2>1. Seen[d] = file[d]
    BY <1>3 DEF Seen
  <2> QED BY <1>0, <1>1, <2>1 DEF State, Contract!Touch
<1> QED BY <1>2, <1>3

LEMMA StepContract == IInv /\ [Next]_vars => [Contract!Next]_(Contract!vars)
<1> SUFFICES ASSUME IInv, [Next]_vars PROVE [Contract!Next]_(Contract!vars)
  OBVIOUS
<1>1. CASE UNCHANGED vars
  BY <1>1 DEF vars, Contract!vars, Seen
<1>2. ASSUME NEW u \in Uploads, NEW p \in Procs, NEW raw \in RawPaths, NEW b \in Blobs,
             Accept(u, p, raw, b)
      PROVE  Contract!Next
  BY <1>2, AcceptContract DEF Contract!Next
<1>3. ASSUME NEW u \in Uploads, NEW p \in Procs, NEW raw \in RawPaths, NEW b \in Blobs,
             Refuse(u, p, raw, b)
      PROVE  Contract!Next
  <2>1. State' = [State EXCEPT ![u] = "refused"] /\ State[u] = "idle" /\ UNCHANGED <<Seen, place, bytes>>
    BY <1>3, StateChange, SeenStays DEF Refuse, Goto, At, Phase, State, IInv
  <2> QED BY <2>1 DEF State, Contract!Next, Contract!Refuse, Contract!To
<1>4. ASSUME NEW u \in Uploads, UploadStep(u) PROVE [Contract!Next]_(Contract!vars)
  BY <1>4, UploadContract DEF Contract!Next, Contract!vars, State
<1>5. ASSUME NEW p \in Procs, Crash(p) PROVE [Contract!Next]_(Contract!vars)
  BY <1>5, CrashContract DEF Contract!Next, Contract!vars, State
<1>6. ASSUME NEW d \in Dests, Touch(d) PROVE [Contract!Next]_(Contract!vars)
  BY <1>6, TouchContract DEF Contract!Next, Contract!vars, State
<1> QED BY <1>1, <1>2, <1>3, <1>4, <1>5, <1>6, Steps

\* Whatever number of proxies place whatever number of models, and wherever they
\* crash: a file lands whole, where nothing was, and nothing that landed is replaced
\* by another upload (README.md:155-158, security.py:207-228).
THEOREM PlacementContracted == Spec => ImplementsContract
  BY InitIInv, StepIInv, InitContract, StepContract, PTL DEF Spec, ImplementsContract, Contract!Spec
=============================================================================
