--------------------------- MODULE JobEventsProofs ---------------------------
(***************************************************************************)
(* Event streams: the cap on them, and what they send.                     *)
(*                                                                         *)
(* The cap.  A step does one of three things to the slots: it gives one    *)
(* back (Finish), takes one (Attach), or leaves the set of streams that    *)
(* hold one as it is; a lemma for each, then a case for each action.       *)
(*                                                                         *)
(* The logs.  Lemmas on sequences say what a status or some outputs at the *)
(* end of a log leave true of it, Emit is described by them, and the       *)
(* delivery of a status read by Emit.  What a stream has sent is then tied *)
(* to what it remembers (LogOK), to where it is (PlaceOK) and to how it    *)
(* ended (VerdictOK); each step is one of seven kinds, from Advances to    *)
(* Reports, and leaves every other stream alone.                           *)
(***************************************************************************)
EXTENDS JobEvents, FiniteSetTheorems, TLAPS

Slots == {s \in Streams : Holding(s)}

\* The inductive invariant: the types the slots depend on, the count, the cap,
\* and that no handler is suspended in prepare unless prepare suspends.
SlotInv ==
  /\ pc \in [Streams -> Pcs] /\ why \in [Streams -> Reasons] /\ openStreams \in Nat
  /\ SlotsCounted
  /\ CapRespected
  /\ PrepareYields \/ \A s \in Streams : pc[s] # "prepare"

LEMMA SlotsFinite == IsFiniteSet(Slots)
  BY EventsAssumption, FS_Subset DEF EventsAssumption, Slots

\* A step that leaves the counter alone and moves one stream, which holds a slot
\* after it as it did before, or not.
LEMMA SlotKept ==
  ASSUME SlotInv, NEW s \in Streams,
         NEW p \in Pcs \ {"prepare"}, NEW w \in Reasons,
         pc' = [pc EXCEPT ![s] = p], why' = [why EXCEPT ![s] = w],
         Holding(s)' <=> Holding(s),
         openStreams' = openStreams
  PROVE  SlotInv'
<1>1. \A t \in Streams : Holding(t)' <=> Holding(t)
  BY DEF Holding, SlotInv
<1>2. SlotsCounted'
  BY <1>1 DEF SlotInv, SlotsCounted
<1> QED BY <1>2 DEF SlotInv, CapRespected

\* A step that moves no stream.
LEMMA SlotStill ==
  ASSUME SlotInv, UNCHANGED <<pc, why, openStreams>> PROVE SlotInv'
  BY DEF SlotInv, SlotsCounted, CapRespected, Holding

\* The end of a request gives its slot back, if it has one.
LEMMA SlotFreed ==
  ASSUME SlotInv, NEW s \in Streams, NEW how, Finish(s, how) PROVE SlotInv'
<1>1. /\ pc' = [pc EXCEPT ![s] = "done"] /\ why' = why
      /\ openStreams' = IF Holding(s) THEN openStreams - 1 ELSE openStreams
  BY DEF Finish, Goto
<1>2. /\ ~ Holding(s)'
      /\ \A t \in Streams \ {s} : Holding(t)' <=> Holding(t)
  BY <1>1 DEF Holding, SlotInv
<1>3. Slots' = Slots \ {s}
  BY <1>2 DEF Slots
<1>4. Cardinality(Slots') = IF Holding(s) THEN Cardinality(Slots) - 1 ELSE Cardinality(Slots)
  BY <1>3, SlotsFinite, FS_RemoveElement DEF Slots
<1>5. openStreams = Cardinality(Slots) /\ Cardinality(Slots') \in Nat
  BY <1>3, SlotsFinite, FS_RemoveElement, FS_CardinalityType DEF SlotInv, SlotsCounted, Slots
<1>6. openStreams' = Cardinality(Slots')
  BY <1>1, <1>4, <1>5
<1>7. openStreams' \in Nat /\ openStreams' <= openStreams
  BY <1>1, <1>5, <1>6 DEF SlotInv
<1>8. SlotsCounted'
  BY <1>6 DEF SlotsCounted, Slots
<1>9. CapRespected'
  BY <1>7, EventsAssumption DEF SlotInv, CapRespected, EventsAssumption
<1>10. /\ pc' \in [Streams -> Pcs] /\ why' \in [Streams -> Reasons]
       /\ PrepareYields \/ \A t \in Streams : pc'[t] # "prepare"
  BY <1>1 DEF SlotInv, Pcs
<1> QED BY <1>7, <1>8, <1>9, <1>10 DEF SlotInv

\* A stream takes a slot only below the cap, or after a prepare that suspends.
LEMMA SlotTaken ==
  ASSUME SlotInv, NEW s \in Streams, Attach(s),
         pc[s] = "prepare" \/ (why[s] = "admit" /\ pc[s] \in {"history", "queue"}),
         PrepareYields \/ openStreams < MaxStreams
  PROVE  SlotInv'
<1>1. /\ pc' = [pc EXCEPT ![s] = "history"] /\ why' = [why EXCEPT ![s] = "connect"]
      /\ openStreams' = openStreams + 1
  BY DEF Attach, Read, Goto
<1>2. /\ ~ Holding(s) /\ Holding(s)'
      /\ \A t \in Streams \ {s} : Holding(t)' <=> Holding(t)
  BY <1>1 DEF Holding, SlotInv
<1>3. Slots' = Slots \cup {s} /\ s \notin Slots
  BY <1>2 DEF Slots
<1>4. Cardinality(Slots') = Cardinality(Slots) + 1
  BY <1>3, SlotsFinite, FS_AddElement
<1>5. SlotsCounted'
  BY <1>1, <1>4 DEF SlotInv, SlotsCounted, Slots
<1>6. openStreams' \in Nat /\ CapRespected'
  BY <1>1, EventsAssumption DEF SlotInv, CapRespected, EventsAssumption
<1>7. /\ pc' \in [Streams -> Pcs] /\ why' \in [Streams -> Reasons]
      /\ PrepareYields \/ \A t \in Streams : pc'[t] # "prepare"
  BY <1>1 DEF SlotInv, Pcs, Reasons
<1> QED BY <1>5, <1>6, <1>7 DEF SlotInv

LEMMA SlotAdmitted ==
  ASSUME SlotInv, NEW s \in Streams, NEW status, Admit(s, status),
         why[s] = "admit", pc[s] \in {"history", "queue"}
  PROVE  SlotInv'
<1>1. CASE Finish(s, "answered")
  BY <1>1, SlotFreed
<1>2. CASE /\ openStreams < MaxStreams /\ ~PrepareYields /\ Attach(s)
  BY <1>2, SlotTaken
<1>3. CASE PrepareYields /\ Goto(s, "prepare") /\ UNCHANGED <<why, openStreams>>
  <2>1. pc' = [pc EXCEPT ![s] = "prepare"]
    BY <1>3 DEF Goto
  <2>2. \A t \in Streams : Holding(t)' <=> Holding(t)
    BY <1>3, <2>1 DEF Holding, SlotInv
  <2>3. SlotsCounted' /\ CapRespected'
    BY <1>3, <2>2 DEF SlotInv, SlotsCounted, CapRespected
  <2> QED BY <1>3, <2>1, <2>3 DEF SlotInv, Pcs
<1> QED BY <1>1, <1>2, <1>3, EventsAssumption DEF Admit, EventsAssumption

\* However a status read is answered, the count stays right.
LEMMA SlotDelivered ==
  ASSUME SlotInv, NEW s \in Streams, NEW read, NEW outs, Deliver(s, read, outs),
         pc[s] \in {"history", "queue"}
  PROVE  SlotInv'
<1>1. CASE why[s] = "admit" /\ Admit(s, read)
  BY <1>1, SlotAdmitted
<1>2. CASE Finish(s, "finished")
  BY <1>2, SlotFreed
<1>3. CASE /\ why[s] \in Reasons \ {"admit"}
           /\ \E p \in {"connect", "live", "sleep"} : Goto(s, p)
           /\ UNCHANGED <<why, openStreams>>
  <2>1. PICK p \in {"connect", "live", "sleep"} : pc' = [pc EXCEPT ![s] = p]
    BY <1>3 DEF Goto
  <2>2. Holding(s) /\ Holding(s)'
    BY <1>3, <2>1 DEF Holding, SlotInv
  <2>3. why' = [why EXCEPT ![s] = why[s]] /\ why[s] \in Reasons
    BY <1>3 DEF SlotInv
  <2> QED BY <1>3, <2>1, <2>2, <2>3, SlotKept DEF Pcs
<1>4. \/ why[s] = "admit" /\ Admit(s, read)
      \/ Finish(s, "finished")
      \/ /\ why[s] = "connect" /\ Goto(s, "connect") /\ UNCHANGED <<why, openStreams>>
      \/ /\ why[s] = "executed" /\ Goto(s, "live") /\ UNCHANGED <<why, openStreams>>
      \/ /\ why[s] \in {"quiet", "poll"} /\ UNCHANGED <<why, openStreams>>
         /\ Goto(s, IF why[s] = "quiet" THEN "live" ELSE "sleep")
  BY Zenon DEF Deliver
<1>5. why[s] \in Reasons
  BY DEF SlotInv
<1> QED BY <1>1, <1>2, <1>3, <1>4, <1>5 DEF Reasons

\* A stream that starts a status read holds its slot as before.
LEMMA SlotReading ==
  ASSUME SlotInv, NEW s \in Streams, NEW w \in Reasons, Read(s, w), openStreams' = openStreams,
         (w = "admit" /\ pc[s] = "new") \/ (w # "admit" /\ pc[s] \in {"connect", "live", "sleep"})
  PROVE  SlotInv'
<1>1. pc' = [pc EXCEPT ![s] = "history"] /\ why' = [why EXCEPT ![s] = w]
  BY DEF Read, Goto
<1>2. Holding(s)' <=> Holding(s)
  BY <1>1 DEF Holding, SlotInv
<1> QED BY <1>1, <1>2, SlotKept DEF Pcs

LEMMA SlotNext == ASSUME SlotInv, [Next]_vars PROVE SlotInv'
<1>1. ASSUME NEW s \in Streams, Request(s) PROVE SlotInv'
  BY <1>1, SlotReading DEF Request, Reasons
<1>2. ASSUME NEW s \in Streams, ReadHistory(s) PROVE SlotInv'
  <2>1. CASE Goto(s, "queue") /\ UNCHANGED <<why, openStreams>>
    <3>1. pc' = [pc EXCEPT ![s] = "queue"] /\ why' = [why EXCEPT ![s] = why[s]]
      BY <2>1 DEF Goto, SlotInv
    <3>2. Holding(s)' <=> Holding(s)
      BY <1>2, <2>1, <3>1 DEF ReadHistory, Holding, SlotInv
    <3>3. why[s] \in Reasons /\ openStreams' = openStreams
      BY <2>1 DEF SlotInv
    <3> QED BY <3>1, <3>2, <3>3, SlotKept DEF Pcs
  <2> QED BY <1>2, <2>1, SlotDelivered DEF ReadHistory
<1>3. ASSUME NEW s \in Streams, ReadQueue(s) PROVE SlotInv'
  BY <1>3, SlotDelivered DEF ReadQueue
<1>4. ASSUME NEW s \in Streams, Unreachable(s) PROVE SlotInv'
  BY <1>4, SlotFreed DEF Unreachable
<1>5. ASSUME NEW s \in Streams, Prepared(s) PROVE SlotInv'
  BY <1>5, SlotTaken DEF Prepared, SlotInv
<1>6. ASSUME NEW s \in Streams, Disconnect(s) PROVE SlotInv'
  BY <1>6, SlotFreed DEF Disconnect
<1>7. ASSUME NEW s \in Streams, Connect(s) PROVE SlotInv'
  <2>1. pc' = [pc EXCEPT ![s] = "live"] /\ why' = [why EXCEPT ![s] = why[s]]
    BY <1>7 DEF Connect, Goto, SlotInv
  <2>2. Holding(s)' <=> Holding(s)
    BY <1>7, <2>1 DEF Connect, Holding, SlotInv
  <2>3. why[s] \in Reasons /\ openStreams' = openStreams
    BY <1>7 DEF Connect, SlotInv
  <2> QED BY <2>1, <2>2, <2>3, SlotKept DEF Pcs
<1>8. ASSUME NEW s \in Streams, ConnectFails(s) \/ WsClosed(s) PROVE SlotInv'
  BY <1>8, SlotReading DEF ConnectFails, WsClosed, FallBack, Reasons
<1>9. ASSUME NEW s \in Streams, Receive(s) PROVE SlotInv'
  <2>1. CASE Read(s, "executed") \/ Read(s, "terminal")
    BY <1>9, <2>1, SlotReading DEF Receive, Reasons
  <2>2. CASE UNCHANGED <<pc, why>>
    BY <1>9, <2>2, SlotStill DEF Receive
  <2> QED BY <1>9, <2>1, <2>2 DEF Receive
<1>10. ASSUME NEW s \in Streams, ReceiveOther(s) \/ Elapse(s) PROVE SlotInv'
  BY <1>10, SlotStill DEF ReceiveOther, Elapse
<1>11. ASSUME NEW s \in Streams, TimedOut(s) PROVE SlotInv'
  BY <1>11, SlotReading DEF TimedOut, Reasons
<1>12. ASSUME NEW s \in Streams, PollAgain(s) PROVE SlotInv'
  BY <1>12, SlotReading DEF PollAgain, Reasons
<1>13. ASSUME NEW s \in Streams, PollDeadline(s) PROVE SlotInv'
  BY <1>13, SlotFreed DEF PollDeadline
<1>14. ASSUME NEW j \in Jobs, NodeExecuted(j) \/ Announce(j) PROVE SlotInv'
  BY <1>14, SlotStill DEF NodeExecuted, Announce
<1>15. CASE ComfyMoves
  BY <1>15, SlotStill DEF ComfyMoves
<1>16. CASE UNCHANGED vars
  BY <1>16, SlotStill DEF vars
<1> QED
  BY <1>1, <1>2, <1>3, <1>4, <1>5, <1>6, <1>7, <1>8, <1>9, <1>10, <1>11, <1>12, <1>13, <1>14,
     <1>15, <1>16 DEF Next, StreamStep

LEMMA SlotInit == Init => SlotInv
<1> SUFFICES ASSUME Init PROVE SlotInv
  OBVIOUS
<1>1. Slots = {}
  BY DEF Init, Slots, Holding
<1>2. SlotsCounted
  BY <1>1, FS_EmptySet DEF Init, SlotsCounted, Slots
<1> QED BY <1>2, EventsAssumption
        DEF Init, SlotInv, CapRespected, Pcs, Reasons, EventsAssumption

\* For any number of streams and any cap: the counter behind the cap counts the
\* streams under way, so every way a stream can end (app.py:985-992) gives its
\* slot back exactly once.
THEOREM SlotsExact == Spec => []SlotsCounted
<1>1. SlotInv => SlotsCounted
  BY DEF SlotInv
<1> QED BY <1>1, SlotInit, SlotNext, PTL DEF Spec

\* And the cap holds between the check and the increment, which nothing but a
\* suspended prepare could separate (app.py:942-981).
THEOREM CapHolds == Spec => []CapRespected
<1>1. SlotInv => CapRespected
  BY DEF SlotInv
<1> QED BY <1>1, SlotInit, SlotNext, PTL DEF Spec
-----------------------------------------------------------------------------
(* Logs: sequences of status and output frames *)

\* At most one status that is not the end, and it comes before the end.
Ordered(l) ==
  \A i, k \in DOMAIN l :
    (i < k /\ l[i] \in JobStatuses /\ l[k] \in JobStatuses)
      => l[i] \notin Terminal /\ l[k] \in Terminal

Verdicts(l) == {i \in DOMAIN l : l[i] \in Terminal}

\* No output twice.
Once(l) == \A i, k \in DOMAIN l : (l[i] \in Outputs /\ l[i] = l[k]) => i = k

\* SetToSeq lists a finite set, each element once.
LEMMA SetToSeqFacts ==
  ASSUME NEW S, IsFiniteSet(S)
  PROVE  /\ SetToSeq(S) \in Seq(S) /\ ToSet(SetToSeq(S)) = S /\ IsInjective(SetToSeq(S))
         /\ S = {} => SetToSeq(S) = <<>>
<1> DEFINE n == Cardinality(S)
<1>1. n \in Nat /\ ExistsBijection(1..n, S)
  BY FS_CardinalityType
<1>2. \E f \in [1..n -> S] : IsInjective(f)
  BY <1>1 DEF ExistsBijection, Bijection, Injection
<1>3. SetToSeq(S) \in [1..n -> S] /\ IsInjective(SetToSeq(S))
  BY <1>2 DEF SetToSeq
<1>4. PICK f \in [1..n -> S] : f = SetToSeq(S) /\ IsInjective(f)
  BY <1>3
<1>5. f \in Surjection(1..n, S)
  <2>1. f \in Injection(1..n, S)
    BY <1>4 DEF Injection
  <2>2. Cardinality(1..n) = n
    BY <1>1, FS_Interval
  <2> QED BY <2>1, <2>2, FS_Injection
<1>6. \A t \in S : \E i \in 1..n : f[i] = t
  BY <1>5 DEF Surjection
<1>7. f \in Seq(S) /\ ToSet(f) = S
  BY <1>1, <1>6 DEF ToSet
<1>8. S = {} => f = <<>>
  <2>1. SUFFICES ASSUME S = {} PROVE f = <<>>
    OBVIOUS
  <2>2. n = 0
    BY <2>1, FS_EmptySet
  <2> QED BY <1>1, <1>7, <2>2
<1> QED BY <1>4, <1>7, <1>8

\* What two sequences one after the other hold.
LEMMA JoinFacts ==
  ASSUME NEW T, NEW l \in Seq(T), NEW q \in Seq(T)
  PROVE  l \o q \in Seq(T) /\ ToSet(l \o q) = ToSet(l) \cup ToSet(q)
<1> DEFINE n == l \o q
<1>1. /\ n \in Seq(T) /\ Len(n) = Len(l) + Len(q)
      /\ DOMAIN n = 1..(Len(l) + Len(q)) /\ DOMAIN l = 1..Len(l) /\ DOMAIN q = 1..Len(q)
      /\ Len(l) \in Nat /\ Len(q) \in Nat
  OBVIOUS
<1>2. \A i \in DOMAIN l : i \in DOMAIN n /\ n[i] = l[i]
  BY <1>1
<1>3. \A i \in DOMAIN q : Len(l) + i \in DOMAIN n /\ n[Len(l) + i] = q[i]
  BY <1>1
<1>4. \A i \in DOMAIN n : i \in DOMAIN l \/ (i > Len(l) /\ i - Len(l) \in DOMAIN q
                                            /\ n[i] = q[i - Len(l)])
  BY <1>1
<1>5. ToSet(n) = ToSet(l) \cup ToSet(q)
  <2>1. ToSet(n) \subseteq ToSet(l) \cup ToSet(q)
    BY <1>2, <1>4 DEF ToSet
  <2>2. ToSet(l) \subseteq ToSet(n)
    BY <1>2 DEF ToSet
  <2>3. ToSet(q) \subseteq ToSet(n)
    <3>1. SUFFICES ASSUME NEW i \in DOMAIN q PROVE q[i] \in ToSet(n)
      BY DEF ToSet
    <3> QED BY <1>3 DEF ToSet
  <2> QED BY <2>1, <2>2, <2>3
<1> QED BY <1>1, <1>2, <1>3, <1>4, <1>5

\* Outputs at the end of a log.
LEMMA OutputsJoined ==
  ASSUME EventsAssumption, NEW l \in Seq(Frames), NEW q \in Seq(Frames),
         ToSet(q) \subseteq Outputs
  PROVE  /\ l \o q \in Seq(Frames) /\ ToSet(l \o q) = ToSet(l) \cup ToSet(q)
         /\ Ordered(l) => Ordered(l \o q)
         /\ Verdicts(l \o q) = Verdicts(l)
         /\ (Once(l) /\ IsInjective(q) /\ ToSet(q) \cap ToSet(l) = {}) => Once(l \o q)
<1>0. PICK n : n = l \o q
  OBVIOUS
<1>1. n \in Seq(Frames) /\ ToSet(n) = ToSet(l) \cup ToSet(q)
  BY <1>0, JoinFacts
<1>2. /\ \A i \in DOMAIN l : i \in DOMAIN n /\ n[i] = l[i]
      /\ \A i \in DOMAIN n : i \in DOMAIN l \/ (i > Len(l) /\ i - Len(l) \in DOMAIN q
                                               /\ n[i] = q[i - Len(l)])
      /\ DOMAIN n = 1..(Len(l) + Len(q)) /\ DOMAIN l = 1..Len(l) /\ Len(l) \in Nat
  BY <1>0
<1>3. \A i \in DOMAIN q : q[i] \in Outputs /\ q[i] \notin JobStatuses /\ q[i] \notin Terminal
  BY DEF EventsAssumption, JobStatuses, ToSet
<1>4. Ordered(l) => Ordered(n)
  BY <1>2, <1>3 DEF Ordered
<1>5. Verdicts(n) = Verdicts(l)
  BY <1>2, <1>3 DEF Verdicts
<1>6. ASSUME Once(l), IsInjective(q), ToSet(q) \cap ToSet(l) = {} PROVE Once(n)
  <2>1. SUFFICES ASSUME NEW i \in DOMAIN n, NEW k \in DOMAIN n, n[i] \in Outputs, n[i] = n[k]
                 PROVE  i = k
    BY DEF Once
  <2>2. i \in Int /\ k \in Int /\ Len(l) \in Nat
    BY <1>2
  <2>3. CASE i \in DOMAIN l /\ k \in DOMAIN l
    BY <1>2, <1>6, <2>1, <2>3 DEF Once
  <2>4. CASE i \notin DOMAIN l /\ k \notin DOMAIN l
    <3>1. i - Len(l) = k - Len(l)
      BY <1>2, <1>6, <2>1, <2>4 DEF IsInjective
    <3> QED BY <2>2, <3>1
  <2>5. ASSUME NEW a \in DOMAIN l, NEW b \in DOMAIN n, b \notin DOMAIN l, n[a] = n[b] PROVE FALSE
    <3>1. n[a] = l[a] /\ b - Len(l) \in DOMAIN q /\ n[b] = q[b - Len(l)]
      BY <1>2, <2>5
    <3>2. l[a] \in ToSet(l) /\ q[b - Len(l)] \in ToSet(q)
      BY <3>1 DEF ToSet
    <3> QED BY <1>6, <2>5, <3>1, <3>2
  <2> QED BY <2>1, <2>3, <2>4, <2>5
<1> QED BY <1>0, <1>1, <1>4, <1>5, <1>6

\* A status at the end of a log.
LEMMA StatusJoined ==
  ASSUME EventsAssumption, NEW l \in Seq(Frames), NEW f \in JobStatuses
  PROVE  /\ l \o <<f>> \in Seq(Frames) /\ ToSet(l \o <<f>>) = ToSet(l) \cup {f}
         /\ Once(l) => Once(l \o <<f>>)
         /\ (f \in Terminal /\ Ordered(l) /\ Verdicts(l) = {})
              => Ordered(l \o <<f>>) /\ Verdicts(l \o <<f>>) = {Len(l) + 1}
         /\ (f \notin Terminal /\ l = <<>>) => Ordered(l \o <<f>>) /\ Verdicts(l \o <<f>>) = {}
<1>0. PICK n : n = l \o <<f>>
  OBVIOUS
<1>1. /\ n \in Seq(Frames) /\ Len(n) = Len(l) + 1 /\ Len(l) \in Nat
      /\ DOMAIN n = 1..(Len(l) + 1) /\ DOMAIN l = 1..Len(l)
      /\ \A i \in DOMAIN l : n[i] = l[i]
      /\ n[Len(l) + 1] = f
  BY <1>0 DEF Frames
<1>2. ToSet(n) = ToSet(l) \cup {f}
  <2>1. ToSet(n) \subseteq ToSet(l) \cup {f}
    BY <1>1 DEF ToSet
  <2>2. ToSet(l) \cup {f} \subseteq ToSet(n)
    BY <1>1 DEF ToSet
  <2> QED BY <2>1, <2>2
<1>3. f \notin Outputs
  BY DEF EventsAssumption
<1>4. Once(l) => Once(n)
  BY <1>1, <1>3 DEF Once
<1>5. ASSUME f \in Terminal, Ordered(l), Verdicts(l) = {}
      PROVE  Ordered(n) /\ Verdicts(n) = {Len(l) + 1}
  <2>1. \A i \in DOMAIN l : n[i] \notin Terminal
    BY <1>1, <1>5 DEF Verdicts
  <2>2. Verdicts(n) = {Len(l) + 1}
    BY <1>1, <1>5, <2>1 DEF Verdicts
  <2>3. Ordered(n)
    BY <1>1, <1>5, <2>1 DEF Ordered
  <2> QED BY <2>2, <2>3
<1>6. ASSUME f \notin Terminal, l = <<>> PROVE Ordered(n) /\ Verdicts(n) = {}
  BY <1>1, <1>6 DEF Ordered, Verdicts
<1> QED BY <1>0, <1>1, <1>2, <1>4, <1>5, <1>6
-----------------------------------------------------------------------------
(* What Emit adds to a log *)

LEMMA EmitsOutputs ==
  ASSUME EventsAssumption, log \in [Streams -> Seq(Frames)], seen \in [Streams -> SUBSET Outputs],
         NEW s \in Streams, NEW outs \in SUBSET Outputs, Emit(s, <<>>, outs)
  PROVE  /\ log' \in [Streams -> Seq(Frames)] /\ seen' \in [Streams -> SUBSET Outputs]
         /\ \A t \in Streams \ {s} : log'[t] = log[t] /\ seen'[t] = seen[t]
         /\ seen'[s] = seen[s] \cup outs
         /\ ToSet(log'[s]) = ToSet(log[s]) \cup (outs \ seen[s])
         /\ Ordered(log[s]) => Ordered(log'[s])
         /\ Verdicts(log'[s]) = Verdicts(log[s])
         /\ (Once(log[s]) /\ ToSet(log[s]) \cap Outputs \subseteq seen[s]) => Once(log'[s])
<1>1. PICK l \in Seq(Frames) : l = log[s]
  OBVIOUS
<1>2. PICK q : q = SetToSeq(outs \ seen[s])
  OBVIOUS
<1>3. q \in Seq(Frames) /\ ToSet(q) = outs \ seen[s] /\ IsInjective(q) /\ ToSet(q) \subseteq Outputs
  <2>1. IsFiniteSet(outs \ seen[s])
    BY FS_Subset DEF EventsAssumption
  <2>2. q \in Seq(outs \ seen[s]) /\ ToSet(q) = outs \ seen[s] /\ IsInjective(q)
    BY <1>2, <2>1, SetToSeqFacts
  <2> QED BY <2>2 DEF Frames
<1>4. log' = [log EXCEPT ![s] = l \o q] /\ seen' = [seen EXCEPT ![s] = @ \cup outs]
  BY <1>1, <1>2 DEF Emit
<1>5. PICK n : n = l \o q
  OBVIOUS
<1>6. /\ n \in Seq(Frames) /\ ToSet(n) = ToSet(l) \cup ToSet(q)
      /\ Ordered(l) => Ordered(n)
      /\ Verdicts(n) = Verdicts(l)
      /\ (Once(l) /\ IsInjective(q) /\ ToSet(q) \cap ToSet(l) = {}) => Once(n)
  BY <1>3, <1>5, OutputsJoined
<1>7. log' \in [Streams -> Seq(Frames)] /\ log'[s] = n
      /\ \A t \in Streams \ {s} : log'[t] = log[t]
  BY <1>4, <1>5, <1>6
<1>8. seen' \in [Streams -> SUBSET Outputs] /\ seen'[s] = seen[s] \cup outs
      /\ \A t \in Streams \ {s} : seen'[t] = seen[t]
  BY <1>4
<1>9. ToSet(l) \cap Outputs \subseteq seen[s] => ToSet(q) \cap ToSet(l) = {}
  BY <1>3
<1> QED BY <1>1, <1>3, <1>6, <1>7, <1>8, <1>9

LEMMA EmitsStatus ==
  ASSUME EventsAssumption, log \in [Streams -> Seq(Frames)], seen \in [Streams -> SUBSET Outputs],
         NEW s \in Streams, NEW outs \in SUBSET Outputs, NEW f \in JobStatuses, Emit(s, <<f>>, outs)
  PROVE  /\ log' \in [Streams -> Seq(Frames)] /\ seen' \in [Streams -> SUBSET Outputs]
         /\ \A t \in Streams \ {s} : log'[t] = log[t] /\ seen'[t] = seen[t]
         /\ seen'[s] = seen[s] \cup outs
         /\ ToSet(log'[s]) = ToSet(log[s]) \cup {f} \cup (outs \ seen[s])
         /\ (f \in Terminal /\ Ordered(log[s]) /\ Verdicts(log[s]) = {})
              => Ordered(log'[s]) /\ Verdicts(log'[s]) = {Len(log[s]) + 1}
         /\ (f \notin Terminal /\ log[s] = <<>>) => Ordered(log'[s]) /\ Verdicts(log'[s]) = {}
         /\ (Once(log[s]) /\ ToSet(log[s]) \cap Outputs \subseteq seen[s]) => Once(log'[s])
<1>1. PICK k \in Seq(Frames) : k = log[s]
  OBVIOUS
<1>2. PICK q : q = SetToSeq(outs \ seen[s])
  OBVIOUS
<1>3. q \in Seq(Frames) /\ ToSet(q) = outs \ seen[s] /\ IsInjective(q) /\ ToSet(q) \subseteq Outputs
  <2>1. IsFiniteSet(outs \ seen[s])
    BY FS_Subset DEF EventsAssumption
  <2>2. q \in Seq(outs \ seen[s]) /\ ToSet(q) = outs \ seen[s] /\ IsInjective(q)
    BY <1>2, <2>1, SetToSeqFacts
  <2> QED BY <2>2 DEF Frames
<1>4. PICK l : l = k \o <<f>>
  OBVIOUS
<1>5. /\ l \in Seq(Frames) /\ ToSet(l) = ToSet(k) \cup {f}
      /\ Once(k) => Once(l)
      /\ (f \in Terminal /\ Ordered(k) /\ Verdicts(k) = {})
           => Ordered(l) /\ Verdicts(l) = {Len(k) + 1}
      /\ (f \notin Terminal /\ k = <<>>) => Ordered(l) /\ Verdicts(l) = {}
  BY <1>4, StatusJoined
<1>6. log' = [log EXCEPT ![s] = l \o q] /\ seen' = [seen EXCEPT ![s] = @ \cup outs]
  BY <1>1, <1>2, <1>4 DEF Emit
<1>7. PICK n : n = l \o q
  OBVIOUS
<1>8. /\ n \in Seq(Frames) /\ ToSet(n) = ToSet(l) \cup ToSet(q)
      /\ Ordered(l) => Ordered(n)
      /\ Verdicts(n) = Verdicts(l)
      /\ (Once(l) /\ IsInjective(q) /\ ToSet(q) \cap ToSet(l) = {}) => Once(n)
  BY <1>3, <1>5, <1>7, OutputsJoined
<1>9. log' \in [Streams -> Seq(Frames)] /\ log'[s] = n
      /\ \A t \in Streams \ {s} : log'[t] = log[t]
  BY <1>6, <1>7, <1>8
<1>10. seen' \in [Streams -> SUBSET Outputs] /\ seen'[s] = seen[s] \cup outs
       /\ \A t \in Streams \ {s} : seen'[t] = seen[t]
  BY <1>6
<1>11. f \notin Outputs
  BY DEF EventsAssumption
<1>12. ToSet(k) \cap Outputs \subseteq seen[s] => ToSet(q) \cap ToSet(l) = {}
  BY <1>3, <1>5, <1>11
<1> QED BY <1>1, <1>3, <1>5, <1>8, <1>9, <1>10, <1>12
-----------------------------------------------------------------------------
(* The jobs and the socket *)

Over(j) == place[j] \in {"history", "gone"}

\* A job in /history has an outcome, one with an outcome is over, and the
\* socket of a job belongs to a stream of that job.
JobsOK ==
  \A j \in Jobs : /\ place[j] = "history" => outcome[j] \in Outcomes
                  /\ outcome[j] \in Outcomes => Over(j)
                  /\ holder[j] # Nobody => jobOf[holder[j]] = j

\* What a status read finds: one of the values below, and outputs of a job that
\* succeeded only.
ReadOf(s, read, outs) ==
  /\ read \in Outcomes \cup {"queued", "running", "unknown"} /\ outs \in SUBSET Outputs
  /\ read \in Outcomes => read = outcome[jobOf[s]] /\ Over(jobOf[s])
  /\ read = "succeeded" => outs = Outputs
  /\ Over(jobOf[s]) => read \in Outcomes \cup {"unknown"}

\* The end of a read: its result is delivered, to a stream that is reading.
Delivers(s) == /\ pc[s] \in {"history", "queue"}
               /\ \E read, outs : ReadOf(s, read, outs) /\ Deliver(s, read, outs)
               /\ UNCHANGED <<comfy, known, jobOf>>

LEMMA ReadsDeliver ==
  ASSUME TypeOK, JobsOK, NEW s \in Streams, ReadHistory(s) \/ ReadQueue(s)
  PROVE  \/ Delivers(s)
         \/ /\ pc[s] = "history" /\ Goto(s, "queue")
            /\ UNCHANGED <<comfy, known, jobOf, why, openStreams, socket, seen, log, ending>>
<1>0. jobOf[s] \in Jobs /\ place[jobOf[s]] \in {"pending", "running", "history", "gone"}
  BY DEF TypeOK, ComfyTypeOK
<1>1. CASE /\ ReadHistory(s) /\ place[jobOf[s]] = "history"
           /\ Deliver(s, outcome[jobOf[s]], IF outcome[jobOf[s]] = "succeeded" THEN Outputs ELSE {})
  <2>1. PICK outs \in SUBSET Outputs :
          /\ outs = IF outcome[jobOf[s]] = "succeeded" THEN Outputs ELSE {}
          /\ Deliver(s, outcome[jobOf[s]], outs)
    BY <1>1
  <2>2. ReadOf(s, outcome[jobOf[s]], outs)
    BY <1>0, <1>1, <2>1 DEF ReadOf, JobsOK, Over
  <2> QED BY <1>1, <2>1, <2>2 DEF ReadHistory, Delivers
<1>2. CASE /\ ReadHistory(s) /\ Goto(s, "queue")
           /\ UNCHANGED <<why, openStreams, socket, seen, log, ending>>
  BY <1>2 DEF ReadHistory
<1>3. CASE ReadQueue(s)
  <2>1. PICK read : /\ Deliver(s, read, {})
                    /\ \/ read = CASE place[jobOf[s]] = "pending" -> "queued"
                                   [] place[jobOf[s]] = "running" -> "running"
                                   [] OTHER -> "unknown"
                       \/ read = "unknown"
    BY <1>3 DEF ReadQueue
  <2>2. read \in {"queued", "running", "unknown"} /\ (Over(jobOf[s]) => read = "unknown")
    BY <1>0, <2>1 DEF Over
  <2>3. ReadOf(s, read, {})
    BY <2>2 DEF ReadOf, Outcomes
  <2> QED BY <1>3, <2>1, <2>3 DEF ReadQueue, Delivers
<1> QED BY <1>1, <1>2, <1>3 DEF ReadHistory

\* What a delivery may do, in the terms the lemmas below need.
LEMMA DeliveryCases ==
  ASSUME NEW s \in Streams, NEW read, NEW outs, ReadOf(s, read, outs), Deliver(s, read, outs)
  PROVE  \/ /\ why[s] = "admit" /\ UNCHANGED <<log, seen>>
            /\ \/ Finish(s, "answered")
               \/ Goto(s, "prepare") /\ UNCHANGED <<why, openStreams, socket, ending>>
               \/ Attach(s) /\ UNCHANGED <<socket, ending>>
         \/ \E f \in JobStatuses :
              /\ f \in Outcomes => f = outcome[jobOf[s]]
              /\ f = "succeeded" => outs = Outputs
              /\ (f \in Terminal \/ (why[s] = "terminal" /\ ~Over(jobOf[s])))
              /\ Emit(s, <<f>>, outs) /\ Finish(s, "finished")
         \/ \E f \in JobStatuses \ Terminal :
              /\ why[s] = "connect" /\ Emit(s, <<f>>, {}) /\ Goto(s, "connect")
              /\ UNCHANGED <<why, openStreams, socket, ending>>
         \/ /\ why[s] = "executed" /\ Emit(s, <<>>, outs) /\ Goto(s, "live")
            /\ UNCHANGED <<why, openStreams, socket, ending>>
         \/ /\ why[s] \in {"quiet", "poll"}
            /\ \E p \in {"live", "sleep"} : Goto(s, p)
            /\ UNCHANGED <<why, openStreams, socket, seen, log, ending>>
<1> DEFINE f == IF read = "unknown" THEN "expired" ELSE read
<1>1. /\ f \in JobStatuses /\ (f \in Outcomes => f = outcome[jobOf[s]])
      /\ f = "succeeded" => outs = Outputs
      /\ Over(jobOf[s]) => f \in Terminal
  BY DEF ReadOf, JobStatuses, Terminal, Outcomes
<1>2. CASE why[s] = "admit" /\ Admit(s, read)
  BY <1>2 DEF Admit
<1>3. CASE /\ why[s] = "terminal" \/ (why[s] \in {"connect", "quiet", "poll"} /\ f \in Terminal)
           /\ Emit(s, <<f>>, outs) /\ Finish(s, "finished")
  BY <1>1, <1>3
<1>4. CASE /\ why[s] = "connect" /\ f \notin Terminal
           /\ Emit(s, <<f>>, {}) /\ Goto(s, "connect")
           /\ UNCHANGED <<why, openStreams, socket, ending>>
  BY <1>1, <1>4
<1>5. CASE /\ why[s] = "executed"
           /\ Emit(s, <<>>, outs) /\ Goto(s, "live")
           /\ UNCHANGED <<why, openStreams, socket, ending>>
  BY <1>5
<1>6. CASE /\ why[s] \in {"quiet", "poll"} /\ f \notin Terminal
           /\ Goto(s, IF why[s] = "quiet" THEN "live" ELSE "sleep")
           /\ UNCHANGED <<why, openStreams, socket, seen, log, ending>>
  BY <1>6
<1>7. \/ why[s] = "admit" /\ Admit(s, read)
      \/ /\ why[s] = "terminal" \/ (why[s] \in {"connect", "quiet", "poll"} /\ f \in Terminal)
         /\ Emit(s, <<f>>, outs) /\ Finish(s, "finished")
      \/ /\ why[s] = "connect" /\ f \notin Terminal
         /\ Emit(s, <<f>>, {}) /\ Goto(s, "connect")
         /\ UNCHANGED <<why, openStreams, socket, ending>>
      \/ /\ why[s] = "executed"
         /\ Emit(s, <<>>, outs) /\ Goto(s, "live")
         /\ UNCHANGED <<why, openStreams, socket, ending>>
      \/ /\ why[s] \in {"quiet", "poll"} /\ f \notin Terminal
         /\ Goto(s, IF why[s] = "quiet" THEN "live" ELSE "sleep")
         /\ UNCHANGED <<why, openStreams, socket, seen, log, ending>>
  BY Zenon DEF Deliver
<1> QED BY <1>2, <1>3, <1>4, <1>5, <1>6, <1>7

SocketTypes == /\ holder' \in [Jobs -> Streams \cup {Nobody}] /\ announced' \in [Jobs -> BOOLEAN]
               /\ inbox' \in [Streams -> Seq({"executed", "end"})]
               /\ quiet' \in [Streams -> BOOLEAN]

\* Nobody takes over a job but a stream of that job.
HolderStep == \A j \in Jobs : holder'[j] \in {holder[j], Nobody} \/ jobOf[holder'[j]] = j

\* A terminal message arrives only for a job that is over.
InboxStep == \A t \in Streams : "end" \in ToSet(inbox'[t]) =>
                                   "end" \in ToSet(inbox[t]) \/ Over(jobOf[t])

SocketStep == SocketTypes /\ HolderStep /\ InboxStep

LEMMA SocketStill ==
  ASSUME TypeOK, UNCHANGED socket PROVE SocketStep
  BY DEF socket, TypeOK, SocketStep, SocketTypes, HolderStep, InboxStep

LEMMA SocketFinish ==
  ASSUME TypeOK, NEW s, HangUp(s), UNCHANGED <<announced, inbox, quiet>> PROVE SocketStep
  BY DEF HangUp, TypeOK, SocketStep, SocketTypes, HolderStep, InboxStep

LEMMA SocketQuiet ==
  ASSUME TypeOK, NEW s \in Streams, NEW q \in BOOLEAN, quiet' = [quiet EXCEPT ![s] = q],
         UNCHANGED <<holder, announced, inbox>>
  PROVE  SocketStep
  BY DEF TypeOK, SocketStep, SocketTypes, HolderStep, InboxStep

LEMMA SocketDelivers ==
  ASSUME TypeOK, NEW s \in Streams, Delivers(s) PROVE SocketStep
<1>1. PICK read, outs : ReadOf(s, read, outs) /\ Deliver(s, read, outs)
  BY DEF Delivers
<1>2. \/ UNCHANGED socket
      \/ HangUp(s) /\ UNCHANGED <<announced, inbox, quiet>>
  BY <1>1, DeliveryCases DEF Finish
<1> QED BY <1>2, SocketStill, SocketFinish

\* Messages pushed to the holder of job j.
LEMMA SocketPush ==
  ASSUME TypeOK, JobsOK, NEW j \in Jobs, NEW msgs \in Seq({"executed", "end"}), Push(j, msgs),
         "end" \in ToSet(msgs) => Over(j),
         announced' \in [Jobs -> BOOLEAN], UNCHANGED <<holder, quiet>>
  PROVE  SocketStep
<1>1. ASSUME NEW t \in Streams
      PROVE  /\ inbox'[t] \in Seq({"executed", "end"})
             /\ "end" \in ToSet(inbox'[t]) => "end" \in ToSet(inbox[t]) \/ Over(jobOf[t])
  <2>1. PICK T : T = {"executed", "end"}
    OBVIOUS
  <2>2. inbox[t] \in Seq(T) /\ msgs \in Seq(T)
    BY <2>1 DEF TypeOK
  <2>3. inbox[t] \o msgs \in Seq(T) /\ ToSet(inbox[t] \o msgs) = ToSet(inbox[t]) \cup ToSet(msgs)
    BY <2>2, JoinFacts
  <2>4. CASE holder[j] = t
    <3>1. jobOf[t] = j
      BY <2>4, EventsAssumption DEF JobsOK, EventsAssumption
    <3>2. inbox'[t] = inbox[t] \o msgs
      BY <2>4 DEF Push
    <3> QED BY <2>1, <2>3, <3>1, <3>2
  <2>5. CASE holder[j] # t
    BY <2>1, <2>2, <2>5 DEF Push
  <2> QED BY <2>4, <2>5
<1>2. inbox' \in [Streams -> Seq({"executed", "end"})]
  BY <1>1 DEF Push
<1> QED BY <1>1, <1>2 DEF TypeOK, SocketStep, SocketTypes, HolderStep, InboxStep

LEMMA SocketNext == ASSUME TypeOK, JobsOK, [Next]_vars PROVE SocketStep
<1>1. ASSUME NEW s \in Streams, Request(s) \/ Prepared(s) \/ PollAgain(s) PROVE SocketStep
  BY <1>1, SocketStill DEF Request, Prepared, PollAgain
<1>2. ASSUME NEW s \in Streams, ReadHistory(s) \/ ReadQueue(s) PROVE SocketStep
  BY <1>2, ReadsDeliver, SocketDelivers, SocketStill
<1>3. ASSUME NEW s \in Streams, Unreachable(s) \/ Disconnect(s) \/ PollDeadline(s) PROVE SocketStep
  BY <1>3, SocketFinish DEF Unreachable, Disconnect, PollDeadline, Finish
<1>4. ASSUME NEW s \in Streams, Connect(s) PROVE SocketStep
  BY <1>4 DEF Connect, TypeOK, SocketStep, SocketTypes, HolderStep, InboxStep
<1>5. ASSUME NEW s \in Streams, ConnectFails(s) \/ WsClosed(s) PROVE SocketStep
  BY <1>5, SocketFinish DEF ConnectFails, WsClosed, FallBack
<1>6. ASSUME NEW s \in Streams, Receive(s) PROVE SocketStep
  <2>1. inbox[s] \in Seq({"executed", "end"}) /\ inbox[s] # <<>>
    BY <1>6 DEF Receive, TypeOK
  <2>2. Tail(inbox[s]) \in Seq({"executed", "end"}) /\ ToSet(Tail(inbox[s])) \subseteq ToSet(inbox[s])
    BY <2>1 DEF ToSet
  <2>3. /\ inbox' = [inbox EXCEPT ![s] = Tail(inbox[s])] /\ quiet' = [quiet EXCEPT ![s] = FALSE]
        /\ holder' = holder /\ announced' = announced
    BY <1>6 DEF Receive
  <2> QED BY <2>2, <2>3 DEF TypeOK, SocketStep, SocketTypes, HolderStep, InboxStep
<1>7. ASSUME NEW s \in Streams, ReceiveOther(s) \/ Elapse(s) \/ TimedOut(s) PROVE SocketStep
  BY <1>7, SocketQuiet DEF ReceiveOther, Elapse, TimedOut
<1>8. ASSUME NEW j \in Jobs, NodeExecuted(j) PROVE SocketStep
  <2>1. <<"executed">> \in Seq({"executed", "end"}) /\ "end" \notin ToSet(<<"executed">>)
    BY DEF ToSet
  <2> QED BY <1>8, <2>1, SocketPush DEF NodeExecuted, TypeOK
<1>9. ASSUME NEW j \in Jobs, Announce(j) PROVE SocketStep
  <2>1. <<"executed", "end">> \in Seq({"executed", "end"}) /\ <<"end">> \in Seq({"executed", "end"})
    OBVIOUS
  <2>2. Over(j) /\ announced' \in [Jobs -> BOOLEAN] /\ UNCHANGED <<holder, quiet>>
    BY <1>9 DEF Announce, Over, TypeOK
  <2>3. CASE outcome[j] = "succeeded"
    <3>1. Push(j, <<"executed", "end">>)
      BY <1>9, <2>3 DEF Announce
    <3> QED BY <2>1, <2>2, <3>1, SocketPush
  <2>4. CASE outcome[j] # "succeeded"
    <3>1. Push(j, <<"end">>)
      BY <1>9, <2>4 DEF Announce
    <3> QED BY <2>1, <2>2, <3>1, SocketPush
  <2> QED BY <2>3, <2>4
<1>10. CASE ComfyMoves
  BY <1>10, SocketStill DEF ComfyMoves
<1>11. CASE UNCHANGED vars
  BY <1>11, SocketStill DEF vars
<1> QED BY <1>1, <1>2, <1>3, <1>4, <1>5, <1>6, <1>7, <1>8, <1>9, <1>10, <1>11
           DEF Next, StreamStep

\* Records and streams keep their jobs, and a job that is over stays as it is.
LEMMA JobsNext ==
  ASSUME TypeOK, JobsOK, [Next]_vars
  PROVE  /\ known' = known /\ jobOf' = jobOf /\ ComfyTypeOK' /\ JobsOK'
         /\ \A j \in Jobs : Over(j) => Over(j)' /\ outcome'[j] = outcome[j]
<1>1. known' = known /\ jobOf' = jobOf /\ (ComfyStep \/ UNCHANGED comfy)
  <2>1. ASSUME NEW s \in Streams, StreamStep(s) PROVE UNCHANGED <<comfy, known, jobOf>>
    BY <2>1 DEF StreamStep, ReadHistory, ReadQueue, Prepared, Connect, ConnectFails, FallBack,
                Receive, TimedOut, PollAgain, PollDeadline
  <2>2. ASSUME NEW s \in Streams, Request(s) \/ Unreachable(s) \/ Disconnect(s)
                        \/ WsClosed(s) \/ ReceiveOther(s) \/ Elapse(s)
        PROVE  UNCHANGED <<comfy, known, jobOf>>
    BY <2>2 DEF Request, Unreachable, Disconnect, WsClosed, FallBack, ReceiveOther, Elapse
  <2>3. ASSUME NEW j \in Jobs, NodeExecuted(j) \/ Announce(j) PROVE UNCHANGED <<comfy, known, jobOf>>
    BY <2>3 DEF NodeExecuted, Announce
  <2>4. CASE ComfyMoves
    BY <2>4 DEF ComfyMoves
  <2>5. CASE UNCHANGED vars
    BY <2>5 DEF vars
  <2> QED BY <2>1, <2>2, <2>3, <2>4, <2>5 DEF Next
<1>2. /\ ComfyTypeOK'
      /\ \A j \in Jobs : /\ Over(j) => Over(j)' /\ outcome'[j] = outcome[j]
                         /\ place'[j] = "history" => outcome'[j] \in Outcomes
                         /\ outcome'[j] \in Outcomes => Over(j)'
  <2>0. /\ place \in [Jobs -> {"pending", "running", "history", "gone"}]
        /\ outcome \in [Jobs -> Outcomes \cup {"none"}]
    BY DEF TypeOK, ComfyTypeOK
  <2>1. CASE UNCHANGED comfy
    BY <2>0, <2>1 DEF comfy, Over, JobsOK, ComfyTypeOK
  <2>2. ASSUME NEW j \in Jobs, Start(j) \/ Commit(j) \/ Lose(j)
        PROVE  /\ ComfyTypeOK'
               /\ \A i \in Jobs : /\ Over(i) => Over(i)' /\ outcome'[i] = outcome[i]
                                  /\ place'[i] = "history" => outcome'[i] \in Outcomes
                                  /\ outcome'[i] \in Outcomes => Over(i)'
    BY <2>0, <2>2 DEF Start, Commit, Lose, Over, JobsOK, ComfyTypeOK
  <2> QED BY <1>1, <2>1, <2>2 DEF ComfyStep
<1>3. HolderStep
  BY SocketNext DEF SocketStep
<1>4. JobsOK'
  BY <1>1, <1>2, <1>3 DEF JobsOK, HolderStep
<1> QED BY <1>1, <1>2, <1>4
-----------------------------------------------------------------------------
(* The streams *)

\* Nothing has been sent yet.
Beginning(s) == \/ pc[s] \in {"new", "prepare"}
                \/ pc[s] \in {"history", "queue"} /\ why[s] \in {"admit", "connect"}

\* What has been sent, against the job and against what the stream remembers.
LogOK(s) ==
  /\ Ordered(log[s])
  /\ seen[s] \subseteq ToSet(log[s])
  /\ \A f \in ToSet(log[s]) \cap Outcomes : f = outcome[jobOf[s]]
  /\ "succeeded" \in ToSet(log[s]) => Outputs \subseteq ToSet(log[s])
  /\ WsCloses \/ (ToSet(log[s]) \cap Outputs \subseteq seen[s] /\ Once(log[s]))

\* What has been sent, by where the stream is; and a stream that has heard of the
\* end is about a job that is over.
PlaceOK(s) ==
  /\ Beginning(s) => log[s] = <<>>
  /\ pc[s] = "connect" => ToSet(log[s]) \cap Outputs = {}
  /\ ("end" \in ToSet(inbox[s]) \/ why[s] = "terminal") => Over(jobOf[s])
  /\ pc[s] # "done" => ending[s] = "none"

VerdictOK(s) ==
  /\ ending[s] # "finished" => Verdicts(log[s]) = {}
  /\ ending[s] = "finished" => \E i : Verdicts(log[s]) = {i}

StreamOK(s) == LogOK(s) /\ PlaceOK(s) /\ VerdictOK(s)

\* The inductive invariant.
EventsInv == TypeOK /\ SlotInv /\ JobsOK /\ \A s \in Streams : StreamOK(s)

\* What a step leaves as it was, or makes true, for every stream.
LEMMA Surroundings ==
  ASSUME EventsInv, [Next]_vars, NEW t \in Streams
  PROVE  /\ jobOf'[t] = jobOf[t] /\ jobOf[t] \in Jobs
         /\ Over(jobOf[t]) => Over(jobOf[t])' /\ outcome'[jobOf[t]] = outcome[jobOf[t]]
         /\ outcome[jobOf[t]] \in Outcomes => Over(jobOf[t])
         /\ "end" \in ToSet(inbox'[t]) => Over(jobOf[t])
<1>1. TypeOK /\ JobsOK /\ StreamOK(t)
  BY DEF EventsInv
<1>2. jobOf' = jobOf /\ jobOf[t] \in Jobs
  BY <1>1, JobsNext DEF TypeOK
<1>3. Over(jobOf[t]) => Over(jobOf[t])' /\ outcome'[jobOf[t]] = outcome[jobOf[t]]
  BY <1>1, <1>2, JobsNext DEF Over
<1>4. outcome[jobOf[t]] \in Outcomes => Over(jobOf[t])
  BY <1>1, <1>2 DEF JobsOK
<1>5. InboxStep
  BY <1>1, SocketNext DEF SocketStep
<1>6. "end" \in ToSet(inbox'[t]) => Over(jobOf[t])
  BY <1>1, <1>5 DEF InboxStep, StreamOK, PlaceOK
<1> QED BY <1>2, <1>3, <1>4, <1>6 DEF Over

\* A stream that sends nothing and remembers what it did.
LEMMA StreamKept ==
  ASSUME EventsInv, [Next]_vars, NEW t \in Streams,
         log'[t] = log[t], seen'[t] = seen[t], ending'[t] = ending[t],
         why'[t] = "terminal" => why[t] = "terminal" \/ Over(jobOf[t]),
         \/ pc'[t] = pc[t] /\ why'[t] = why[t]
         \/ pc[t] # "done" /\ pc'[t] # "connect" /\ (Beginning(t)' => Beginning(t))
  PROVE  StreamOK(t)'
<1>1. StreamOK(t)
  BY DEF EventsInv
<1>2. LogOK(t)'
  BY <1>1, Surroundings DEF StreamOK, LogOK
<1>3. PlaceOK(t)'
  <2>1. (Beginning(t) => log[t] = <<>>) /\ (Beginning(t)' => Beginning(t))
    BY <1>1 DEF StreamOK, PlaceOK, Beginning
  <2> QED BY <1>1, <2>1, Surroundings DEF StreamOK, PlaceOK
<1>4. VerdictOK(t)'
  BY <1>1 DEF StreamOK, VerdictOK
<1> QED BY <1>2, <1>3, <1>4 DEF StreamOK

\* The other streams, in a step of one of them.
Alone(s) == \A t \in Streams \ {s} : /\ pc'[t] = pc[t] /\ why'[t] = why[t]
                                     /\ log'[t] = log[t] /\ seen'[t] = seen[t]
                                     /\ ending'[t] = ending[t]

FrameTypes == /\ seen \in [Streams -> SUBSET Outputs] /\ log \in [Streams -> Seq(Frames)]
              /\ ending \in [Streams -> {"none", "answered", "finished", "cut", "deadline"}]

LEMMA OthersKept ==
  ASSUME EventsInv, [Next]_vars, NEW s \in Streams, Alone(s), StreamOK(s)'
  PROVE  \A t \in Streams : StreamOK(t)'
  BY StreamKept DEF Alone

\* A step of s that sends nothing and does not end.
LEMMA Advances ==
  ASSUME EventsInv, [Next]_vars, NEW s \in Streams, UNCHANGED <<seen, log, ending>>,
         NEW p \in Pcs \ {"connect"}, NEW w, pc[s] # "done",
         pc' = [pc EXCEPT ![s] = p], why' = [why EXCEPT ![s] = w],
         w = "terminal" => why[s] = "terminal" \/ Over(jobOf[s]),
         Beginning(s)' => Beginning(s)
  PROVE  FrameTypes' /\ \A t \in Streams : StreamOK(t)'
<1>1. pc'[s] = p /\ why'[s] = w /\ Alone(s)
  BY DEF EventsInv, TypeOK, Alone
<1>2. StreamOK(s)'
  BY <1>1, StreamKept
<1> QED BY <1>1, <1>2, OthersKept DEF EventsInv, TypeOK, FrameTypes

LEMMA Idles ==
  ASSUME EventsInv, [Next]_vars, UNCHANGED <<pc, why, seen, log, ending>>
  PROVE  FrameTypes' /\ \A t \in Streams : StreamOK(t)'
  BY StreamKept DEF EventsInv, TypeOK, FrameTypes

\* The end of a stream that sends nothing more.
LEMMA Stops ==
  ASSUME EventsInv, [Next]_vars, NEW s \in Streams, UNCHANGED <<seen, log>>, pc[s] # "done",
         NEW how \in {"answered", "cut", "deadline"}, Finish(s, how)
  PROVE  FrameTypes' /\ \A t \in Streams : StreamOK(t)'
<1>1. /\ pc'[s] = "done" /\ why' = why /\ ending' = [ending EXCEPT ![s] = how] /\ ending'[s] = how
      /\ Alone(s)
  BY DEF EventsInv, TypeOK, Alone, Finish, Goto
<1>2. StreamOK(s)
  BY DEF EventsInv
<1>3. LogOK(s)'
  BY <1>2, Surroundings DEF StreamOK, LogOK
<1>4. PlaceOK(s)'
  BY <1>1, <1>2, Surroundings DEF StreamOK, PlaceOK, Beginning
<1>5. VerdictOK(s)'
  BY <1>1, <1>2 DEF StreamOK, PlaceOK, VerdictOK
<1>6. FrameTypes'
  BY <1>1 DEF EventsInv, TypeOK, FrameTypes
<1> QED BY <1>1, <1>3, <1>4, <1>5, <1>6, OthersKept DEF StreamOK

\* seen starts from an empty set: before any output, or after an early close.
LEMMA Forgets ==
  ASSUME EventsInv, [Next]_vars, NEW s \in Streams, UNCHANGED <<log, ending>>,
         seen' = [seen EXCEPT ![s] = {}], pc[s] = "connect" \/ (WsCloses /\ pc[s] # "done"),
         NEW p \in {"live", "history"}, NEW w, pc' = [pc EXCEPT ![s] = p],
         why' = [why EXCEPT ![s] = w], w = "poll" \/ (p = "live" /\ w = why[s])
  PROVE  FrameTypes' /\ \A t \in Streams : StreamOK(t)'
<1>1. pc'[s] = p /\ why'[s] = w /\ seen'[s] = {} /\ Alone(s)
  BY DEF EventsInv, TypeOK, Alone
<1>2. StreamOK(s)
  BY DEF EventsInv
<1>3. LogOK(s)'
  BY <1>1, <1>2, Surroundings DEF StreamOK, LogOK, PlaceOK
<1>4. PlaceOK(s)'
  <2>1. ~ Beginning(s)'
    BY <1>1 DEF Beginning
  <2>2. "terminal" = why'[s] => why[s] = "terminal"
    BY <1>1
  <2> QED BY <1>1, <1>2, <2>1, <2>2, Surroundings DEF StreamOK, PlaceOK
<1>5. VerdictOK(s)'
  BY <1>2 DEF StreamOK, VerdictOK
<1>6. FrameTypes'
  BY DEF EventsInv, TypeOK, FrameTypes
<1> QED BY <1>1, <1>3, <1>4, <1>5, <1>6, OthersKept DEF StreamOK

\* Statuses and outputs are told apart, and so are the ways a job can end.
LEMMA StatusNames ==
  /\ Outcomes \subseteq Terminal /\ Terminal \subseteq JobStatuses
  /\ \A f \in Outputs : f \notin JobStatuses
  /\ \A f \in JobStatuses \ Terminal : f \notin Outcomes
  BY EventsAssumption DEF EventsAssumption, Outcomes, Terminal, JobStatuses

\* The verdict, with the outputs not sent before.
LEMMA Closes ==
  ASSUME EventsInv, [Next]_vars, NEW s \in Streams, pc[s] # "done",
         NEW f \in Terminal, NEW outs \in SUBSET Outputs,
         f \in Outcomes => f = outcome[jobOf[s]], f = "succeeded" => outs = Outputs,
         Emit(s, <<f>>, outs), Finish(s, "finished")
  PROVE  FrameTypes' /\ \A t \in Streams : StreamOK(t)'
<1>1. /\ pc'[s] = "done" /\ why' = why /\ ending' = [ending EXCEPT ![s] = "finished"]
      /\ ending'[s] = "finished"
      /\ \A t \in Streams \ {s} : pc'[t] = pc[t] /\ ending'[t] = ending[t]
  BY DEF EventsInv, TypeOK, Finish, Goto
<1>2. StreamOK(s) /\ log \in [Streams -> Seq(Frames)] /\ seen \in [Streams -> SUBSET Outputs]
  BY DEF EventsInv, TypeOK
<1>3. f \in JobStatuses /\ Verdicts(log[s]) = {} /\ Ordered(log[s])
  BY <1>2, StatusNames DEF StreamOK, PlaceOK, VerdictOK, LogOK
<1>4. /\ log' \in [Streams -> Seq(Frames)] /\ seen' \in [Streams -> SUBSET Outputs]
      /\ \A t \in Streams \ {s} : log'[t] = log[t] /\ seen'[t] = seen[t]
      /\ seen'[s] = seen[s] \cup outs
      /\ ToSet(log'[s]) = ToSet(log[s]) \cup {f} \cup (outs \ seen[s])
      /\ Ordered(log'[s]) /\ Verdicts(log'[s]) = {Len(log[s]) + 1}
      /\ (Once(log[s]) /\ ToSet(log[s]) \cap Outputs \subseteq seen[s]) => Once(log'[s])
  BY <1>2, <1>3, EmitsStatus, EventsAssumption
<1>5. LogOK(s)'
  <2>1. seen'[s] \subseteq ToSet(log'[s])
    BY <1>2, <1>4 DEF StreamOK, LogOK
  <2>2. \A g \in ToSet(log'[s]) \cap Outcomes : g = outcome'[jobOf'[s]]
    BY <1>2, <1>4, StatusNames, Surroundings DEF StreamOK, LogOK
  <2>3. "succeeded" \in ToSet(log'[s]) => Outputs \subseteq ToSet(log'[s])
    <3>1. "succeeded" \notin Outputs
      BY StatusNames DEF Outcomes
    <3>2. CASE f = "succeeded"
      BY <1>2, <1>4, <3>2 DEF StreamOK, LogOK
    <3>3. CASE f # "succeeded"
      BY <1>2, <1>4, <3>1, <3>3 DEF StreamOK, LogOK
    <3> QED BY <3>2, <3>3
  <2>4. WsCloses \/ (ToSet(log'[s]) \cap Outputs \subseteq seen'[s] /\ Once(log'[s]))
    BY <1>2, <1>3, <1>4, StatusNames DEF StreamOK, LogOK
  <2> QED BY <1>4, <2>1, <2>2, <2>3, <2>4 DEF LogOK
<1>6. PlaceOK(s)'
  BY <1>1, <1>2, Surroundings DEF StreamOK, PlaceOK, Beginning
<1>7. VerdictOK(s)'
  BY <1>1, <1>4 DEF VerdictOK
<1>8. Alone(s)
  BY <1>1, <1>4 DEF Alone
<1>9. FrameTypes'
  BY <1>1, <1>4 DEF EventsInv, TypeOK, FrameTypes
<1> QED BY <1>5, <1>6, <1>7, <1>8, <1>9, OthersKept DEF StreamOK

\* The first status, of a job that is not over as far as the stream knows.
LEMMA Opens ==
  ASSUME EventsInv, [Next]_vars, NEW s \in Streams, Beginning(s),
         NEW f \in JobStatuses \ Terminal, Emit(s, <<f>>, {}),
         Goto(s, "connect"), UNCHANGED <<why, ending>>
  PROVE  FrameTypes' /\ \A t \in Streams : StreamOK(t)'
<1>1. pc'[s] = "connect" /\ \A t \in Streams \ {s} : pc'[t] = pc[t]
  BY DEF EventsInv, TypeOK, Goto
<1>2. StreamOK(s) /\ log \in [Streams -> Seq(Frames)] /\ seen \in [Streams -> SUBSET Outputs]
  BY DEF EventsInv, TypeOK
<1>3. log[s] = <<>> /\ ToSet(log[s]) = {} /\ seen[s] = {} /\ ending[s] = "none"
  BY <1>2 DEF StreamOK, PlaceOK, LogOK, Beginning, ToSet
<1>4. /\ log' \in [Streams -> Seq(Frames)] /\ seen' \in [Streams -> SUBSET Outputs]
      /\ \A t \in Streams \ {s} : log'[t] = log[t] /\ seen'[t] = seen[t]
      /\ seen'[s] = {} /\ ToSet(log'[s]) = {f}
      /\ Ordered(log'[s]) /\ Verdicts(log'[s]) = {}
      /\ (Once(log[s]) /\ ToSet(log[s]) \cap Outputs \subseteq seen[s]) => Once(log'[s])
  <2>1. PICK outs \in SUBSET Outputs : outs = {}
    OBVIOUS
  <2>2. Emit(s, <<f>>, outs)
    BY <2>1
  <2>3. /\ log' \in [Streams -> Seq(Frames)] /\ seen' \in [Streams -> SUBSET Outputs]
        /\ \A t \in Streams \ {s} : log'[t] = log[t] /\ seen'[t] = seen[t]
        /\ seen'[s] = seen[s] \cup outs
        /\ ToSet(log'[s]) = ToSet(log[s]) \cup {f} \cup (outs \ seen[s])
        /\ Ordered(log'[s]) /\ Verdicts(log'[s]) = {}
        /\ (Once(log[s]) /\ ToSet(log[s]) \cap Outputs \subseteq seen[s]) => Once(log'[s])
    BY <1>2, <1>3, <2>2, EmitsStatus, EventsAssumption
  <2> QED BY <1>3, <2>1, <2>3
<1>5. f \notin Outcomes /\ f \notin Outputs /\ f # "succeeded"
  BY StatusNames DEF Outcomes
<1>6. LogOK(s)'
  BY <1>2, <1>3, <1>4, <1>5 DEF StreamOK, LogOK
<1>7. PlaceOK(s)'
  BY <1>1, <1>2, <1>3, <1>4, <1>5, Surroundings DEF StreamOK, PlaceOK, Beginning
<1>8. VerdictOK(s)'
  BY <1>3, <1>4 DEF VerdictOK
<1>9. Alone(s) /\ FrameTypes'
  BY <1>1, <1>4 DEF Alone, EventsInv, TypeOK, FrameTypes
<1> QED BY <1>6, <1>7, <1>8, <1>9, OthersKept DEF StreamOK

\* Outputs found after "executed".
LEMMA Reports ==
  ASSUME EventsInv, [Next]_vars, NEW s \in Streams, pc[s] # "done", why[s] = "executed",
         NEW outs \in SUBSET Outputs, Emit(s, <<>>, outs),
         Goto(s, "live"), UNCHANGED <<why, ending>>
  PROVE  FrameTypes' /\ \A t \in Streams : StreamOK(t)'
<1>1. pc'[s] = "live" /\ \A t \in Streams \ {s} : pc'[t] = pc[t]
  BY DEF EventsInv, TypeOK, Goto
<1>2. StreamOK(s) /\ log \in [Streams -> Seq(Frames)] /\ seen \in [Streams -> SUBSET Outputs]
  BY DEF EventsInv, TypeOK
<1>3. /\ log' \in [Streams -> Seq(Frames)] /\ seen' \in [Streams -> SUBSET Outputs]
      /\ \A t \in Streams \ {s} : log'[t] = log[t] /\ seen'[t] = seen[t]
      /\ seen'[s] = seen[s] \cup outs
      /\ ToSet(log'[s]) = ToSet(log[s]) \cup (outs \ seen[s])
      /\ Ordered(log[s]) => Ordered(log'[s])
      /\ Verdicts(log'[s]) = Verdicts(log[s])
      /\ (Once(log[s]) /\ ToSet(log[s]) \cap Outputs \subseteq seen[s]) => Once(log'[s])
  BY <1>2, EmitsOutputs, EventsAssumption
<1>4. LogOK(s)'
  <2>1. seen'[s] \subseteq ToSet(log'[s]) /\ Ordered(log'[s])
    BY <1>2, <1>3 DEF StreamOK, LogOK
  <2>2. \A g \in ToSet(log'[s]) \cap Outcomes : g = outcome'[jobOf'[s]]
    BY <1>2, <1>3, StatusNames, Surroundings DEF StreamOK, LogOK
  <2>3. "succeeded" \in ToSet(log'[s]) => Outputs \subseteq ToSet(log'[s])
    <3>1. "succeeded" \notin Outputs
      BY StatusNames DEF Outcomes
    <3> QED BY <1>2, <1>3, <3>1 DEF StreamOK, LogOK
  <2>4. WsCloses \/ (ToSet(log'[s]) \cap Outputs \subseteq seen'[s] /\ Once(log'[s]))
    BY <1>2, <1>3 DEF StreamOK, LogOK
  <2> QED BY <2>1, <2>2, <2>3, <2>4 DEF LogOK
<1>5. PlaceOK(s)'
  BY <1>1, <1>2, Surroundings DEF StreamOK, PlaceOK, Beginning
<1>6. VerdictOK(s)'
  BY <1>2, <1>3 DEF StreamOK, VerdictOK
<1>7. Alone(s) /\ FrameTypes'
  BY <1>1, <1>3 DEF Alone, EventsInv, TypeOK, FrameTypes
<1> QED BY <1>4, <1>5, <1>6, <1>7, OthersKept DEF StreamOK

\* However a status read is answered.
LEMMA Delivered ==
  ASSUME EventsInv, [Next]_vars, NEW s \in Streams, Delivers(s)
  PROVE  FrameTypes' /\ \A t \in Streams : StreamOK(t)'
<1>1. PICK read, outs : ReadOf(s, read, outs) /\ Deliver(s, read, outs)
  BY DEF Delivers
<1>2. pc[s] \in {"history", "queue"} /\ outs \in SUBSET Outputs
  BY <1>1 DEF Delivers, ReadOf
<1>3. StreamOK(s) /\ pc \in [Streams -> Pcs] /\ why \in [Streams -> Reasons]
  BY DEF EventsInv, TypeOK
<1>4. why = [why EXCEPT ![s] = why[s]]
  BY <1>3
<1>5. CASE /\ why[s] = "admit" /\ UNCHANGED <<log, seen>>
           /\ \/ Finish(s, "answered")
              \/ Goto(s, "prepare") /\ UNCHANGED <<why, openStreams, socket, ending>>
              \/ Attach(s) /\ UNCHANGED <<socket, ending>>
  <2>1. CASE Finish(s, "answered")
    BY <1>2, <1>5, <2>1, Stops
  <2>2. Beginning(s)
    BY <1>2, <1>5 DEF Beginning
  <2>3. CASE Goto(s, "prepare") /\ UNCHANGED <<why, ending>>
    BY <1>2, <1>4, <1>5, <2>2, <2>3, Advances DEF Goto, Pcs
  <2>4. CASE Attach(s) /\ UNCHANGED <<socket, ending>>
    BY <1>2, <1>5, <2>2, <2>4, Advances DEF Attach, Read, Goto, Pcs
  <2> QED BY <1>5, <2>1, <2>3, <2>4
<1>6. ASSUME NEW f \in JobStatuses, f \in Outcomes => f = outcome[jobOf[s]],
             f = "succeeded" => outs = Outputs,
             f \in Terminal \/ (why[s] = "terminal" /\ ~Over(jobOf[s])),
             Emit(s, <<f>>, outs), Finish(s, "finished")
      PROVE  FrameTypes' /\ \A t \in Streams : StreamOK(t)'
  <2>1. f \in Terminal
    BY <1>3, <1>6 DEF StreamOK, PlaceOK
  <2> QED BY <1>2, <1>6, <2>1, Closes
<1>7. ASSUME NEW f \in JobStatuses \ Terminal, why[s] = "connect", Emit(s, <<f>>, {}),
             Goto(s, "connect"), UNCHANGED <<why, openStreams, socket, ending>>
      PROVE  FrameTypes' /\ \A t \in Streams : StreamOK(t)'
  <2>1. Beginning(s)
    BY <1>2, <1>7 DEF Beginning
  <2> QED BY <1>7, <2>1, Opens
<1>8. CASE /\ why[s] = "executed" /\ Emit(s, <<>>, outs) /\ Goto(s, "live")
           /\ UNCHANGED <<why, openStreams, socket, ending>>
  BY <1>2, <1>8, Reports
<1>9. CASE /\ why[s] \in {"quiet", "poll"}
           /\ \E p \in {"live", "sleep"} : Goto(s, p)
           /\ UNCHANGED <<why, openStreams, socket, seen, log, ending>>
  <2>1. PICK p \in {"live", "sleep"} : pc' = [pc EXCEPT ![s] = p]
    BY <1>9 DEF Goto
  <2>2. ~ Beginning(s)' /\ p \in Pcs \ {"connect"}
    BY <1>3, <2>1 DEF Beginning, Pcs
  <2>3. why' = [why EXCEPT ![s] = why[s]] /\ UNCHANGED <<seen, log, ending>>
    BY <1>4, <1>9
  <2> QED BY <1>2, <2>1, <2>2, <2>3, Advances
<1> QED BY <1>1, <1>5, <1>6, <1>7, <1>8, <1>9, DeliveryCases

LEMMA StreamsNext ==
  ASSUME EventsInv, [Next]_vars PROVE FrameTypes' /\ \A t \in Streams : StreamOK(t)'
<1> DEFINE Goal == FrameTypes' /\ \A t \in Streams : StreamOK(t)'
<1>0. /\ pc \in [Streams -> Pcs] /\ why \in [Streams -> Reasons]
      /\ TypeOK /\ JobsOK /\ \A s \in Streams : StreamOK(s)
      /\ \A s \in Streams : why = [why EXCEPT ![s] = why[s]]
  BY DEF EventsInv, TypeOK
<1>1. ASSUME NEW s \in Streams, Request(s) PROVE Goal
  <2>1. Beginning(s) /\ pc[s] # "done"
    BY <1>1 DEF Request, Beginning
  <2> QED BY <1>1, <2>1, Advances DEF Request, Read, Goto, Pcs
<1>2. ASSUME NEW s \in Streams, ReadHistory(s) \/ ReadQueue(s) PROVE Goal
  <2>1. CASE Delivers(s)
    BY <2>1, Delivered
  <2>2. CASE /\ pc[s] = "history" /\ Goto(s, "queue")
             /\ UNCHANGED <<comfy, known, jobOf, why, openStreams, socket, seen, log, ending>>
    <3>1. pc' = [pc EXCEPT ![s] = "queue"] /\ why' = [why EXCEPT ![s] = why[s]]
      BY <1>0, <2>2 DEF Goto
    <3>2. Beginning(s)' => Beginning(s)
      BY <1>0, <2>2, <3>1 DEF Beginning
    <3> QED BY <2>2, <3>1, <3>2, Advances DEF Pcs
  <2> QED BY <1>0, <1>2, <2>1, <2>2, ReadsDeliver
<1>3. ASSUME NEW s \in Streams, Unreachable(s) PROVE Goal
  <2>1. PICK how \in {"answered", "cut"} : Finish(s, how)
    BY <1>3 DEF Unreachable
  <2> QED BY <1>3, <2>1, Stops DEF Unreachable
<1>4. ASSUME NEW s \in Streams, Prepared(s) PROVE Goal
  <2>1. Beginning(s) /\ pc[s] # "done"
    BY <1>4 DEF Prepared, Beginning
  <2> QED BY <1>4, <2>1, Advances DEF Prepared, Attach, Read, Goto, Pcs
<1>5. ASSUME NEW s \in Streams, Disconnect(s) PROVE Goal
  <2>1. pc[s] # "done"
    BY <1>5 DEF Disconnect, Holding
  <2> QED BY <1>5, <2>1, Stops DEF Disconnect
<1>6. ASSUME NEW s \in Streams, Connect(s) PROVE Goal
  BY <1>0, <1>6, Forgets DEF Connect, Goto
<1>7. ASSUME NEW s \in Streams, ConnectFails(s) \/ WsClosed(s) PROVE Goal
  BY <1>7, Forgets DEF ConnectFails, WsClosed, FallBack, Read, Goto
<1>8. ASSUME NEW s \in Streams, Receive(s) PROVE Goal
  <2>1. CASE UNCHANGED <<pc, why>>
    BY <1>8, <2>1, Idles DEF Receive
  <2>2. CASE Read(s, "executed")
    <3>1. ~ Beginning(s)'
      BY <1>0, <2>2 DEF Read, Goto, Beginning
    <3> QED BY <1>8, <2>2, <3>1, Advances DEF Receive, Read, Goto, Pcs
  <2>3. CASE Read(s, "terminal") /\ Head(inbox[s]) # "executed"
    <3>1. ~ Beginning(s)'
      BY <1>0, <2>3 DEF Read, Goto, Beginning
    <3>2. inbox[s] \in Seq({"executed", "end"}) /\ inbox[s] # <<>>
      BY <1>0, <1>8 DEF Receive, TypeOK
    <3>3. Head(inbox[s]) = "end" /\ Head(inbox[s]) \in ToSet(inbox[s])
      BY <2>3, <3>2 DEF ToSet
    <3>4. Over(jobOf[s])
      BY <1>0, <3>3 DEF StreamOK, PlaceOK
    <3> QED BY <1>8, <2>3, <3>1, <3>4, Advances DEF Receive, Read, Goto, Pcs
  <2> QED BY <1>8, <2>1, <2>2, <2>3 DEF Receive
<1>9. ASSUME NEW s \in Streams, ReceiveOther(s) \/ Elapse(s) PROVE Goal
  BY <1>9, Idles DEF ReceiveOther, Elapse
<1>10. ASSUME NEW s \in Streams, TimedOut(s) PROVE Goal
  <2>1. ~ Beginning(s)'
    BY <1>0, <1>10 DEF TimedOut, Read, Goto, Beginning
  <2> QED BY <1>10, <2>1, Advances DEF TimedOut, Read, Goto, Pcs
<1>11. ASSUME NEW s \in Streams, PollAgain(s) PROVE Goal
  <2>1. ~ Beginning(s)'
    BY <1>0, <1>11 DEF PollAgain, Read, Goto, Beginning
  <2> QED BY <1>11, <2>1, Advances DEF PollAgain, Read, Goto, Pcs
<1>12. ASSUME NEW s \in Streams, PollDeadline(s) PROVE Goal
  BY <1>12, Stops DEF PollDeadline
<1>13. ASSUME NEW j \in Jobs, NodeExecuted(j) \/ Announce(j) PROVE Goal
  BY <1>13, Idles DEF NodeExecuted, Announce
<1>14. CASE ComfyMoves
  BY <1>14, Idles DEF ComfyMoves
<1>15. CASE UNCHANGED vars
  BY <1>15, Idles DEF vars
<1> QED
  BY <1>1, <1>2, <1>3, <1>4, <1>5, <1>6, <1>7, <1>8, <1>9, <1>10, <1>11, <1>12, <1>13, <1>14,
     <1>15 DEF Next, StreamStep

LEMMA EventsNext == EventsInv /\ [Next]_vars => EventsInv'
<1> SUFFICES ASSUME EventsInv, [Next]_vars PROVE EventsInv'
  OBVIOUS
<1>1. TypeOK /\ SlotInv /\ JobsOK
  BY DEF EventsInv
<1>2. SlotInv'
  BY <1>1, SlotNext
<1>3. /\ known' = known /\ jobOf' = jobOf /\ ComfyTypeOK' /\ JobsOK'
      /\ SocketTypes
  BY <1>1, JobsNext, SocketNext DEF SocketStep
<1>4. FrameTypes' /\ \A t \in Streams : StreamOK(t)'
  BY StreamsNext
<1>5. TypeOK'
  BY <1>1, <1>2, <1>3, <1>4 DEF TypeOK, SlotInv, SocketTypes, FrameTypes
<1> QED BY <1>2, <1>3, <1>4, <1>5 DEF EventsInv

LEMMA EventsInit == Init => EventsInv
<1> SUFFICES ASSUME Init PROVE EventsInv
  OBVIOUS
<1>1. TypeOK
  BY DEF Init, ComfyInit, TypeOK, ComfyTypeOK, Pcs, Reasons
<1>2. JobsOK
  BY EventsAssumption DEF Init, ComfyInit, JobsOK, Outcomes, EventsAssumption
<1>3. ASSUME NEW s \in Streams PROVE StreamOK(s)
  <2>1. /\ log[s] = <<>> /\ ToSet(log[s]) = {} /\ seen[s] = {} /\ ToSet(inbox[s]) = {}
        /\ pc[s] = "new" /\ why[s] = "admit" /\ ending[s] = "none"
    BY <1>3 DEF Init, ToSet
  <2> QED BY <2>1 DEF StreamOK, LogOK, PlaceOK, VerdictOK, Ordered, Once, Verdicts
<1> QED BY <1>1, <1>2, <1>3, SlotInit DEF EventsInv

LEMMA EventsInvariant == Spec => []EventsInv
  BY EventsInit, EventsNext, PTL DEF Spec

\* Every variable of an event stream (app.py:931-992, realtime.py:97-359) stays
\* in its range.
THEOREM EventTypes == Spec => []TypeOK
<1>1. EventsInv => TypeOK
  BY DEF EventsInv
<1> QED BY <1>1, EventsInvariant, PTL

\* A stream that reports success has sent every output, whichever of the four
\* places that see the end of a job (realtime.py:106, 148, 173, 353) got there first.
THEOREM SuccessesComplete == Spec => []SuccessIsComplete
<1>1. EventsInv => SuccessIsComplete
  BY DEF EventsInv, StreamOK, LogOK, SuccessIsComplete
<1> QED BY <1>1, EventsInvariant, PTL

\* The statuses of a stream never go back, and the verdict is that of its job,
\* though status reads take two requests (app.py:348-398) between which the job
\* moves.
THEOREM StatusesOrdered == Spec => []StatusesConsistent
<1>1. EventsInv => StatusesConsistent
  <2> SUFFICES ASSUME EventsInv, NEW s \in Streams
               PROVE  /\ \A i, k \in DOMAIN log[s] :
                           (i < k /\ log[s][i] \in JobStatuses /\ log[s][k] \in JobStatuses)
                             => Rank(log[s][i]) <= Rank(log[s][k])
                      /\ \A i \in DOMAIN log[s] :
                           log[s][i] \in Outcomes => log[s][i] = outcome[jobOf[s]]
    BY DEF StatusesConsistent
  <2>1. LogOK(s)
    BY DEF EventsInv, StreamOK
  <2>2. \A f \in Terminal : Rank(f) = 2
    BY DEF Rank, Terminal
  <2>3. \A f \in JobStatuses \ Terminal : Rank(f) \in {0, 1}
    BY DEF Rank, JobStatuses
  <2> QED BY <2>1, <2>2, <2>3 DEF LogOK, Ordered, ToSet
<1> QED BY <1>1, EventsInvariant, PTL

\* One verdict, and a stream ends with it (realtime.py:97-196).
THEOREM VerdictsOnce == Spec => []OneVerdict
<1>1. EventsInv => OneVerdict
  BY FS_EmptySet, FS_Singleton DEF EventsInv, StreamOK, VerdictOK, Verdicts, OneVerdict
<1> QED BY <1>1, EventsInvariant, PTL

\* As long as the socket is not closed early no output is sent twice, though
\* seen starts anew at the socket (realtime.py:133) and at the poll loop (349).
THEOREM OutputsNotRepeated == Spec => []OutputsOnce
<1>1. EventsInv => OutputsOnce
  BY DEF EventsInv, StreamOK, LogOK, Once, OutputsOnce
<1> QED BY <1>1, EventsInvariant, PTL
=============================================================================
