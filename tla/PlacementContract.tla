-------------------------- MODULE PlacementContract --------------------------
(***************************************************************************)
(* What placing model files promises: the destination is a store where a   *)
(* file lands in one step, complete, and only where nothing is; what has   *)
(* landed is never replaced by another upload; an upload is confirmed only *)
(* after its own bytes have landed.                                        *)
(***************************************************************************)
CONSTANTS Uploads, Dests, Blobs,
          Absent,    \* no file
          Foreign    \* a file nobody uploaded

VARIABLES store, state, place, bytes

vars == <<store, state, place, bytes>>

Init == /\ store \in [Dests -> {Absent, Foreign}]
        /\ state = [u \in Uploads |-> "idle"]
        /\ place = [u \in Uploads |-> Absent] /\ bytes = [u \in Uploads |-> Absent]

To(u, s) == state' = [state EXCEPT ![u] = s] /\ UNCHANGED <<place, bytes>>

Ask(u) == /\ state[u] = "idle" /\ state' = [state EXCEPT ![u] = "asked"]
          /\ \E d \in Dests, b \in Blobs : /\ place' = [place EXCEPT ![u] = d]
                                           /\ bytes' = [bytes EXCEPT ![u] = b]
          /\ UNCHANGED store

\* Before it has landed an upload may be turned away or fail; nothing is left of it.
Refuse(u) == state[u] \in {"idle", "asked"} /\ To(u, "refused") /\ UNCHANGED store

Land(u) == /\ state[u] = "asked" /\ To(u, "landed") /\ store[place[u]] = Absent
           /\ store' = [store EXCEPT ![place[u]] = bytes[u]]

Confirm(u) == state[u] = "landed" /\ To(u, "created") /\ UNCHANGED store

\* The file is there, and its uploader is not told.
Lose(u) == state[u] = "landed" /\ To(u, "unrecorded") /\ UNCHANGED store

\* The user puts a file where none is, or takes one away.
Touch(d) == /\ IF store[d] = Absent THEN store' = [store EXCEPT ![d] = Foreign]
               ELSE store' = [store EXCEPT ![d] = Absent]
            /\ UNCHANGED <<state, place, bytes>>

Next == \/ \E u \in Uploads : Ask(u) \/ Refuse(u) \/ Land(u) \/ Confirm(u) \/ Lose(u)
        \/ \E d \in Dests : Touch(d)

Spec == Init /\ [][Next]_vars
=============================================================================
