------------------------- MODULE SubmissionContract -------------------------
(***************************************************************************)
(* What POST /jobs promises its callers, with the key index, the database  *)
(* and the HTTP exchange with ComfyUI left out.                            *)
(*                                                                         *)
(* An Idempotency-Key opens at most one submission at a time, and a        *)
(* submission that may have created a job keeps its key closed for good.   *)
(* A key may become void: the proxy may forget it (the claim cap, or a     *)
(* restart without --state-dir), and a void key promises nothing.  A       *)
(* submission is acknowledged (201) only once its job exists and is        *)
(* recorded, and a durable record is never lost.                           *)
(***************************************************************************)
CONSTANTS Requests,   \* submissions; each would create the job of its own id
          Keys,       \* Idempotency-Key values
          NoKey,      \* the header is absent
          Durable     \* the proxy runs with --state-dir

VARIABLES keyOf,      \* the key of an open submission
          open,       \* submissions that may have created, or may yet create, a job
          created,    \* jobs ComfyUI holds
          recorded,   \* jobs the proxy has a record of
          acked,      \* submissions answered 201
          void        \* keys the proxy no longer vouches for

vars == <<keyOf, open, created, recorded, acked, void>>

Init == /\ keyOf = [r \in Requests |-> NoKey]
        /\ open = {} /\ created = {} /\ recorded = {} /\ acked = {}
        /\ void = {}

\* r may be sent with key k.
Free(k) == k = NoKey \/ k \in void \/ \A q \in open : keyOf[q] # k

Open(r, k) == /\ r \notin open /\ Free(k)
              /\ open' = open \cup {r}
              /\ keyOf' = [keyOf EXCEPT ![r] = k]
              /\ UNCHANGED <<created, recorded, acked>>

Create(r) == /\ r \in open \ created
             /\ created' = created \cup {r}
             /\ UNCHANGED <<keyOf, open, recorded, acked>>

\* Submissions that definitely created no job give their keys back.
Close(S) == /\ S \subseteq open \ created
            /\ open' = open \ S
            /\ keyOf' = [r \in Requests |-> IF r \in S THEN NoKey ELSE keyOf[r]]
            /\ UNCHANGED <<created, acked>>

Release(r) == Close({r}) /\ recorded' = recorded

\* The process dies.  Without --state-dir the records go with it.
Die(S) == /\ Close(S)
          /\ recorded' \subseteq created
          /\ Durable => recorded \subseteq recorded'

\* A job is recorded, and its submission possibly acknowledged.
Record(r) == /\ r \in created
             /\ recorded' = recorded \cup {r}
             /\ acked' \in {acked, acked \cup {r}}
             /\ UNCHANGED <<keyOf, open, created>>

Next == /\ void \subseteq void' /\ void' \subseteq Keys
        /\ \/ \E r \in Requests, k \in Keys \cup {NoKey} : Open(r, k)
           \/ \E r \in Requests : Create(r) \/ Release(r) \/ Record(r)
           \/ \E S \in SUBSET Requests : Die(S)

Spec == Init /\ [][Next]_vars
=============================================================================
