----------------------------- MODULE MCJobStatus -----------------------------
(* JobStatus on small sets: a list of everything, or of the jobs that run. *)
EXTENDS JobStatus, FiniteSets, TLC

AllOrRunning == {Statuses, {"running"}}

\* The model is followed up to the answer; a failed job is read as one that
\* succeeded is.  ComfyUI loses at most one job, interrupts at most one, and answers
\* one question of the request with an error, and not all of it in one behaviour.
\* A restart is looked at where it leaves two records or more; without --state-dir
\* it leaves none, and what follows is what follows the first start.
Gone == {j \in Jobs : place[j] = "gone"}
Interrupted == stopping \cup {j \in Jobs : outcome[j] = "canceled"}
Bounds == /\ pc # "done"
          /\ crashes > 0 => durable /\ Len(table) > 1
          /\ \A j \in Jobs : outcome[j] # "failed"
          /\ \A S \in {Gone, Interrupted, refused} : Cardinality(S) <= 1
          /\ Cardinality(Gone) + Cardinality(Interrupted) + Cardinality(refused) <= 2
Symmetry == Permutations(Jobs)
=============================================================================
