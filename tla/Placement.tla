------------------------------ MODULE Placement ------------------------------
(***************************************************************************)
(* Model files placed under <base>/models by one or more proxies that      *)
(* share a ComfyUI install (app.py, _place_model_file; security.py,        *)
(* atomic_no_clobber_write), among crashes, refusals of the file system    *)
(* and a user who copies and removes model files.                          *)
(*                                                                         *)
(* A placement has no await in it: a process runs one at a time.  Several  *)
(* processes interleave at every call on the file system.                  *)
(***************************************************************************)
EXTENDS PathRules

CONSTANTS Uploads, Procs, Pids,
          Blobs,         \* contents
          WeightBlobs,   \* those looks_like_safetensors accepts
          RawPaths,      \* what an upload may name as its file_path
          MaxCrashes,
          Absent, Empty, Partial, Foreign

ASSUME PlacementAssumption ==
  /\ WeightBlobs \subseteq Blobs /\ MaxCrashes \in Nat
  /\ Absent \notin Blobs \cup {Empty, Partial, Foreign} /\ Empty \notin Blobs \cup {Partial, Foreign}
  /\ Partial \notin Blobs \cup {Foreign} /\ Foreign \notin Blobs

VARIABLES file,      \* what is at each destination
          tmp,       \* what is at the temporary name beside it, one for each pid
          pid,       \* of each process
          pc, proc,  \* how far an upload is, and the process that serves it
          place, bytes,
          crashes

vars == <<file, tmp, pid, pc, proc, place, bytes, crashes>>

IsModel(raw) == LET v == ValidateUploadPath(raw) IN v.kind = "model" /\ Resolves(v.norm)
PlaceOf(raw) == Place(ValidateUploadPath(raw).norm)
Dests == {PlaceOf(raw) : raw \in {r \in RawPaths : IsModel(r)}}

Writing == {"open", "write", "gate", "replace", "record"}

Init == /\ file \in [Dests -> {Absent, Foreign}] /\ tmp = [n \in Dests \X Pids |-> Absent]
        /\ pid \in [Procs -> Pids] /\ \A p, q \in Procs : pid[p] = pid[q] => p = q
        /\ pc = [u \in Uploads |-> "idle"] /\ proc = [u \in Uploads |-> Absent]
        /\ place = [u \in Uploads |-> Absent] /\ bytes = [u \in Uploads |-> Absent]
        /\ crashes = 0

At(u, s) == pc[u] = s
Goto(u, s) == pc' = [pc EXCEPT ![u] = s] /\ UNCHANGED <<pid, proc, place, bytes, crashes>>

TmpOf(u) == <<place[u], pid[proc[u]]>>
SetTmp(u, content) == tmp' = [tmp EXCEPT ![TmpOf(u)] = content]

Busy(p) == \E u \in Uploads : pc[u] \in Writing /\ proc[u] = p

\* Up to resolve_placement_path, with its look at the destination.
Accept(u, p, raw, b) ==
  /\ At(u, "idle") /\ ~Busy(p)
  /\ IsModel(raw) /\ b \in WeightBlobs /\ file[PlaceOf(raw)] = Absent
  /\ pc' = [pc EXCEPT ![u] = "open"] /\ proc' = [proc EXCEPT ![u] = p]
  /\ place' = [place EXCEPT ![u] = PlaceOf(raw)] /\ bytes' = [bytes EXCEPT ![u] = b]
  /\ UNCHANGED <<file, tmp, pid, crashes>>

\* 422: the path, the content or the file that is there.  An input is not placed here.
Refuse(u, p, raw, b) ==
  /\ At(u, "idle") /\ ~Busy(p) /\ ValidateUploadPath(raw).kind # "input"
  /\ (IsModel(raw) /\ b \in WeightBlobs) => file[PlaceOf(raw)] # Absent
  /\ Goto(u, "refused") /\ UNCHANGED <<file, tmp>>

\* write_bytes: open, truncate, write.
OpenTmp(u) == At(u, "open") /\ Goto(u, "write") /\ SetTmp(u, Partial) /\ UNCHANGED file
WriteTmp(u) == At(u, "write") /\ Goto(u, "gate") /\ SetTmp(u, bytes[u]) /\ UNCHANGED file

\* Mutant: O_CREAT alone.
Gate_NotExclusive(u) ==
  /\ At(u, "gate") /\ Goto(u, "replace") /\ UNCHANGED tmp
  /\ file' = [file EXCEPT ![place[u]] = IF @ = Absent THEN Empty ELSE @]

\* O_CREAT | O_EXCL on the destination.
Gate(u) == /\ At(u, "gate") /\ file[place[u]] = Absent
           /\ Goto(u, "replace") /\ file' = [file EXCEPT ![place[u]] = Empty] /\ UNCHANGED tmp

\* Mutant: the temporary file is forgotten.
Conflict_KeepsTmp(u) == /\ At(u, "gate") /\ file[place[u]] # Absent
                        /\ Goto(u, "refused") /\ UNCHANGED <<file, tmp>>

\* FileExistsError: 409.
Conflict(u) == /\ At(u, "gate") /\ file[place[u]] # Absent
               /\ Goto(u, "refused") /\ SetTmp(u, Absent) /\ UNCHANGED file

\* Mutant: the bytes are written to the destination, not renamed into it.
Replace_InPlace(u) ==
  /\ At(u, "replace") /\ Goto(u, "record") /\ SetTmp(u, Absent)
  /\ file' \in {[file EXCEPT ![place[u]] = c] : c \in {Partial, bytes[u]}}

\* os.replace: whatever is at the temporary name.
Replace(u) == /\ At(u, "replace") /\ tmp[TmpOf(u)] # Absent
              /\ Goto(u, "record") /\ SetTmp(u, Absent)
              /\ file' = [file EXCEPT ![place[u]] = tmp[TmpOf(u)]]

\* Another OSError at any call: finally unlinks the temporary file; 500.  An empty
\* destination stays if the rename was refused.
WriteFails(u) == /\ pc[u] \in {"open", "write", "gate", "replace"}
                 /\ Goto(u, "failed") /\ SetTmp(u, Absent) /\ UNCHANGED file

\* assets.add and the answer: 201, or an error of the table: 500.
Record(u) == At(u, "record") /\ Goto(u, "created") /\ UNCHANGED <<file, tmp>>
RecordFails(u) == At(u, "record") /\ Goto(u, "unrecorded") /\ UNCHANGED <<file, tmp>>

\* A process dies, and one with a pid that is free takes its place.
AfterCrash(u) == IF At(u, "record") THEN "unrecorded" ELSE "lost"
Crash(p) ==
  /\ crashes < MaxCrashes /\ crashes' = crashes + 1
  /\ \E i \in Pids : (\A q \in Procs \ {p} : pid[q] # i) /\ pid' = [pid EXCEPT ![p] = i]
  /\ pc' = [u \in Uploads |-> IF proc[u] = p /\ pc[u] \in Writing THEN AfterCrash(u) ELSE pc[u]]
  /\ UNCHANGED <<file, tmp, proc, place, bytes>>

\* The user copies a file where none is, or removes one no upload is about to fill.
Touch(d) ==
  /\ \A u \in Uploads : At(u, "replace") => place[u] # d
  /\ file' = [file EXCEPT ![d] = IF @ = Absent THEN Foreign ELSE Absent]
  /\ UNCHANGED <<tmp, pid, pc, proc, place, bytes, crashes>>

Next ==
  \/ \E u \in Uploads :
       \/ \E p \in Procs, raw \in RawPaths, b \in Blobs : Accept(u, p, raw, b) \/ Refuse(u, p, raw, b)
       \/ OpenTmp(u) \/ WriteTmp(u) \/ Gate(u) \/ Conflict(u) \/ Replace(u)
       \/ WriteFails(u) \/ Record(u) \/ RecordFails(u)
  \/ \E p \in Procs : Crash(p)
  \/ \E d \in Dests : Touch(d)

Spec == Init /\ [][Next]_vars

-----------------------------------------------------------------------------
(* Properties *)

\* A destination is absent, empty, the user's or a whole content, never a part of one.
TypeOK ==
  /\ file \in [Dests -> {Absent, Empty, Foreign} \cup Blobs]
  /\ tmp \in [Dests \X Pids -> {Absent, Partial} \cup Blobs]
  /\ pid \in [Procs -> Pids]
  /\ pc \in [Uploads -> Writing \cup {"idle", "refused", "failed", "created", "unrecorded", "lost"}]
  /\ proc \in [Uploads -> Procs \cup {Absent}] /\ place \in [Uploads -> Dests \cup {Absent}]
  /\ bytes \in [Uploads -> Blobs \cup {Absent}] /\ crashes \in 0..MaxCrashes

\* Between the gate and the rename the destination belongs to one upload, and the
\* temporary name of a process holds the bytes of the one upload it serves.
GateHeld ==
  /\ \A p, q \in Procs : pid[p] = pid[q] => p = q
  /\ \A u \in Uploads : pc[u] \in Writing =>
       proc[u] \in Procs /\ place[u] \in Dests /\ bytes[u] \in Blobs
  /\ \A u, v \in Uploads : (pc[u] \in Writing /\ pc[v] \in Writing /\ proc[u] = proc[v]) => u = v
  /\ \A u \in Uploads : pc[u] \in {"gate", "replace"} => tmp[TmpOf(u)] = bytes[u]
  /\ \A u \in Uploads : At(u, "replace") => file[place[u]] = Empty
  /\ \A u, v \in Uploads : (At(u, "replace") /\ At(v, "replace") /\ place[u] = place[v]) => u = v

\* What is left behind has a cause: an empty destination is one about to be filled,
\* or an upload to it failed or was lost; a temporary file has its writer, or a
\* crash left it; a content was put there by an upload that is not told otherwise.
LeftoversHaveCause ==
  /\ \A d \in Dests : file[d] = Empty =>
       \E u \in Uploads : place[u] = d /\ pc[u] \in {"replace", "failed", "lost"}
  /\ \A d \in Dests, i \in Pids : tmp[<<d, i>>] # Absent =>
       \E u \in Uploads : /\ place[u] = d
                          /\ \/ pc[u] \in {"write", "gate", "replace"} /\ pid[proc[u]] = i
                             \/ At(u, "lost")
  /\ \A d \in Dests : file[d] \in Blobs =>
       \E u \in Uploads : /\ place[u] = d /\ bytes[u] = file[d]
                          /\ pc[u] \in {"record", "created", "unrecorded"}

\* Seen from outside, an empty destination is none.
Seen == [d \in Dests |-> IF file[d] = Empty THEN Absent ELSE file[d]]
Phase(s) == CASE s \in {"open", "write", "gate", "replace"} -> "asked"
              [] s = "record" -> "landed"
              [] s \in {"failed", "lost"} -> "refused"
              [] OTHER -> s

Contract == INSTANCE PlacementContract
              WITH store <- Seen, state <- [u \in Uploads |-> Phase(pc[u])]

\* Placement is a store that is written once, in one step, where nothing is: uploads
\* never race "into a torn or silently overwritten file" (README.md:157).
ImplementsContract == Contract!Spec
=============================================================================
