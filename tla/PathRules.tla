------------------------------ MODULE PathRules ------------------------------
(***************************************************************************)
(* Where an upload may land (security.py): validate_upload_path, which     *)
(* decides between a model and an input, and resolve_placement_path, which *)
(* leads a model to its place under <base>/models.                         *)
(*                                                                         *)
(* A client's path is the sequence of what its slashes separate, "" and    *)
(* "." included: "/x" is <<"", "x">>, "a//b" is <<"a", "", "b">>.          *)
(***************************************************************************)
EXTENDS Sequences, Naturals, FiniteSets

CONSTANTS ModelRoots,   \* MODEL_ROOTS
          WeightNames,  \* file names that end in .safetensors
          Links         \* where the directory of a model root really is

InputRoots == {"input"}
Outside == "outside"

ASSUME PathsAssumption ==
  /\ ModelRoots \cap (InputRoots \cup {"", ".", "..", "/", "models", Outside}) = {}
  /\ Links \in [ModelRoots -> ModelRoots \cup {Outside}]

Absolute(raw) == raw \in {<<>>, <<"">>} \/ (raw # <<>> /\ raw[1] = "")

\* The n-th of a set of positions.
Nth(S, n) == CHOOSE i \in S : Cardinality({k \in S : k <= i}) = n

\* The segments that name something, in order: "" and "." are dropped.
Names(raw) == LET Kept == {i \in DOMAIN raw : raw[i] \notin {"", "."}}
              IN [n \in 1..Cardinality(Kept) |-> raw[Nth(Kept, n)]]

\* Path(...).parts: a leading slash is a part of its own.
Parts(raw) == (IF Len(raw) > 1 /\ raw[1] = "" THEN <<"/">> ELSE <<>>) \o Names(raw)

Climbs(parts) == \E i \in DOMAIN parts : parts[i] = ".."

\* The optional "models/" prefix, taken off once.
Stripped(raw) == IF Len(raw) > 1 /\ raw[1] = "models" THEN Tail(raw) ELSE raw

Verdict(kind, norm) == [kind |-> kind, norm |-> norm]
Refused == Verdict("refused", <<>>)

\* Mutant: the first segment alone decides.
ValidateUploadPath_FirstSegment(raw) ==
  LET parts == Parts(Stripped(raw)) IN
  IF Absolute(raw) \/ parts = <<>> THEN Refused ELSE
  CASE Len(parts) = 1 -> Verdict("input", Stripped(raw))
    [] Len(parts) > 1 /\ parts[1] \in ModelRoots -> Verdict("model", Stripped(raw))
    [] Len(parts) > 1 /\ parts[1] \in InputRoots -> Verdict("input", Tail(parts))
    [] OTHER -> Refused

ValidateUploadPath(raw) ==
  LET parts == Parts(Stripped(raw)) IN
  IF Absolute(raw) \/ parts = <<>> \/ Climbs(parts) THEN Refused ELSE
  CASE Len(parts) = 1 -> Verdict("input", Stripped(raw))
    [] Len(parts) > 1 /\ parts[1] \in ModelRoots -> Verdict("model", Stripped(raw))
    [] Len(parts) > 1 /\ parts[1] \in InputRoots -> Verdict("input", Tail(parts))
    [] OTHER -> Refused

\* The shape resolve_placement_path asks of what validate_upload_path calls a model.
WellShaped(norm) == /\ ~Absolute(norm) /\ ~Climbs(Parts(norm)) /\ Len(Parts(norm)) > 1
                    /\ Parts(norm)[1] \in ModelRoots \cup InputRoots

Suited(norm) == Parts(norm)[1] \in ModelRoots => Parts(norm)[Len(Parts(norm))] \in WeightNames

\* Symlinks are followed; what leads out of the base directory is refused.
RealRoot(root) == IF root \in ModelRoots THEN Links[root] ELSE root
Place(norm) == <<RealRoot(Parts(norm)[1])>> \o Tail(Parts(norm))

\* resolve_placement_path, but for the look at what is there already.
Resolves(norm) == WellShaped(norm) /\ Suited(norm) /\ Place(norm)[1] # Outside
=============================================================================
