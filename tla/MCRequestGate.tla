---------------------------- MODULE MCRequestGate ----------------------------
(* RequestGate on small sets, and with every path of up to four segments. *)
EXTENDS RequestGate, SequencesExt

Roots == {"checkpoints", "loras"}
Weights == {"x.safetensors"}
SomeLinks == [r \in Roots |-> IF r = "loras" THEN Outside ELSE r]
Paths == SeqOf({"", ".", "..", "models", "checkpoints", "input", "configs", "x.safetensors"}, 4)
         \cup SeqOf({"models", "loras", "checkpoints", "x.png"}, 3)

\* Names, which the proofs can reason about, is the selection of the segments.
ASSUME NamesSelect ==
  \A raw \in Paths : Names(raw) = SelectSeq(raw, LAMBDA s : s \notin {"", "."})

CommandLines == [command : {"run", "start"}, host : {"127.0.0.1", "0.0.0.0"},
                 token : {None, "secret"}, insecure : BOOLEAN,
                 origins : {{}, {"app"}, {"app", "*"}}]

Origins == [name : {"app"}, host : {"app.example"}, port : {NoPort}]
           \cup [name : {"self"}, host : {"127.0.0.1"}, port : {NoPort, 8189, 3000}]
           \cup [name : {"self"}, host : {"::1"}, port : {NoPort, 8189}]
           \cup [name : {"null"}, host : {None}, port : {NoPort}]
Hosts == [host : {"127.0.0.1", "::1", "lan.example"}, port : {NoPort, 8189}]

Requests == [method : {"OPTIONS", "GET"}, route : {"health", "jobs"}, site : {None, "cross-site"},
             origin : Origins \cup {None}, host : Hosts \cup {None},
             bearer : {None, "secret", "guess"}]
            \cup [method : {"POST"}, route : {"upload"}, site : {None}, origin : {None},
                  host : {None}, bearer : {"secret"}]
=============================================================================
