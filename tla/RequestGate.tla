----------------------------- MODULE RequestGate -----------------------------
(***************************************************************************)
(* What a request passes before a handler sees it (middleware.py, auth.py) *)
(* in the order the command line puts it together (cli.py): CORS, origin   *)
(* guard, bearer token; and what the proxy may be started with, in the     *)
(* foreground or as the child of "start".  An upload's path is then        *)
(* classified (PathRules).                                                 *)
(*                                                                         *)
(* A header is a value of a small set; the Origin and the Host have a host *)
(* and a port, NoPort if they name none.                                   *)
(***************************************************************************)
EXTENDS PathRules

CONSTANTS Launches,   \* command lines
          Arrivals,   \* requests
          RawPaths,   \* what an upload may name as its file_path
          Bracketed,  \* hosts that are IPv6 addresses
          None,       \* no token, no header, no request
          NoPort

ASSUME GateAssumption ==
  /\ None \notin Arrivals \cup {"cross-site"}
  /\ RawPaths \subseteq Seq(STRING)
  /\ \A args \in Launches :
       {"command", "host", "token", "insecure", "origins"} \subseteq DOMAIN args

VARIABLES launch, server,   \* the command line, until the server runs or refuses
          request, stage,   \* a request, and which middleware has it
          path,             \* the file_path in the body of an upload
          stashed,          \* cors_allowed_origin of the request
          response          \* status, and whether CORS headers are on it

vars == <<launch, server, request, stage, path, stashed, response>>

NoResponse == [status |-> 0, cors |-> FALSE]

Init == /\ launch \in Launches /\ server = None
        /\ request = None /\ stage = "none" /\ path = None
        /\ stashed = FALSE /\ response = NoResponse

-----------------------------------------------------------------------------
(* The command line *)

Loopback(host) == host \in {"127.0.0.1", "::1", "localhost"}

\* _bind_refused.
BindRefused(args) == ~Loopback(args.host) /\ args.token = None /\ ~args.insecure

\* normalize_cors_origin refuses the wildcard.
CorsRefused(args) == "*" \in args.origins

\* Mutant: the child is not told that the bind is meant.
ServerArgv_DropsInsecure(args) == [args EXCEPT !.command = "run", !.insecure = FALSE]

\* _server_argv: the child of "start" is a "run" with the same arguments.
ServerArgv(args) == [args EXCEPT !.command = "run"]

Refusal == [refused |-> TRUE]

\* _run_foreground.
Run(args) ==
  IF BindRefused(args) \/ CorsRefused(args) THEN server' = Refusal
  ELSE server' = [refused |-> FALSE, token |-> args.token, allowed |-> args.origins]

Start == /\ launch # None /\ launch.command = "start" /\ launch' = None
         /\ IF BindRefused(launch) \/ CorsRefused(launch) THEN server' = Refusal
            ELSE Run(ServerArgv(launch))
         /\ UNCHANGED <<request, stage, path, stashed, response>>

RunForeground == /\ launch # None /\ launch.command = "run" /\ launch' = None /\ Run(launch)
                 /\ UNCHANGED <<request, stage, path, stashed, response>>

-----------------------------------------------------------------------------
(* The chain of middlewares *)

Serving == server # None /\ ~server.refused

Arrive(r) ==
  /\ Serving /\ request = None
  /\ request' = r
  /\ stage' = IF server.allowed = {} THEN "guard" ELSE "cors"
  /\ UNCHANGED <<launch, server, path, stashed, response>>

\* attach_cors_prepare puts the headers on every response of a stashed request.
Respond(status, stash) == /\ stage' = "done"
                          /\ response' = [status |-> status, cors |-> stash]
                          /\ UNCHANGED <<launch, server, request>>
Stop(status, stash) == Respond(status, stash) /\ UNCHANGED path
Pass(to) == stage' = to /\ UNCHANGED <<launch, server, request, path, response>>

Allowed == request.origin # None /\ request.origin.name \in server.allowed

\* Mutant: only the answer to the preflight gets the headers.
CorsMiddleware_PreflightOnly ==
  /\ stage = "cors"
  /\ IF Allowed /\ request.method = "OPTIONS"
     THEN stashed' = TRUE /\ Stop(204, TRUE)
     ELSE Pass("guard") /\ UNCHANGED stashed

CorsMiddleware ==
  /\ stage = "cors"
  /\ IF Allowed
     THEN /\ stashed' = TRUE
          /\ IF request.method = "OPTIONS" THEN Stop(204, TRUE) ELSE Pass("guard")
     ELSE Pass("guard") /\ UNCHANGED stashed

\* Mutant: the headers are compared with their ports.
SameSite_Ports(origin, host) ==
  origin.host = None \/ (origin.host = host.host /\ origin.port = host.port)

\* A port counts only if both sides name one.  An opaque Origin ("null") has no host.
\* The side that is stripped of its port loses the brackets of an IPv6 address too.
SameSite(origin, host) ==
  \/ origin.host = None
  \/ /\ origin.host = host.host
     /\ origin.port = host.port
        \/ (NoPort \in {origin.port, host.port} /\ origin.host \notin Bracketed)

Mismatch == /\ request.origin # None /\ request.host # None /\ Loopback(request.host.host)
            /\ ~SameSite(request.origin, request.host)

AfterGuard == IF server.token = None THEN "handler" ELSE "auth"

\* Mutant: the header of the browser is looked at after Origin and Host.
OriginOnlyMiddleware_OriginFirst ==
  /\ stage = "guard" /\ UNCHANGED stashed
  /\ CASE Allowed -> IF request.method = "OPTIONS" THEN Stop(204, stashed) ELSE Pass(AfterGuard)
       [] ~Allowed /\ Mismatch -> Stop(403, stashed)
       [] ~Allowed /\ ~Mismatch ->
            IF request.method = "OPTIONS" THEN Stop(200, stashed) ELSE Pass(AfterGuard)

OriginOnlyMiddleware ==
  /\ stage = "guard" /\ UNCHANGED stashed
  /\ CASE Allowed -> IF request.method = "OPTIONS" THEN Stop(204, stashed) ELSE Pass(AfterGuard)
       [] ~Allowed /\ (request.site = "cross-site" \/ Mismatch) -> Stop(403, stashed)
       [] ~Allowed /\ request.site # "cross-site" /\ ~Mismatch ->
            IF request.method = "OPTIONS" THEN Stop(200, stashed) ELSE Pass(AfterGuard)

Public == request.route = "health" \/ request.method = "OPTIONS"

BearerAuthMiddleware ==
  /\ stage = "auth" /\ UNCHANGED stashed
  /\ IF Public \/ request.bearer = server.token THEN Pass("handler") ELSE Stop(401, stashed)

-----------------------------------------------------------------------------
(* The handler *)

\* A model goes to its place, an input to ComfyUI, a refused path nowhere.
Upload(raw) == LET v == ValidateUploadPath(raw) IN
               v.kind = "input" \/ (v.kind = "model" /\ Resolves(v.norm))

Handler ==
  /\ stage = "handler" /\ UNCHANGED stashed
  /\ \/ request.route # "upload" /\ Stop(200, stashed)
     \/ /\ request.route = "upload" /\ path' \in RawPaths
        /\ Respond(IF Upload(path') THEN 200 ELSE 422, stashed)

Next == \/ Start \/ RunForeground \/ \E r \in Arrivals : Arrive(r)
        \/ CorsMiddleware \/ OriginOnlyMiddleware \/ BearerAuthMiddleware \/ Handler

Spec == Init /\ [][Next]_vars

-----------------------------------------------------------------------------
(* Properties *)

\* A handler runs only for a request whose Origin the operator allowed, or that no
\* browser marked cross-site and whose Origin matches a loopback Host; one that is
\* not public also carries the token, if there is one; and a preflight never
\* reaches a handler.
HandlerIsGuarded ==
  stage = "handler" =>
    /\ request.method # "OPTIONS"
    /\ request.route # "health" => server.token \in {None, request.bearer}
    /\ Allowed \/ (request.site # "cross-site" /\ ~Mismatch)

\* "Never silently exposed to the network unauthenticated" (cli.py:18): who serves
\* the network asks for a token or was told not to.  And a child that "start"
\* launches does not refuse what "start" let pass.
ExposureIsMeant ==
  [][launch # None /\ launch' = None =>
       /\ (~server'.refused /\ ~Loopback(launch.host)) => server'.token # None \/ launch.insecure
       /\ server'.refused = (BindRefused(launch) \/ CorsRefused(launch))]_vars

\* Every answer to an allowed origin has CORS headers, errors and preflights
\* included, so that its page can read them; no other answer has any, and no
\* such origin is turned away for where it comes from.
CorsExactlyForAllowed ==
  stage = "done" => /\ response.cors <=> Allowed
                    /\ Allowed => response.status # 403

\* The client of the same site is not turned away over a port its Host or Origin
\* leaves out (middleware.py:26, "port ignored whenever either side omits one");
\* at an IPv6 address it is.
SameHostPasses ==
  (stage = "done" /\ response.status = 403) =>
    request.site = "cross-site" \/ request.origin.host # request.host.host
      \/ (request.origin.port # request.host.port
          /\ (NoPort \in {request.origin.port, request.host.port} =>
                request.host.host \in Bracketed))

\* What one classifier calls a model the other one accepts, but for its suffix and
\* its symlinks; its place is under a model root; no accepted path climbs, and an
\* input is never absolute (but for "models//", which names no file).
PathsAgree ==
  path # None =>
    LET v == ValidateUploadPath(path) IN
    /\ v.kind = "model" => WellShaped(v.norm) /\ Parts(v.norm)[1] \in ModelRoots
    /\ v.kind = "input" => /\ ~Climbs(Parts(v.norm))
                           /\ Absolute(v.norm) => Parts(v.norm) = <<"/">>
    \* "models/" changes nothing for a path that does not begin with it
    /\ (~Absolute(path) /\ path[1] # "models") => ValidateUploadPath(<<"models">> \o path) = v
=============================================================================
