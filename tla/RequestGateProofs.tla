-------------------------- MODULE RequestGateProofs --------------------------
(***************************************************************************)
(* What the chain of middlewares guarantees, for any requests, tokens and  *)
(* origins, and any command line; and that the two classifiers of a path   *)
(* agree, whatever its length.                                             *)
(***************************************************************************)
EXTENDS RequestGate, FiniteSetTheorems, SequenceTheorems, TLAPS

Stages == {"none", "cors", "guard", "auth", "handler", "done"}

\* What is known of the request in each stage.
IInv ==
  /\ stage \in Stages /\ stashed \in BOOLEAN
  /\ stage = "none" <=> request = None
  /\ launch # None => server = None
  /\ stage # "none" => server # None
  /\ stage \in {"none", "cors"} => ~stashed
  /\ stage \in {"guard", "auth", "handler", "done"} => (stashed <=> Allowed)
  /\ stage \in {"auth", "handler"} => /\ request.method # "OPTIONS"
                                      /\ Allowed \/ (request.site # "cross-site" /\ ~Mismatch)
  /\ stage = "handler" /\ request.route # "health" => server.token \in {None, request.bearer}
  /\ stage = "done" /\ response.status = 403 =>
       ~Allowed /\ (request.site = "cross-site" \/ Mismatch)
  /\ stage = "done" => response.cors = stashed

LEMMA InitIInv == Init => IInv
  BY DEF Init, IInv, Stages

LEMMA LaunchIInv == ASSUME IInv, Start \/ RunForeground PROVE IInv'
<1>1. /\ server = None /\ UNCHANGED <<request, stage, path, stashed, response>>
      /\ stage = "none" /\ launch' = None
  BY DEF IInv, Start, RunForeground
<1> QED BY <1>1 DEF IInv, Stages

LEMMA ArriveIInv == ASSUME IInv, NEW r \in Arrivals, Arrive(r) PROVE IInv'
<1>1. /\ server' = server /\ server # None /\ request' # None /\ stashed' = stashed
      /\ launch' = launch
      /\ stage' = IF server.allowed = {} THEN "guard" ELSE "cors"
      /\ stage = "none" /\ ~stashed
  BY GateAssumption DEF Arrive, Serving, IInv, GateAssumption
<1>2. stage' = "guard" => ~Allowed'
  BY <1>1 DEF Allowed
<1> QED BY <1>1, <1>2 DEF IInv, Stages

\* The middlewares change neither the server nor the request.
LEMMA SameRequest ==
  ASSUME UNCHANGED <<server, request>> PROVE (Allowed' <=> Allowed) /\ (Mismatch' <=> Mismatch)
  BY DEF Allowed, Mismatch

LEMMA CorsIInv == ASSUME IInv, CorsMiddleware PROVE IInv'
<1>1. /\ UNCHANGED <<launch, server, request>> /\ stage = "cors" /\ request # None /\ server # None
      /\ stashed' \in BOOLEAN /\ (stashed' <=> Allowed)
  <2>1. CASE Allowed
    BY <2>1 DEF IInv, CorsMiddleware, Stop, Respond, Pass
  <2>2. CASE ~Allowed
    BY <2>2 DEF IInv, CorsMiddleware, Stop, Respond, Pass
  <2> QED BY <2>1, <2>2
<1>2. \/ stage' = "guard"
      \/ Allowed /\ stage' = "done" /\ response' = [status |-> 204, cors |-> TRUE]
  BY DEF CorsMiddleware, Stop, Respond, Pass
<1>3. CASE stage' = "guard"
  BY <1>1, <1>3, SameRequest DEF IInv, Stages
<1>4. CASE Allowed /\ stage' = "done" /\ response' = [status |-> 204, cors |-> TRUE]
  BY <1>1, <1>4, SameRequest DEF IInv, Stages
<1> QED BY <1>2, <1>3, <1>4

LEMMA GuardIInv == ASSUME IInv, OriginOnlyMiddleware PROVE IInv'
<1>1. /\ UNCHANGED <<launch, server, request, stashed>> /\ stage = "guard" /\ request # None
      /\ server # None /\ stashed \in BOOLEAN /\ (stashed <=> Allowed)
  BY DEF IInv, OriginOnlyMiddleware, Stop, Respond, Pass
<1>2. \/ /\ stage' = AfterGuard /\ request.method # "OPTIONS"
         /\ Allowed \/ (request.site # "cross-site" /\ ~Mismatch)
      \/ stage' = "done" /\ \E s \in {200, 204} : response' = [status |-> s, cors |-> stashed]
      \/ /\ stage' = "done" /\ response' = [status |-> 403, cors |-> stashed]
         /\ ~Allowed /\ (request.site = "cross-site" \/ Mismatch)
  BY DEF OriginOnlyMiddleware, Stop, Respond, Pass
<1>3. CASE /\ stage' = AfterGuard /\ request.method # "OPTIONS"
           /\ Allowed \/ (request.site # "cross-site" /\ ~Mismatch)
  BY <1>1, <1>3, SameRequest DEF IInv, Stages, AfterGuard
<1>4. CASE stage' = "done" /\ \E s \in {200, 204} : response' = [status |-> s, cors |-> stashed]
  BY <1>1, <1>4, SameRequest DEF IInv, Stages
<1>5. CASE /\ stage' = "done" /\ response' = [status |-> 403, cors |-> stashed]
           /\ ~Allowed /\ (request.site = "cross-site" \/ Mismatch)
  BY <1>1, <1>5, SameRequest DEF IInv, Stages
<1> QED BY <1>2, <1>3, <1>4, <1>5

LEMMA AuthIInv == ASSUME IInv, BearerAuthMiddleware PROVE IInv'
<1>1. /\ UNCHANGED <<launch, server, request, stashed>> /\ stage = "auth" /\ request # None
      /\ server # None /\ stashed \in BOOLEAN /\ (stashed <=> Allowed) /\ request.method # "OPTIONS"
      /\ Allowed \/ (request.site # "cross-site" /\ ~Mismatch)
  BY DEF IInv, BearerAuthMiddleware, Stop, Respond, Pass
<1>2. \/ stage' = "handler" /\ (request.route = "health" \/ request.bearer = server.token)
      \/ stage' = "done" /\ response' = [status |-> 401, cors |-> stashed]
  BY <1>1 DEF BearerAuthMiddleware, Public, Stop, Respond, Pass
<1>3. CASE stage' = "handler" /\ (request.route = "health" \/ request.bearer = server.token)
  BY <1>1, <1>3, SameRequest DEF IInv, Stages
<1>4. CASE stage' = "done" /\ response' = [status |-> 401, cors |-> stashed]
  BY <1>1, <1>4, SameRequest DEF IInv, Stages
<1> QED BY <1>2, <1>3, <1>4

LEMMA HandlerIInv == ASSUME IInv, Handler PROVE IInv'
<1>1. /\ UNCHANGED <<launch, server, request, stashed>> /\ stage = "handler" /\ request # None
      /\ server # None /\ stashed \in BOOLEAN /\ (stashed <=> Allowed) /\ stage' = "done"
      /\ \E s \in {200, 422} : response' = [status |-> s, cors |-> stashed]
  BY DEF IInv, Handler, Stop, Respond
<1> QED BY <1>1, SameRequest DEF IInv, Stages

LEMMA StepIInv == IInv /\ [Next]_vars => IInv'
<1> SUFFICES ASSUME IInv, [Next]_vars PROVE IInv'
  OBVIOUS
<1>1. CASE UNCHANGED vars
  BY <1>1, SameRequest DEF vars, IInv
<1> QED BY <1>1, LaunchIInv, ArriveIInv, CorsIInv, GuardIInv, AuthIInv, HandlerIInv DEF Next

\* Whoever asks, and whatever the proxy was started with: a handler runs only for a
\* request that passed the origin guard and carries the token, if there is one
\* (middleware.py:208-248, auth.py:37-54, cli.py:151-157).
THEOREM HandlersAreGuarded == Spec => []HandlerIsGuarded
<1>1. IInv => HandlerIsGuarded
  <2> SUFFICES ASSUME IInv, stage = "handler" PROVE HandlerIsGuarded
    BY DEF HandlerIsGuarded
  <2> QED BY DEF IInv, HandlerIsGuarded
<1> QED BY <1>1, InitIInv, StepIInv, PTL DEF Spec

\* Every answer to an allowed origin, and no other, has the CORS headers, and none is
\* turned away for its origin (middleware.py:130-205).
THEOREM CorsForAllowed == Spec => []CorsExactlyForAllowed
<1>1. IInv => CorsExactlyForAllowed
  <2> SUFFICES ASSUME IInv, stage = "done"
               PROVE (response.cors <=> Allowed) /\ (Allowed => response.status # 403)
    BY DEF CorsExactlyForAllowed
  <2>1. response.cors = stashed /\ (stashed <=> Allowed)
    BY DEF IInv
  <2>2. Allowed => response.status # 403
    BY DEF IInv
  <2> QED BY <2>1, <2>2
<1> QED BY <1>1, InitIInv, StepIInv, PTL DEF Spec

\* A request is turned away only for the mark of the browser, another host, or another
\* port where both sides name one (middleware.py:80-127).
THEOREM SameHostsPass == Spec => []SameHostPasses
<1>1. IInv => SameHostPasses
  BY DEF IInv, SameHostPasses, Mismatch, SameSite
<1> QED BY <1>1, InitIInv, StepIInv, PTL DEF Spec

-----------------------------------------------------------------------------
(* The command line *)

LEMMA ArgvRefusedAlike ==
  ASSUME NEW args \in Launches
  PROVE  /\ BindRefused(ServerArgv(args)) <=> BindRefused(args)
         /\ CorsRefused(ServerArgv(args)) <=> CorsRefused(args)
         /\ ServerArgv(args).token = args.token /\ ServerArgv(args).insecure = args.insecure
<1>1. /\ ServerArgv(args).host = args.host /\ ServerArgv(args).token = args.token
      /\ ServerArgv(args).insecure = args.insecure /\ ServerArgv(args).origins = args.origins
  BY GateAssumption DEF ServerArgv, GateAssumption
<1> QED BY <1>1 DEF BindRefused, CorsRefused

LEMMA LaunchType == Init => launch \in Launches \cup {None}
  BY DEF Init

LEMMA LaunchStays ==
  launch \in Launches \cup {None} /\ [Next]_vars => (launch \in Launches \cup {None})'
  BY DEF Next, vars, Start, RunForeground, Arrive, CorsMiddleware,
     OriginOnlyMiddleware, BearerAuthMiddleware, Handler, Stop, Respond, Pass

\* The step of the launch.
Meant ==
  launch # None /\ launch' = None =>
    /\ (~server'.refused /\ ~Loopback(launch.host)) => server'.token # None \/ launch.insecure
    /\ server'.refused = (BindRefused(launch) \/ CorsRefused(launch))

LEMMA LaunchIsMeant == launch \in Launches \cup {None} /\ [Next]_vars => Meant
<1> SUFFICES ASSUME launch \in Launches, [Next]_vars, launch # None, launch' = None
             PROVE  /\ (~server'.refused /\ ~Loopback(launch.host)) =>
                          server'.token # None \/ launch.insecure
                    /\ server'.refused = (BindRefused(launch) \/ CorsRefused(launch))
  BY DEF Meant
<1>1. Start \/ RunForeground
  BY DEF Next, vars, Arrive, CorsMiddleware, OriginOnlyMiddleware, BearerAuthMiddleware, Handler,
     Stop, Respond, Pass
<1>2. CASE BindRefused(launch) \/ CorsRefused(launch)
  <2>1. server' = Refusal
    BY <1>1, <1>2 DEF Start, RunForeground, Run
  <2>2. server'.refused = TRUE
    BY <2>1 DEF Refusal
  <2> QED BY <1>2, <2>2
<1>3. CASE ~(BindRefused(launch) \/ CorsRefused(launch))
  <2>1. \E o : server' = [refused |-> FALSE, token |-> launch.token, allowed |-> o]
    BY <1>1, <1>3, ArgvRefusedAlike DEF Start, RunForeground, Run
  <2>2. server'.refused = FALSE /\ server'.token = launch.token
    BY <2>1
  <2> QED BY <1>3, <2>2 DEF BindRefused
<1> QED BY <1>2, <1>3

\* No command line makes a proxy that serves the network without a token, unless it was
\* told to; and what "start" lets pass its child does not refuse (cli.py:121-170, 215-222).
THEOREM ExposuresAreMeant == Spec => ExposureIsMeant
<1>1. launch \in Launches \cup {None} /\ [Next]_vars => [Meant]_vars
  BY LaunchIsMeant
<1>2. Spec => [][Meant]_vars
  BY <1>1, LaunchType, LaunchStays, PTL DEF Spec
<1> QED BY <1>2 DEF ExposureIsMeant, Meant
-----------------------------------------------------------------------------
(* The paths of an upload *)

\* All strings: the provers do not know that a literal is one.
Texts == STRING \cup {"/", "models"}

\* The positions of a finite set have ranks 1, 2, ..: the n-th is in the set.
LEMMA NthInSet ==
  ASSUME NEW m \in Nat, NEW S \in SUBSET (1..m), NEW n \in 1..Cardinality(S)
  PROVE  Nth(S, n) \in S
<1> DEFINE upTo(i) == {k \in S : k <= i}
           rank == [i \in S |-> Cardinality(upTo(i))]
<1>1. IsFiniteSet(S) /\ Cardinality(S) \in Nat
  <2>1. IsFiniteSet(1..m)
    BY FS_Interval
  <2>2. IsFiniteSet(S)
    BY <2>1, FS_Subset
  <2> QED BY <2>2, FS_CardinalityType
<1>2. ASSUME NEW i \in S
      PROVE  IsFiniteSet(upTo(i)) /\ Cardinality(upTo(i)) \in 1..Cardinality(S)
  <2>1. upTo(i) \in SUBSET S
    OBVIOUS
  <2>2. IsFiniteSet(upTo(i)) /\ Cardinality(upTo(i)) \in Nat
        /\ Cardinality(upTo(i)) <= Cardinality(S)
    BY <1>1, <2>1, FS_Subset, FS_CardinalityType
  <2>3. i \in upTo(i)
    OBVIOUS
  <2>4. Cardinality(upTo(i)) # 0
    BY <2>2, <2>3, FS_EmptySet
  <2> QED BY <1>1, <2>2, <2>4
<1>3. ASSUME NEW i \in S, NEW k \in S, i < k
      PROVE  Cardinality(upTo(i)) < Cardinality(upTo(k))
  <2>1. upTo(i) \in SUBSET upTo(k) /\ k \notin upTo(i) /\ k \in upTo(k)
    <3>1. i \in Int /\ k \in Int /\ \A j \in S : j \in Int
      OBVIOUS
    <3>2. k \in upTo(k) /\ k \notin upTo(i)
      BY <1>3, <3>1
    <3>3. ASSUME NEW j \in upTo(i)  PROVE j \in upTo(k)
      <4>1. j \in S /\ j <= i
        BY <3>3
      <4>2. j <= k
        BY <1>3, <3>1, <4>1
      <4> QED BY <4>1, <4>2
    <3> HIDE DEF upTo
    <3> QED BY <3>2, <3>3
  <2>2. upTo(i) # upTo(k)
    BY <2>1
  <2> HIDE DEF upTo
  <2> QED BY <1>2, <2>1, <2>2, FS_Subset
<1>4. rank \in [S -> 1..Cardinality(S)]
  BY <1>2
<1>5. ASSUME NEW i \in S, NEW k \in S, rank[i] = rank[k]  PROVE i = k
  <2>1. Cardinality(upTo(i)) = Cardinality(upTo(k)) /\ Cardinality(upTo(i)) \in Nat
    BY <1>2, <1>5
  <2>2. ~(i < k) /\ ~(k < i)
    BY <1>3, <2>1
  <2> QED BY <2>2
<1>6. rank \in Injection(S, 1..Cardinality(S))
  BY <1>4, <1>5 DEF Injection, IsInjective
<1>7. rank \in Surjection(S, 1..Cardinality(S))
  <2>1. IsFiniteSet(1..Cardinality(S)) /\ Cardinality(1..Cardinality(S)) = Cardinality(S)
    BY <1>1, FS_Interval
  <2> HIDE DEF rank
  <2> QED BY <1>6, <2>1, FS_Injection
<1>8. \E i \in S : Cardinality(upTo(i)) = n
  BY <1>7 DEF Surjection
<1> QED BY <1>8 DEF Nth

\* The names of a path are segments of it, and none of them is "" or ".".
LEMMA NamesAre ==
  ASSUME NEW raw \in Seq(Texts)
  PROVE  /\ Names(raw) \in Seq(Texts)
         /\ \A n \in DOMAIN Names(raw) : /\ Names(raw)[n] \notin {"", "."}
                                         /\ \E i \in DOMAIN raw : Names(raw)[n] = raw[i]
<1> DEFINE kept == {i \in DOMAIN raw : raw[i] \notin {"", "."}}
<1>1. Len(raw) \in Nat /\ DOMAIN raw = 1..Len(raw)
  OBVIOUS
<1>2. kept \in SUBSET (1..Len(raw)) /\ Cardinality(kept) \in Nat
  <2>1. kept \in SUBSET (1..Len(raw))
    BY <1>1
  <2>2. IsFiniteSet(1..Len(raw))
    BY <1>1, FS_Interval
  <2>3. IsFiniteSet(kept)
    BY <2>1, <2>2, FS_Subset
  <2> QED BY <2>1, <2>3, FS_CardinalityType
<1>3. Names(raw) = [n \in 1..Cardinality(kept) |-> raw[Nth(kept, n)]]
  BY DEF Names
<1>4. \A n \in 1..Cardinality(kept) : Nth(kept, n) \in kept
  <2> HIDE DEF kept
  <2> QED BY <1>1, <1>2, NthInSet
<1>5. ASSUME NEW n \in 1..Cardinality(kept)
      PROVE  raw[Nth(kept, n)] \in Texts \ {"", "."} /\ Nth(kept, n) \in DOMAIN raw
  <2>1. PICK i \in kept : i = Nth(kept, n)
    BY <1>4
  <2>2. i \in DOMAIN raw /\ raw[i] \notin {"", "."}
    OBVIOUS
  <2>3. raw[i] \in Texts
    <3> HIDE DEF kept
    <3> QED BY <1>1, <2>2, ElementOfSeq
  <2> HIDE DEF kept
  <2> QED BY <2>1, <2>2, <2>3
<1> HIDE DEF kept
<1>6. Names(raw) \in [1..Cardinality(kept) -> Texts]
  BY <1>3, <1>5
<1>7. Names(raw) \in Seq(Texts) /\ DOMAIN Names(raw) = 1..Cardinality(kept)
  BY <1>2, <1>6
<1> QED BY <1>3, <1>5, <1>7

LEMMA Ranges == 1..0 = {} /\ (\A i \in 1..1 : i = 1) /\ \A n \in Nat \ {0} : 1 \in 1..n
<1>1. 1..0 = {}
  OBVIOUS
<1>2. ASSUME NEW i \in 1..1  PROVE i = 1
  OBVIOUS
<1>3. ASSUME NEW n \in Nat \ {0}  PROVE 1 \in 1..n
  OBVIOUS
<1> QED BY <1>1, <1>2, <1>3

\* A path of empty segments has no names.
LEMMA NoNames ==
  ASSUME NEW raw \in Seq(Texts), \A i \in DOMAIN raw : raw[i] \in {"", "."}
  PROVE  Names(raw) = <<>>
<1>1. {i \in DOMAIN raw : raw[i] \notin {"", "."}} = {}
  OBVIOUS
<1>2. Cardinality({}) = 0
  BY FS_EmptySet
<1>3. DOMAIN Names(raw) = 1..0
  BY <1>1, <1>2 DEF Names
<1>4. ASSUME Names(raw) # <<>>  PROVE FALSE
  <2>1. Len(Names(raw)) \in Nat \ {0} /\ DOMAIN Names(raw) = 1..Len(Names(raw))
    BY <1>4, NamesAre, EmptySeq, LenProperties
  <2>2. PICK n \in Nat \ {0} : n = Len(Names(raw))
    BY <2>1
  <2> QED BY <1>3, <2>1, <2>2, Ranges
<1> QED BY <1>4

\* A path of one segment.
LEMMA Single ==
  ASSUME NEW raw \in Seq(Texts), raw = <<"">>
  PROVE  Len(raw) = 1 /\ \A i \in DOMAIN raw : raw[i] \in {"", "."}
<1>1. Len(raw) = 1 /\ raw[1] = ""
  OBVIOUS
<1>2. DOMAIN raw = 1..1
  BY <1>1, LenProperties
<1> QED BY <1>1, <1>2, Ranges

LEMMA Slash == ASSUME NEW e \in {"/", "models"}  PROVE <<e>> \in Seq(Texts)
<1>1. e \in Texts
  BY DEF Texts
<1> QED BY <1>1

\* What the parts of a path are.
LEMMA PartsAre ==
  ASSUME NEW raw \in Seq(Texts)
  PROVE  /\ Parts(raw) \in Seq(Texts)
         /\ \A i \in DOMAIN Parts(raw) :
              /\ Parts(raw)[i] \notin {"", "."}
              /\ Parts(raw)[i] = "/" \/ \E k \in DOMAIN raw : Parts(raw)[i] = raw[k]
         /\ IF Len(raw) > 1 /\ raw[1] = ""
            THEN Parts(raw) = <<"/">> \o Names(raw) /\ Parts(raw)[1] = "/"
            ELSE Parts(raw) = Names(raw)
<1>1. PICK names \in Seq(Texts) : names = Names(raw)
  BY NamesAre
<1>2. \A n \in DOMAIN names : names[n] \notin {"", "."} /\ \E k \in DOMAIN raw : names[n] = raw[k]
  BY <1>1, NamesAre
<1>3. CASE Len(raw) > 1 /\ raw[1] = ""
  <2>1. PICK slash \in Seq(Texts) : slash = <<"/">>
    <3>1. "/" \in {"/", "models"}
      OBVIOUS
    <3> QED BY <3>1, Slash
  <2>2. Len(slash) = 1 /\ slash[1] = "/"
    BY <2>1
  <2>3. Parts(raw) = slash \o names
    BY <1>1, <1>3, <2>1 DEF Parts
  <2>4. /\ Parts(raw) \in Seq(Texts) /\ Len(Parts(raw)) = 1 + Len(names) /\ Len(names) \in Nat
        /\ \A i \in 1..(1 + Len(names)) :
             Parts(raw)[i] = IF i <= 1 THEN slash[i] ELSE names[i - 1]
    <3>1. /\ slash \o names \in Seq(Texts) /\ Len(slash \o names) = Len(slash) + Len(names)
          /\ \A i \in 1..(Len(slash) + Len(names)) :
               (slash \o names)[i] = IF i <= Len(slash) THEN slash[i] ELSE names[i - Len(slash)]
      BY ConcatProperties
    <3>2. Len(names) \in Nat
      BY LenProperties
    <3> QED BY <2>2, <2>3, <3>1, <3>2
  <2>5. ASSUME NEW i \in DOMAIN Parts(raw)
        PROVE  Parts(raw)[i] = "/" \/ \E n \in DOMAIN names : Parts(raw)[i] = names[n]
    <3>1. i \in 1..(1 + Len(names))
      BY <2>4, <2>5, LenProperties
    <3>2. CASE i = 1
      BY <2>2, <2>4, <3>1, <3>2
    <3>3. CASE i # 1
      <4>1. i - 1 \in 1..Len(names)
        BY <2>4, <3>1, <3>3
      <4>2. Parts(raw)[i] = names[i - 1]
        BY <2>4, <3>1, <3>3
      <4> QED BY <4>1, <4>2, LenProperties
    <3> QED BY <3>2, <3>3
  <2>6. Parts(raw)[1] = "/"
    BY <2>2, <2>4
  <2>7. ASSUME NEW i \in DOMAIN Parts(raw)
        PROVE  /\ Parts(raw)[i] \notin {"", "."}
               /\ Parts(raw)[i] = "/" \/ \E k \in DOMAIN raw : Parts(raw)[i] = raw[k]
    BY <1>2, <2>5
  <2> QED BY <1>1, <1>3, <2>1, <2>3, <2>4, <2>6, <2>7
<1>4. CASE ~(Len(raw) > 1 /\ raw[1] = "")
  <2>1. Parts(raw) = <<>> \o names
    BY <1>1, <1>4 DEF Parts
  <2>2. Parts(raw) = names
    BY <2>1, ConcatEmptySeq
  <2> QED BY <1>1, <1>2, <1>4, <2>2
<1> QED BY <1>3, <1>4

\* An absolute path has no parts, or begins with a slash of its own.
LEMMA AbsoluteParts ==
  ASSUME NEW raw \in Seq(Texts), Absolute(raw)
  PROVE  Parts(raw) = <<>> \/ (Parts(raw)[1] = "/" /\ (Len(Parts(raw)) = 1 => Parts(raw) = <<"/">>))
<1>1. CASE Len(raw) > 1
  <2>1. raw # <<>> /\ raw # <<"">>
    <3>1. ASSUME raw = <<>>  PROVE FALSE
      BY <1>1, <3>1
    <3>2. Len(raw) # 1
      <4>1. PICK n \in Nat : n = Len(raw)
        BY LenProperties
      <4>2. n > 1 => n # 1
        OBVIOUS
      <4> QED BY <1>1, <4>1, <4>2
    <3>3. raw # <<"">>
      BY <3>2, Single, Zenon
    <3> QED BY <3>1, <3>3
  <2>2. raw[1] = ""
    BY <2>1 DEF Absolute
  <2>3. Parts(raw) \in Seq(Texts) /\ Parts(raw)[1] = "/"
    BY <1>1, <2>2, PartsAre
  <2>4. ASSUME Len(Parts(raw)) = 1  PROVE Parts(raw) = <<"/">>
    BY <2>3, <2>4
  <2> QED BY <2>3, <2>4
<1>2. CASE ~(Len(raw) > 1)
  <2>1. \A i \in DOMAIN raw : raw[i] \in {"", "."}
    <3>1. CASE raw = <<>>
      <4>1. DOMAIN raw = {}
        BY <3>1
      <4> QED BY <4>1
    <3>2. CASE raw = <<"">>
      BY <3>2, Single
    <3>3. CASE raw # <<>> /\ raw[1] = ""
      <4>1. DOMAIN raw = 1..1
        <5>1. Len(raw) \in Nat \ {0} /\ DOMAIN raw = 1..Len(raw)
          BY <3>3, EmptySeq, LenProperties
        <5> QED BY <1>2, <5>1
      <4> QED BY <3>3, <4>1, Ranges
    <3> QED BY <3>1, <3>2, <3>3 DEF Absolute
  <2>2. Names(raw) = <<>>
    BY <2>1, NoNames
  <2> QED BY <1>2, <2>2, PartsAre
<1> QED BY <1>1, <1>2

\* No model root is the root of the inputs, nor what a slash or a climb is.
LEMMA RootsApart == ModelRoots \cap InputRoots = {} /\ {"", ".", "..", "/"} \cap ModelRoots = {}
  BY PathsAssumption DEF PathsAssumption

\* What begins with a name is not absolute, and its parts climb only where it does.
LEMMA NamedParts ==
  ASSUME NEW raw \in Seq(Texts), raw # <<>>, raw[1] # ""
  PROVE  ~Absolute(raw) /\ Parts(raw) = Names(raw)
<1>1. raw # <<"">>
  <2>1. ASSUME raw = <<"">>  PROVE raw[1] = ""
    BY <2>1
  <2> QED BY <2>1
<1> QED BY <1>1, PartsAre DEF Absolute

\* What is left of a path without the prefix is a path.
LEMMA StrippedIs ==
  ASSUME NEW raw \in Seq(Texts), ~Absolute(raw)  PROVE raw # <<>> /\ Stripped(raw) \in Seq(Texts)
<1>1. raw # <<>>
  BY DEF Absolute
<1>2. Tail(raw) \in Seq(Texts)
  BY <1>1, HeadTailProperties
<1> QED BY <1>1, <1>2 DEF Stripped

\* The verdicts, one by one.
LEMMA Verdicts ==
  ASSUME NEW raw
  PROVE  LET v == ValidateUploadPath(raw)
             parts == Parts(Stripped(raw)) IN
         \/ v.kind = "refused"
         \/ /\ ~Absolute(raw) /\ parts # <<>> /\ ~Climbs(parts)
            /\ \/ v.kind = "input" /\ v.norm = Stripped(raw) /\ Len(parts) = 1
               \/ v.kind = "model" /\ v.norm = Stripped(raw) /\ Len(parts) > 1
                  /\ parts[1] \in ModelRoots
               \/ v.kind = "input" /\ v.norm = Tail(parts) /\ Len(parts) > 1
                  /\ parts[1] \in InputRoots
<1> DEFINE v == ValidateUploadPath(raw)
           parts == Parts(Stripped(raw))
<1>1. CASE Absolute(raw) \/ parts = <<>> \/ Climbs(parts)
  <2>1. v = Refused
    BY <1>1 DEF ValidateUploadPath
  <2> QED BY <2>1 DEF Refused, Verdict
<1>2. CASE ~(Absolute(raw) \/ parts = <<>> \/ Climbs(parts))
  <2>1. CASE Len(parts) = 1
    <3>1. v = Verdict("input", Stripped(raw))
      BY <1>2, <2>1 DEF ValidateUploadPath
    <3> QED BY <1>2, <2>1, <3>1 DEF Verdict
  <2>2. CASE Len(parts) # 1 /\ Len(parts) > 1 /\ parts[1] \in ModelRoots
    <3>1. v = Verdict("model", Stripped(raw))
      BY <1>2, <2>2, RootsApart DEF ValidateUploadPath
    <3> QED BY <1>2, <2>2, <3>1 DEF Verdict
  <2>3. CASE Len(parts) # 1 /\ Len(parts) > 1 /\ parts[1] \in InputRoots
    <3>1. v = Verdict("input", Tail(parts))
      BY <1>2, <2>3, RootsApart DEF ValidateUploadPath
    <3> QED BY <1>2, <2>3, <3>1 DEF Verdict
  <2>4. CASE Len(parts) # 1 /\ ~(Len(parts) > 1 /\ parts[1] \in ModelRoots \cup InputRoots)
    <3>1. v = Refused
      BY <1>2, <2>4 DEF ValidateUploadPath
    <3> QED BY <3>1 DEF Refused, Verdict
  <2> QED BY <2>1, <2>2, <2>3, <2>4
<1> QED BY <1>1, <1>2

\* Of a path the two classifiers agree.
LEMMA PathAgrees ==
  ASSUME NEW raw \in Seq(Texts)
  PROVE  LET v == ValidateUploadPath(raw) IN
         /\ v.kind = "model" => WellShaped(v.norm) /\ Parts(v.norm)[1] \in ModelRoots
         /\ v.kind = "input" => /\ ~Climbs(Parts(v.norm))
                                /\ Absolute(v.norm) => Parts(v.norm) = <<"/">>
<1> DEFINE v == ValidateUploadPath(raw)
           rest == Stripped(raw)
           parts == Parts(rest)
<1>1. SUFFICES ASSUME v.kind # "refused"
               PROVE  /\ v.kind = "model" => WellShaped(v.norm) /\ Parts(v.norm)[1] \in ModelRoots
                      /\ v.kind = "input" => /\ ~Climbs(Parts(v.norm))
                                             /\ Absolute(v.norm) => Parts(v.norm) = <<"/">>
  <2>1. "refused" # "model" /\ "refused" # "input"
    OBVIOUS
  <2> QED BY <2>1
<1>2. /\ ~Absolute(raw) /\ parts # <<>> /\ ~Climbs(parts)
      /\ \/ v.kind = "input" /\ v.norm = rest /\ Len(parts) = 1
         \/ v.kind = "model" /\ v.norm = rest /\ Len(parts) > 1 /\ parts[1] \in ModelRoots
         \/ v.kind = "input" /\ v.norm = Tail(parts) /\ Len(parts) > 1 /\ parts[1] \in InputRoots
  BY <1>1, Verdicts
<1>3. rest \in Seq(Texts) /\ parts \in Seq(Texts)
  BY <1>2, StrippedIs, PartsAre
<1>4. Absolute(rest) => parts[1] = "/" /\ (Len(parts) = 1 => parts = <<"/">>)
  BY <1>2, <1>3, AbsoluteParts
<1>5. CASE v.kind = "input" /\ v.norm = rest /\ Len(parts) = 1
  BY <1>2, <1>4, <1>5
<1>6. CASE v.kind = "model" /\ v.norm = rest /\ Len(parts) > 1 /\ parts[1] \in ModelRoots
  <2>1. ~Absolute(rest)
    BY <1>4, <1>6, RootsApart
  <2> QED BY <1>2, <1>6, <2>1 DEF WellShaped
<1>7. CASE v.kind = "input" /\ v.norm = Tail(parts) /\ Len(parts) > 1 /\ parts[1] \in InputRoots
  <2>1. PICK names \in Seq(Texts) : names = Tail(parts)
    BY <1>2, <1>3, HeadTailProperties
  <2>2. /\ Len(names) = Len(parts) - 1 /\ Len(parts) \in Nat /\ names # <<>>
        /\ DOMAIN parts = 1..Len(parts) /\ DOMAIN names = 1..Len(names)
        /\ \A i \in 1..Len(names) : names[i] = parts[i + 1]
    <3>1. /\ Len(Tail(parts)) = Len(parts) - 1
          /\ \A i \in 1..Len(Tail(parts)) : Tail(parts)[i] = parts[i + 1]
      BY <1>2, <1>3, HeadTailProperties
    <3>2. Len(parts) \in Nat /\ DOMAIN parts = 1..Len(parts) /\ DOMAIN names = 1..Len(names)
      BY <1>3, LenProperties
    <3>3. ASSUME names = <<>>  PROVE FALSE
      <4>1. Len(names) = 0
        BY <3>3
      <4> QED BY <1>7, <2>1, <3>1, <3>2, <4>1
    <3> HIDE DEF parts
    <3> QED BY <2>1, <3>1, <3>2, <3>3
  <2>3. ASSUME NEW i \in DOMAIN names  PROVE names[i] \notin {"", ".."}
    <3>1. i + 1 \in DOMAIN parts /\ names[i] = parts[i + 1]
      BY <2>2
    <3> QED BY <1>2, <1>3, <3>1, PartsAre DEF Climbs
  <2>4. 1 \in DOMAIN names
    BY <1>7, <2>2
  <2>5. ~Absolute(names) /\ Parts(names) = Names(names)
    BY <2>2, <2>3, <2>4, NamedParts
  <2>6. ASSUME NEW i \in DOMAIN Parts(names)  PROVE Parts(names)[i] # ".."
    <3>1. \E k \in DOMAIN names : Names(names)[i] = names[k]
      BY <2>5, NamesAre
    <3> QED BY <2>3, <2>5, <3>1
  <2> QED BY <1>7, <2>1, <2>5, <2>6 DEF Climbs
<1> QED BY <1>2, <1>5, <1>6, <1>7

\* The prefix changes nothing where it is not there already.
LEMMA PrefixIsNothing ==
  ASSUME NEW raw \in Seq(Texts), ~Absolute(raw), raw[1] # "models"
  PROVE  ValidateUploadPath(<<"models">> \o raw) = ValidateUploadPath(raw)
<1>1. PICK prefix \in Seq(Texts) : prefix = <<"models">>
  <2>1. "models" \in {"/", "models"}
    OBVIOUS
  <2> QED BY <2>1, Slash
<1>2. PICK long \in Seq(Texts) : long = prefix \o raw
  BY ConcatProperties
<1>3. raw # <<>> /\ Len(raw) \in Nat \ {0}
  BY EmptySeq DEF Absolute
<1>4. Len(prefix) = 1 /\ prefix[1] = "models"
  BY <1>1
<1>5. Len(long) = 1 + Len(raw) /\ long[1] = "models" /\ Tail(long) = raw
  <2>1. /\ Len(long) = Len(prefix) + Len(raw)
        /\ \A i \in 1..(Len(prefix) + Len(raw)) :
             long[i] = IF i <= Len(prefix) THEN prefix[i] ELSE raw[i - Len(prefix)]
    BY <1>2, ConcatProperties
  <2>2. Len(long) = 1 + Len(raw) /\ long[1] = "models" /\ long # <<>>
    BY <1>3, <1>4, <2>1, EmptySeq
  <2>3. /\ Tail(long) \in Seq(Texts) /\ Len(Tail(long)) = Len(raw)
        /\ \A i \in 1..Len(raw) : Tail(long)[i] = long[i + 1]
    BY <1>3, <2>2, HeadTailProperties
  <2>4. ASSUME NEW i \in 1..Len(raw)  PROVE Tail(long)[i] = raw[i]
    BY <1>3, <1>4, <2>1, <2>3
  <2> QED BY <2>2, <2>3, <2>4, SeqEqual
<1>6. Stripped(long) = raw /\ Stripped(raw) = raw
  BY <1>3, <1>5 DEF Stripped
<1>7. ~Absolute(long)
  <2>1. long # <<>> /\ long[1] # ""
    BY <1>3, <1>5, EmptySeq
  <2> QED BY <2>1, NamedParts
<1> QED BY <1>1, <1>2, <1>6, <1>7 DEF ValidateUploadPath

LEMMA PathStays == path \in RawPaths \cup {None} /\ [Next]_vars => (path \in RawPaths \cup {None})'
  BY DEF Next, vars, Start, RunForeground, Arrive, CorsMiddleware,
     OriginOnlyMiddleware, BearerAuthMiddleware, Handler, Respond, Stop, Pass

\* Whatever an upload names: what one classifier calls a model the other accepts, and
\* no accepted path climbs or is absolute (security.py:70-140, 143-238).
THEOREM PathsAgreed == Spec => []PathsAgree
<1>1. Init => path \in RawPaths \cup {None}
  BY DEF Init
<1>2. path \in RawPaths \cup {None} => PathsAgree
  <2> SUFFICES ASSUME path \in RawPaths, path # None
               PROVE  LET v == ValidateUploadPath(path) IN
                      /\ v.kind = "model" => WellShaped(v.norm) /\ Parts(v.norm)[1] \in ModelRoots
                      /\ v.kind = "input" => /\ ~Climbs(Parts(v.norm))
                                             /\ Absolute(v.norm) => Parts(v.norm) = <<"/">>
                      /\ (~Absolute(path) /\ path[1] # "models") =>
                           ValidateUploadPath(<<"models">> \o path) = v
    BY DEF PathsAgree
  <2>1. PICK raw \in Seq(Texts) : raw = path
    <3>1. path \in Seq(STRING)
      BY GateAssumption DEF GateAssumption
    <3> QED BY <3>1, SeqMonotonic DEF Texts
  <2> QED BY <2>1, PathAgrees, PrefixIsNothing
<1> QED BY <1>1, <1>2, PathStays, PTL DEF Spec
=============================================================================
