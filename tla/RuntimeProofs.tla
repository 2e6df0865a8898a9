--------------------------- MODULE RuntimeProofs ---------------------------
(***************************************************************************)
(* Theorems about Runtime, for any environments, any number of requests and *)
(* of database calls.                                                       *)
(***************************************************************************)
EXTENDS Runtime, WellFoundedInduction, SequenceTheorems, TLAPS

(* The pool and the drainer follow the stage of main.                       *)
Stages ==
  /\ main \in {"config", "tracing", "pool"} => pool = "none" /\ drain = "none"
  /\ main \in {"schema", "validator"} => pool = "open" /\ drain = "none"
  /\ main \in {"listen", "serving", "close_pool"} => pool = "open" /\ drain # "none"
  /\ main = "wait_pool" => pool = "closing"
  /\ main \in {"close_tracing", "exit0"} => pool = "closed"
  /\ main = "exit1" /\ drain = "none" => pool # "open"

(* So do the handlers: none runs before Serve or after the end, and none is  *)
(* in a call once pool.Close has waited for it.                             *)
Handlers ==
  \A q \in Requests :
    /\ main \notin {"serving", "close_pool", "wait_pool", "close_tracing", "exit0", "exit1"} =>
         request[q] = "new"
    /\ main \in Ended => q \notin Active
    /\ main = "close_tracing" => request[q] # "call"
    /\ main # "exit1" => request[q] # "cut_in_call"

InOrder == main \in Stage /\ Stages /\ Handlers

(* Init is in order.                                                        *)
LEMMA InitOrder == Init => InOrder
  BY DEF InOrder, Init, Stages, Handlers, Stage, Active, Ended

(* Every step keeps the order.                                              *)
LEMMA NextOrder == InOrder /\ [Next]_vars => InOrder'
  <1> SUFFICES ASSUME main \in Stage, Stages, Handlers, [Next]_vars
               PROVE  main' \in Stage /\ Stages' /\ Handlers'
    BY DEF InOrder
  <1> USE DEF Ended, Stage
  <1>1. CASE UNCHANGED vars
    BY <1>1 DEF vars, Stages, Handlers, Active
  <1>2. CASE BootStep
    BY <1>2 DEF BootStep, LoadConfig, SetupTracing, NewPool, EnsureCompatible, NewValidator, Listen, boot, Stages, Handlers, Active
  <1>3. CASE CloseStep
    BY <1>3 DEF CloseStep, ServeReturns, ClosePool, PoolDrained, CloseTracing, CutOff, boot, Stages, Handlers, Active, InCall
  <1>4. CASE Signal \/ Shutdown \/ ShutdownReturns
    BY <1>4 DEF Signal, Shutdown, ShutdownReturns, Stages, Handlers, Active
  <1>5. CASE ServeFails
    BY <1>5 DEF ServeFails, CutOff, Stages, Handlers, Active, InCall
  <1>6. ASSUME NEW q \in Requests, Accept(q) \/ Handle(q)
        PROVE  main' \in Stage /\ Stages' /\ Handlers'
    <2>1. main' = main /\ pool' = pool /\ drain' = drain
      BY <1>6 DEF Accept, Handle, BeginCall, EndCall, Respond, server
    <2>2. Stages'
      BY <2>1 DEF Stages
    <2>3. /\ main \in {"serving", "close_pool", "wait_pool", "close_tracing"}
          /\ main = "close_tracing" => pool = "closed" /\ request[q] # "call"
      BY <1>6 DEF Accept, Handle, BeginCall, EndCall, Respond, Handlers, Stages, Active
    <2>4. PICK to \in {"running", "call", "failing", "ok", "failed"} :
            /\ request' = [request EXCEPT ![q] = to]
            /\ to = "call" => pool = "open"
      BY <1>6 DEF Accept, Handle, BeginCall, EndCall, Respond
    <2>5. Handlers'
      BY <2>1, <2>3, <2>4 DEF Handlers, Active
    <2> QED BY <2>1, <2>2, <2>5
  <1> QED BY <1>1, <1>2, <1>3, <1>4, <1>5, <1>6 DEF Next, Exited

(* No orderly exit cuts a call, and no failed boot leaves the pool open.     *)
THEOREM PoolIsClosedInOrder == Spec => []PoolClosedInOrder
  <1>1. InOrder => PoolClosedInOrder
    BY DEF InOrder, Stages, Handlers, PoolClosedInOrder, NoCallCut, FailedBootClosesPool
  <1> QED BY <1>1, InitOrder, NextOrder, PTL DEF Spec

----------------------------------------------------------------------------
(* int32 of a natural number is at most that number: the number itself below  *)
(* 2^31, and not positive from there to 2^32.                                 *)
LEMMA Int32Bounded ==
  ASSUME NEW n \in Int, n >= 0
  PROVE  /\ Int32(n) \in -Half .. Half - 1 /\ Int32(n) <= n
         /\ n < Half => Int32(n) = n
         /\ Half <= n /\ n <= 2 * Half => Int32(n) <= 0
  <1> DEFINE a == n + Half
             b == 2 * Half
             r == a % b
             q == a \div b
  <1>1. b \in Nat /\ b > 0 /\ a \in Nat /\ Half \in Nat
    BY HalfAssumption
  <1>2. r \in 0 .. b - 1 /\ r <= a
    BY <1>1
  <1>3. a < b => r = a
    BY <1>1
  <1>4. b <= a /\ a < 2 * b => r = a - b
    <2> SUFFICES ASSUME b <= a, a < 2 * b PROVE r = a - b
      OBVIOUS
    <2>1. q \in Nat /\ a = b * q + r
      BY <1>1
    <2> HIDE DEF a, b, q, r
    <2>2. q = 1
      <3>1. CASE q = 0
        BY <1>1, <1>2, <2>1, <3>1
      <3>2. CASE q >= 2
        <4>1. b * q >= b * 2
          BY <1>1, <2>1, <3>2
        <4> QED BY <1>1, <1>2, <2>1, <4>1
      <3> QED BY <2>1, <3>1, <3>2
    <2> QED BY <1>1, <1>2, <2>1, <2>2
  <1>5. Int32(n) = r - Half
    BY DEF Int32
  <1> HIDE DEF q, r
  <1> QED BY <1>1, <1>2, <1>3, <1>4, <1>5

(* The numbers an environment that loads gives are within their bounds.      *)
LEMMA LoadedBounds ==
  ASSUME NEW e \in Environments, Loads(e)
  PROVE  LET c == Loaded(e) IN
         /\ c.num["DATABASE_MAX_OPEN_CONNS"] \in Int
         /\ c.num["DATABASE_MAX_OPEN_CONNS"] >= 1
         /\ c.num["DATABASE_MIN_IDLE_CONNS"] \in 0 .. c.num["DATABASE_MAX_OPEN_CONNS"]
         /\ \A v \in NumVars \ {"DATABASE_MIN_IDLE_CONNS"} : c.num[v] > 0
  <1> DEFINE c == Loaded(e)
  <1>1. NumVars = Timeouts \union {"DATABASE_MAX_OPEN_CONNS", "DATABASE_MIN_IDLE_CONNS",
          "DATABASE_MAX_CONN_LIFETIME", "DATABASE_MAX_CONN_IDLE_TIME", "WORKER_POLL_INTERVAL",
          "WORKER_BATCH_SIZE", "JOB_LEASE_DURATION", "JOB_MAX_ATTEMPTS"}
    BY DEF NumVars, Defaults, Timeouts
  <1>2. \A v \in NumVars : c.num[v] = Get(e, v)
    BY DEF Loaded
  <1>3. \A v \in NumVars : Get(e, v) \in Int
    <2>1. \A v \in NumVars : Defaults[v] \in Int
      BY DEF NumVars, Defaults
    <2> QED BY <2>1, EnvironmentsAssumption DEF Get
  <1>4. DatabaseLoads(e) /\ Validates(c)
    BY DEF Loads
  <1> HIDE DEF c
  <1>5. /\ c.num["DATABASE_MAX_OPEN_CONNS"] \in Int
        /\ c.num["DATABASE_MAX_OPEN_CONNS"] >= 1
        /\ c.num["DATABASE_MIN_IDLE_CONNS"] \in 0 .. c.num["DATABASE_MAX_OPEN_CONNS"]
    BY <1>1, <1>2, <1>3, <1>4 DEF DatabaseLoads
  <1>6. \A v \in NumVars \ {"DATABASE_MIN_IDLE_CONNS"} : c.num[v] > 0
    BY <1>1, <1>2, <1>3, <1>4 DEF DatabaseLoads, Validates
  <1> QED BY <1>5, <1>6 DEF c

(* The mode it gives has what it needs, in production TLS to the database too.*)
LEMMA LoadedMode ==
  ASSUME NEW e \in Environments, Loads(e)
  PROVE  LET c == Loaded(e) IN
         /\ c.mode = "oidc" => c.issuer = c.oidcIssuer /\ c.oidcIssuer # ""
         /\ c.appEnv = "production" =>
              c.mode = "oidc" /\ SSLMode(c.url) \notin {"", "disable", "DISABLE"}
         /\ c.mode = "hmac" => c.secret = "long"
  <1> DEFINE c == Loaded(e)
  <1>1. AuthLoads(e) /\ Validates(c)
    BY DEF Loads
  <1>2. /\ c.mode = Mode(e) /\ c.issuer = Issuer(e) /\ c.oidcIssuer = OIDCIssuerURL(e)
        /\ c.secret = e.text["AUTH_HMAC_SECRET"]
    BY DEF Loaded
  <1>3. e.text["AUTH_HMAC_SECRET"] \in {"", "short", "replace-me", "long"}
    BY EnvironmentsAssumption DEF TextVars, Words
  <1> HIDE DEF c
  <1>4. /\ c.mode = "oidc" => c.issuer = c.oidcIssuer /\ c.oidcIssuer # ""
        /\ c.mode = "hmac" => c.secret = "long"
        /\ c.mode \in {"hmac", "oidc"}
    BY <1>1, <1>2, <1>3 DEF AuthLoads
  <1>5. c.appEnv = "production" =>
          c.mode = "oidc" /\ SSLMode(c.url) \notin {"", "disable", "DISABLE"}
    BY <1>1, <1>4 DEF Validates, validateProductionDatabaseURL
  <1> QED BY <1>4, <1>5 DEF c

(* From config.Load on the process has what its environment says, and an     *)
(* open pool has the converted size and minimum.                             *)
Configured ==
  /\ env \in Environments
  /\ cfg \in {NoCfg, Loaded(env)}
  /\ main \notin {"config", "exit1"} \/ pool = "open" => cfg = Loaded(env) /\ Loads(env)
  /\ pool = "open" => /\ size = Int32(cfg.num["DATABASE_MAX_OPEN_CONNS"]) /\ size >= 1
                      /\ minIdle = Int32(cfg.num["DATABASE_MIN_IDLE_CONNS"])
  /\ \A q \in Requests : request[q] = "call" => done[q] < Calls

(* It holds at first.                                                        *)
LEMMA InitConfigured == Init => TypeOK /\ Configured
  <1> SUFFICES ASSUME Init PROVE TypeOK /\ Configured
    OBVIOUS
  <1>1. /\ request \in [Requests -> RequestPC] /\ done \in [Requests -> 0..Calls]
        /\ size \in 0 .. Half - 1 /\ minIdle \in -Half .. Half - 1 /\ main \in Stage
    BY HalfAssumption, RuntimeAssumption DEF Init, RequestPC, Stage
  <1>2. TypeOK
    BY <1>1 DEF Init, TypeOK
  <1>3. Configured
    BY <1>1 DEF Init, Configured
  <1> QED BY <1>2, <1>3

(* It holds from then on.                                                    *)
LEMMA NextConfigured == InOrder /\ TypeOK /\ Configured /\ [Next]_vars => TypeOK' /\ Configured'
  <1> SUFFICES ASSUME InOrder, TypeOK, Configured, [Next]_vars PROVE TypeOK' /\ Configured'
    OBVIOUS
  <1> HIDE DEF Stage, RequestPC, Ended
  <1>1. CASE UNCHANGED vars
    BY <1>1 DEF vars, config, given, TypeOK, Configured
  <1>2. CASE LoadConfig
    BY <1>2 DEF LoadConfig, boot, given, InOrder, Stages, TypeOK, Configured, Stage
  <1>3. CASE NewPool
    BY <1>3, LoadedBounds, Int32Bounded DEF NewPool, boot, given, TypeOK, Configured, Stage
  <1>4. CASE SetupTracing \/ EnsureCompatible \/ NewValidator \/ Listen
    BY <1>4 DEF SetupTracing, EnsureCompatible, NewValidator, Listen, boot, config, given,
                TypeOK, Configured, Stage, InOrder, Stages
  <1>5. CASE CloseStep \/ ServeFails
    <2>1. /\ request' \in [Requests -> RequestPC] /\ done' = done
          /\ \A q \in Requests : request'[q] = "call" => request[q] = "call"
      BY <1>5 DEF CloseStep, ServeReturns, ClosePool, PoolDrained, CloseTracing, ServeFails, CutOff,
                  boot, TypeOK, RequestPC
    <2> QED
      BY <1>5, <2>1 DEF CloseStep, ServeReturns, ClosePool, PoolDrained, CloseTracing, ServeFails,
                  boot, config, given, TypeOK, Configured, Stage, InOrder, Stages
  <1>6. CASE Signal \/ Shutdown \/ ShutdownReturns
    BY <1>6, ZenonT(30) DEF Signal, Shutdown, ShutdownReturns, config, given, TypeOK, Configured
  <1>7. ASSUME NEW q \in Requests, Accept(q) \/ Handle(q) PROVE TypeOK' /\ Configured'
    <2>1. UNCHANGED server
      BY <1>7 DEF Accept, Handle, BeginCall, EndCall, Respond
    <2>2. /\ request' \in [Requests -> RequestPC] /\ done' \in [Requests -> 0..Calls]
          /\ \A p \in Requests : request'[p] = "call" => done'[p] < Calls
      <3>1. CASE Accept(q) \/ BeginCall(q) \/ Respond(q)
        BY <3>1 DEF Accept, BeginCall, Respond, TypeOK, RequestPC, Configured
      <3>2. CASE EndCall(q)
        BY <3>2, RuntimeAssumption DEF EndCall, TypeOK, RequestPC, Configured
      <3> QED BY <1>7, <3>1, <3>2 DEF Handle
    <2> QED BY <2>1, <2>2 DEF server, config, given, TypeOK, Configured
  <1> QED BY <1>1, <1>2, <1>3, <1>4, <1>5, <1>6, <1>7 DEF Next, BootStep, Exited

(* Whatever the environment says, a running process has positive bounds, a   *)
(* pool no larger than configured and, up to 2^32 connections, just as        *)
(* configured after the conversions to int32, and one issuer.                 *)
THEOREM ProcessRunsAsConfigured == Spec => []RunsAsConfigured
  <1>1. InOrder /\ TypeOK /\ Configured => RunsWithinBounds
    <2> DEFINE max == cfg.num["DATABASE_MAX_OPEN_CONNS"]
               min == cfg.num["DATABASE_MIN_IDLE_CONNS"]
    <2> SUFFICES ASSUME InOrder, TypeOK, Configured, pool = "open"
                 PROVE  /\ size \in 1 .. max /\ minIdle <= min
                        /\ max <= 2 * Half =>
                             size = max /\ minIdle = min /\ minIdle \in 0 .. size
                        /\ \A v \in NumVars \ {"DATABASE_MIN_IDLE_CONNS"} : cfg.num[v] > 0
      BY DEF RunsWithinBounds
    <2>1. env \in Environments /\ cfg = Loaded(env) /\ Loads(env)
      BY DEF Configured
    <2>2. /\ max \in Int /\ max >= 1 /\ min \in 0 .. max
          /\ \A v \in NumVars \ {"DATABASE_MIN_IDLE_CONNS"} : cfg.num[v] > 0
      BY <2>1, LoadedBounds
    <2>3. size = Int32(max) /\ size >= 1 /\ minIdle = Int32(min)
      BY DEF Configured
    <2> HIDE DEF max, min
    <2>4. size \in 1 .. max /\ minIdle \in Int /\ minIdle <= min
      BY <2>2, <2>3, Int32Bounded, HalfAssumption
    <2>5. ASSUME max <= 2 * Half PROVE size = max /\ minIdle = min /\ minIdle \in 0 .. size
      <3>1. max < Half
        BY <2>2, <2>3, <2>5, Int32Bounded, HalfAssumption
      <3> QED BY <2>2, <2>3, <3>1, Int32Bounded, HalfAssumption
    <2> QED BY <2>2, <2>4, <2>5
  <1>2. InOrder /\ Configured => ModeIsConsistent
    BY LoadedMode DEF Configured, ModeIsConsistent
  <1>3. InOrder /\ TypeOK /\ Configured => RunsAsConfigured
    BY <1>1, <1>2 DEF RunsAsConfigured
  <1> QED BY <1>3, InitOrder, NextOrder, InitConfigured, NextConfigured, PTL DEF Spec

----------------------------------------------------------------------------
(* A nonempty set of positions has a least one.                              *)
LEMMA LeastPosition ==
  ASSUME NEW n \in Nat, NEW I \in SUBSET (1 .. n), I # {}
  PROVE  Min(I) \in I /\ \A i \in I : Min(I) <= i
  <1> DEFINE R == OpToRel(<, Nat)
  <1>1. IsWellFoundedOn(R, Nat)
    BY NatLessThanWellFounded
  <1>2. \A x, y \in Nat : y < x => <<y, x>> \in R
    BY DEF OpToRel
  <1>3. I \subseteq Nat
    OBVIOUS
  <1> HIDE DEF R
  <1>4. \E x \in I : \A y \in I : ~(<<y, x>> \in R)
    BY <1>1, <1>3, WFMin
  <1>5. PICK x \in I : \A y \in I : ~(<<y, x>> \in R)
    BY <1>4
  <1>6. ASSUME NEW y \in I PROVE x <= y
    <2>1. ~(y < x)
      BY <1>2, <1>3, <1>5
    <2> QED BY <1>3, <2>1
  <1> QED BY <1>6 DEF Min

(* It has a greatest one.                                                    *)
LEMMA GreatestPosition ==
  ASSUME NEW n \in Nat, NEW I \in SUBSET (1 .. n), I # {}
  PROVE  Max(I) \in I /\ \A i \in I : Max(I) >= i
  <1> DEFINE J == {n + 1 - i : i \in I}
  <1>1. J \in SUBSET (1 .. n) /\ J # {}
    <2>1. ASSUME NEW i \in I PROVE n + 1 - i \in 1 .. n
      <3>1. i \in Int /\ 1 <= i /\ i <= n
        OBVIOUS
      <3> QED BY <3>1
    <2>2. PICK i \in I : TRUE
      OBVIOUS
    <2>3. n + 1 - i \in J
      BY <2>2
    <2> QED BY <2>1, <2>3
  <1>2. Min(J) \in J /\ \A j \in J : Min(J) <= j
    BY <1>1, LeastPosition
  <1>3. PICK x \in I : Min(J) = n + 1 - x
    BY <1>2
  <1>4. ASSUME NEW y \in I PROVE x >= y
    <2>1. n + 1 - y \in J
      OBVIOUS
    <2>2. Min(J) <= n + 1 - y
      BY <1>2, <2>1
    <2> QED BY <1>3, <2>2
  <1> QED BY <1>4 DEF Max

(* What neither of two sequences has, their concatenation has not.           *)
LEMMA ConcatAvoids ==
  ASSUME NEW S, NEW s \in Seq(S), NEW t \in Seq(S), NEW x,
         x \notin ToSet(s), x \notin ToSet(t)
  PROVE  s \o t \in Seq(S) /\ x \notin ToSet(s \o t)
  <1>1. s \o t \in Seq(S) /\ DOMAIN (s \o t) = 1 .. Len(s) + Len(t)
    OBVIOUS
  <1>2. ASSUME NEW i \in 1 .. Len(s) + Len(t) PROVE (s \o t)[i] # x
    <2>1. CASE i <= Len(s)
      <3>1. (s \o t)[i] = s[i] /\ i \in DOMAIN s
        BY <1>2, <2>1
      <3> QED BY <3>1 DEF ToSet
    <2>2. CASE i > Len(s)
      <3>1. (s \o t)[i] = t[i - Len(s)] /\ i - Len(s) \in DOMAIN t
        BY <1>2, <2>2
      <3> QED BY <3>1 DEF ToSet
    <2> QED BY <1>2, <2>1, <2>2
  <1> QED BY <1>1, <1>2 DEF ToSet

(* What a stretch of a sequence has not, its subsequence has not.            *)
LEMMA SubSeqAvoids ==
  ASSUME NEW S, NEW s \in Seq(S), NEW m \in 1 .. Len(s), NEW n \in 1 .. Len(s), NEW x,
         \A i \in m .. n : s[i] # x
  PROVE  SubSeq(s, m, n) \in Seq(S) /\ x \notin ToSet(SubSeq(s, m, n))
  <1>1. \A i \in m .. n : s[i] \in S
    OBVIOUS
  <1>2. /\ SubSeq(s, m, n) \in Seq(S)
        /\ Len(SubSeq(s, m, n)) = IF m <= n THEN n - m + 1 ELSE 0
        /\ \A i \in 1 .. n - m + 1 : SubSeq(s, m, n)[i] = s[m + i - 1]
    BY <1>1, SubSeqProperties
  <1>3. ASSUME NEW i \in DOMAIN SubSeq(s, m, n) PROVE SubSeq(s, m, n)[i] # x
    <2>1. i \in 1 .. n - m + 1
      BY <1>2, <1>3
    <2>2. SubSeq(s, m, n)[i] = s[m + i - 1] /\ m + i - 1 \in m .. n
      BY <1>2, <2>1
    <2> QED BY <2>2
  <1> QED BY <1>2, <1>3 DEF ToSet

(* redactURL leaves no password that stands in the userinfo.                 *)
LEMMA PasswordRedacted ==
  ASSUME NEW e \in Environments,
         \A i \in 1 .. Len(e.url) : e.url[i] = "password" => InUserinfo(e.url, i)
  PROVE  "password" \notin ToSet(redactURL(e.url))
  <1> DEFINE url == e.url
             S == STRING \union {"***"}
             ats == {i \in 1 .. Len(url) : url[i] = "@"}
             schemes == {i \in 1 .. Len(url) : url[i] = "://"}
             at == IF ats # {} THEN Max(ats) ELSE 0
             scheme == IF schemes # {} THEN Min(schemes) ELSE 0
             rest == SubSeq(url, 1, scheme) \o <<"***">> \o SubSeq(url, at, Len(url))
             out == CASE at = 0 -> url
                      [] at # 0 /\ scheme = 0 -> <<"***">>
                      [] OTHER -> rest
  <1>1. redactURL(e.url) = out
    BY DEF redactURL, SelectLastInSeq, SelectInSeq
  <1>2. url \in Seq(S) /\ Len(url) \in Nat
    BY EnvironmentsAssumption, SeqMonotonic
  <1>3. \A i \in 1 .. Len(url) : url[i] = "password" =>
          /\ \E j \in i + 1 .. Len(url) : url[j] = "@"
          /\ schemes # {} => \E j \in 1 .. i - 1 : url[j] = "://"
    BY DEF InUserinfo
  <1>4. ats # {} => at \in 1 .. Len(url) /\ \A j \in ats : j <= at
    BY <1>2, GreatestPosition
  <1>5. schemes # {} => scheme \in 1 .. Len(url) /\ \A j \in schemes : scheme <= j
    BY <1>2, LeastPosition
  <1> HIDE DEF url, at, scheme
  <1>6. CASE ats = {}
    <2>1. out = url /\ \A i \in 1 .. Len(url) : url[i] # "password"
      BY <1>2, <1>3, <1>6 DEF at
    <2> HIDE DEF out
    <2> QED BY <1>1, <1>2, <2>1 DEF ToSet
  <1>7. CASE ats # {} /\ schemes = {}
    <2>1. out = <<"***">>
      BY <1>4, <1>7 DEF scheme
    <2> HIDE DEF out
    <2> QED BY <1>1, <2>1 DEF ToSet
  <1>8. CASE ats # {} /\ schemes # {}
    <2>1. at \in 1 .. Len(url) /\ scheme \in 1 .. Len(url)
      BY <1>4, <1>5, <1>8
    <2>2. out = rest
      <3>1. at # 0 /\ scheme # 0
        BY <1>2, <2>1
      <3> HIDE DEF rest
      <3> QED BY <3>1
    <2>3. /\ \A i \in 1 .. scheme : url[i] # "password"
          /\ \A i \in at .. Len(url) : url[i] # "password"
      <3>1. ASSUME NEW i \in 1 .. Len(url), url[i] = "password"
            PROVE  scheme < i /\ i < at
        <4>1. PICK j \in i + 1 .. Len(url) : url[j] = "@"
          BY <1>3, <3>1
        <4>2. PICK k \in 1 .. i - 1 : url[k] = "://"
          BY <1>3, <1>8, <3>1
        <4>3. j \in ats /\ k \in schemes
          BY <1>2, <3>1, <4>1, <4>2
        <4>4. j <= at /\ scheme <= k
          BY <1>4, <1>5, <4>3
        <4> QED BY <1>2, <2>1, <4>4
      <3> QED BY <1>2, <2>1, <3>1
    <2>4. /\ SubSeq(url, 1, scheme) \in Seq(S)
          /\ "password" \notin ToSet(SubSeq(url, 1, scheme))
      BY <1>2, <2>1, <2>3, SubSeqAvoids
    <2>5. /\ SubSeq(url, at, Len(url)) \in Seq(S)
          /\ "password" \notin ToSet(SubSeq(url, at, Len(url)))
      BY <1>2, <2>1, <2>3, SubSeqAvoids
    <2>6. <<"***">> \in Seq(S) /\ "password" \notin ToSet(<<"***">>)
      <3>1. DOMAIN <<"***">> = {1} /\ <<"***">>[1] = "***"
        OBVIOUS
      <3>2. ToSet(<<"***">>) = {"***"}
        BY <3>1 DEF ToSet
      <3>3. <<"***">> \in Seq(S)
        OBVIOUS
      <3>4. "password" \notin {"***"}
        OBVIOUS
      <3> QED BY <3>2, <3>3, <3>4, Zenon
    <2>7. /\ SubSeq(url, 1, scheme) \o <<"***">> \in Seq(S)
          /\ "password" \notin ToSet(SubSeq(url, 1, scheme) \o <<"***">>)
      BY <2>4, <2>6, ConcatAvoids
    <2>8. "password" \notin ToSet(SubSeq(url, 1, scheme) \o <<"***">> \o SubSeq(url, at, Len(url)))
      BY <2>5, <2>7, ConcatAvoids
    <2> HIDE DEF out
    <2> QED BY <1>1, <2>2, <2>8 DEF rest
  <1> QED BY <1>6, <1>7, <1>8

(* What the log shows was redacted.                                          *)
LogRedacted == env \in Environments /\ log \in {NoLog, Redacted(Loaded(env))}

(* The log does not show the HMAC secret, nor a password given in the         *)
(* userinfo of the database URL, wherever an "@" or a "://" is part of it.    *)
(* Other ways to give the password are not redacted: TLC refutes              *)
(* SecretsNotLogged.                                                          *)
THEOREM LogHidesUserinfo == Spec => []UserinfoNotLogged
  <1>1. Init => LogRedacted
    BY DEF Init, LogRedacted
  <1>2. InOrder /\ Configured /\ LogRedacted /\ [Next]_vars => LogRedacted'
    <2> SUFFICES ASSUME InOrder, Configured, LogRedacted, [Next]_vars PROVE LogRedacted'
      OBVIOUS
    <2>1. env' = env
      BY DEF Next, vars, config, given, BootStep, LoadConfig, SetupTracing, NewPool,
         EnsureCompatible, NewValidator, Listen, boot, CloseStep, ServeReturns, ClosePool,
         PoolDrained, CloseTracing, Signal, Shutdown, ShutdownReturns, ServeFails, Accept,
         Handle, BeginCall, EndCall, Respond, server, Exited
    <2>2. CASE NewValidator
      <3>1. cfg = Loaded(env)
        BY <2>2 DEF NewValidator, Configured
      <3> QED BY <2>1, <2>2, <3>1 DEF NewValidator, LogRedacted
    <2>3. CASE ~NewValidator
      <3>1. log' = log
        BY <2>3 DEF Next, vars, config, given, BootStep, LoadConfig, SetupTracing, NewPool,
           EnsureCompatible, Listen, boot, CloseStep, ServeReturns, ClosePool,
           PoolDrained, CloseTracing, Signal, Shutdown, ShutdownReturns, ServeFails, Accept,
           Handle, BeginCall, EndCall, Respond, server, Exited
      <3> QED BY <2>1, <3>1 DEF LogRedacted
    <2> QED BY <2>2, <2>3
  <1>3. LogRedacted => UserinfoNotLogged
    <2> SUFFICES ASSUME LogRedacted PROVE UserinfoNotLogged
      OBVIOUS
    <2>1. CASE log = NoLog
      <3>1. log.url = << >> /\ log.secret = ""
        BY <2>1 DEF NoLog
      <3>2. DOMAIN << >> = {}
        OBVIOUS
      <3>3. ToSet(<< >>) = {}
        BY <3>2 DEF ToSet
      <3> QED BY <3>1, <3>3 DEF UserinfoNotLogged
    <2>2. CASE log = Redacted(Loaded(env))
      <3>1. log.url = redactURL(env.url) /\ log.secret = redactSecret(env.text["AUTH_HMAC_SECRET"])
        BY <2>2 DEF Redacted, Loaded
      <3>2. (\A i \in 1 .. Len(env.url) : env.url[i] = "password" => InUserinfo(env.url, i))
              => "password" \notin ToSet(log.url)
        BY <3>1, PasswordRedacted DEF LogRedacted
      <3> QED BY <3>1, <3>2 DEF UserinfoNotLogged, redactSecret
    <2> QED BY <2>1, <2>2 DEF LogRedacted
  <1> QED
    BY <1>1, <1>2, <1>3, InitOrder, NextOrder, InitConfigured, NextConfigured, PTL DEF Spec
============================================================================
