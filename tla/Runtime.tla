------------------------------- MODULE Runtime -------------------------------
(***************************************************************************)
(* One API process from Bootstrap to exit: main and its deferred            *)
(* runtime.Close, the goroutine that calls server.Shutdown, the request     *)
(* handlers and the connection pool they share (cmd/api/main.go,            *)
(* app/runtime.go, postgres.NewPool).  cmd/worker boots and closes the same *)
(* way; its loop is in JobQueue.                                            *)
(*                                                                          *)
(* A handler makes Calls database calls, each on a connection of its own    *)
(* that it gives back: between two calls it holds none.  The environment    *)
(* and the requests that will come are given; the rest of the outside world *)
(* (database, issuer, signals) is not.                                      *)
(***************************************************************************)
EXTENDS Config, FiniteSets

CONSTANTS Environments, \* environments a process may find
          Requests,     \* requests that may arrive
          Calls         \* database calls of a handler

ASSUME RuntimeAssumption == IsFiniteSet(Requests) /\ Calls \in Nat \ {0}

ASSUME EnvironmentsAssumption ==
  \A e \in Environments :
    /\ \A v \in NumVars : e.num[v].kind \in {"unset", "junk", "number"} /\ e.num[v].n \in Int
    /\ \A v \in TextVars : e.text[v] \in Words[v]
    /\ e.url \in Seq(STRING)

VARIABLES env,       \* the environment
          clients,   \* the requests that will come
          cfg,       \* the configuration, once loaded
          size,      \* connections of the pool (MaxConns)
          minIdle,   \* connections it keeps open (MinConns)
          log,       \* what the line runtime_bootstrapped shows of the secrets
          main,      \* the main goroutine
          signalled, \* SIGINT or SIGTERM has come: ctx is done
          drain,     \* the goroutine that waits for ctx and calls Shutdown
          shutdown,  \* server.inShutdown: Shutdown has been entered
          pool,      \* the connection pool
          tracing,   \* the tracer provider
          request,   \* control state of the handlers
          done       \* database calls each handler has made

given == <<env, clients>>
config == <<given, cfg, size, minIdle, log>>
vars == <<config, main, signalled, drain, shutdown, pool, tracing, request, done>>

----------------------------------------------------------------------------
Stage == {"config", "tracing", "pool", "schema", "validator", "listen", "serving",
          "close_pool", "wait_pool", "close_tracing", "exit0", "exit1"}

Ended == {"exit0", "exit1"}

RequestPC == {"new", "running", "call", "failing", "ok", "failed", "cut", "cut_in_call"}

NoCfg == << >>
NoLog == [url |-> << >>, secret |-> ""]

TypeOK ==
  /\ clients \subseteq Requests
  /\ cfg \in {NoCfg, Loaded(env)}
  /\ size \in 0 .. Half - 1 /\ minIdle \in -Half .. Half - 1
  /\ main \in Stage
  /\ signalled \in BOOLEAN
  /\ drain \in {"none", "waiting", "draining", "drained", "expired"}
  /\ shutdown \in BOOLEAN
  /\ pool \in {"none", "open", "closing", "closed"}
  /\ tracing \in {"none", "up", "down"}
  /\ request \in [Requests -> RequestPC]
  /\ done \in [Requests -> 0..Calls]

Init ==
  /\ env \in Environments
  /\ clients \in SUBSET Requests
  /\ cfg = NoCfg
  /\ size = 0 /\ minIdle = 0
  /\ log = NoLog
  /\ main = "config"
  /\ signalled = FALSE
  /\ drain = "none"
  /\ shutdown = FALSE
  /\ pool = "none"
  /\ tracing = "none"
  /\ request = [q \in Requests |-> "new"]
  /\ done = [q \in Requests |-> 0]

InCall == {q \in Requests : request[q] = "call"}
Active == {q \in Requests : request[q] \in {"running", "call", "failing"}}

(* The process ends: what its handlers were doing is cut off.               *)
CutOff ==
  request' = [q \in Requests |->
                CASE q \in InCall -> "cut_in_call"
                  [] q \in Active \ InCall -> "cut"
                  [] q \notin Active -> request[q]]

boot == <<drain, shutdown, request, done, signalled>>

----------------------------------------------------------------------------
(* Bootstrap.  The context is the signal's: what waits on it fails once the  *)
(* signal has come.                                                          *)

(* config.Load, NewLogger and NewMetrics, any of which may fail: nothing to   *)
(* release yet.                                                              *)
LoadConfig ==
  /\ main = "config"
  /\ \/ main' = "tracing" /\ Loads(env) /\ cfg' = Loaded(env)
     \/ main' = "exit1" /\ UNCHANGED cfg
  /\ UNCHANGED <<boot, given, size, minIdle, log, pool, tracing>>

SetupTracing ==
  /\ main = "tracing"
  /\ \/ main' = "pool" /\ tracing' = "up"
     \/ main' = "exit1" /\ UNCHANGED tracing
  /\ UNCHANGED <<boot, config, pool>>

(* Parse, convert, connect, and ping within five seconds.  pgxpool wants     *)
(* room for one connection and does not look at the minimum; a pool that     *)
(* does not answer is closed again.                                          *)
NewPool ==
  LET max == Int32(cfg.num["DATABASE_MAX_OPEN_CONNS"])
      min == Int32(cfg.num["DATABASE_MIN_IDLE_CONNS"])
      opens == Parses(cfg.url) /\ max >= 1
  IN  /\ main = "pool"
      /\ \/ /\ main' = "schema" /\ opens /\ ~signalled
            /\ pool' = "open" /\ size' = max /\ minIdle' = min
         \/ /\ main' = "exit1"
            /\ pool' = (IF opens THEN "closed" ELSE "none") /\ UNCHANGED <<size, minIdle>>
      /\ UNCHANGED <<boot, given, cfg, log, tracing>>

EnsureCompatible ==
  /\ main = "schema"
  /\ \/ main' = "validator" /\ ~signalled /\ UNCHANGED pool
     \/ main' = "exit1" /\ pool' = "closed"
  /\ UNCHANGED <<boot, config, tracing>>

(* Fault: the goroutine is started once ListenAndServe has returned.        *)
NewValidatorNoDrainer ==
  /\ main = "validator"
  /\ \/ main' = "listen" /\ log' = Redacted(cfg) /\ UNCHANGED <<pool, drain>>
     \/ main' = "exit1" /\ cfg.mode = "oidc" /\ pool' = "closed" /\ UNCHANGED <<log, drain>>
  /\ UNCHANGED <<given, cfg, size, minIdle, signalled, shutdown, request, done, tracing>>

(* auth.NewValidator, which in oidc mode may ask the issuer, the runtime and  *)
(* its line in the log, the deferred Close, the server and the goroutine that *)
(* waits for the signal.                                                      *)
NewValidator ==
  /\ main = "validator"
  /\ \/ main' = "listen" /\ log' = Redacted(cfg) /\ drain' = "waiting" /\ UNCHANGED pool
     \/ main' = "exit1" /\ cfg.mode = "oidc" /\ pool' = "closed" /\ UNCHANGED <<log, drain>>
  /\ UNCHANGED <<given, cfg, size, minIdle, signalled, shutdown, request, done, tracing>>

----------------------------------------------------------------------------
(* Serving and shutting down.                                               *)

(* SIGINT or SIGTERM, at any time.                                          *)
Signal ==
  /\ ~signalled /\ main \notin Ended
  /\ signalled' = TRUE
  /\ UNCHANGED <<config, main, drain, shutdown, pool, tracing, request, done>>

(* ListenAndServe: refuses at once when Shutdown came first; any other error *)
(* is os.Exit(1), which runs no deferred function.                           *)
Listen ==
  /\ main = "listen"
  /\ \/ main' = "close_pool" /\ shutdown
     \/ main' = "serving" /\ ~shutdown
     \/ main' = "exit1" /\ ~shutdown
  /\ UNCHANGED <<boot, config, pool, tracing>>

(* server.Shutdown closes the listener and waits for the handlers.          *)
Shutdown ==
  /\ drain = "waiting" /\ signalled /\ main \notin Ended
  /\ drain' = "draining"
  /\ shutdown' = TRUE
  /\ UNCHANGED <<config, main, signalled, pool, tracing, request, done>>

(* It returns when they are through, or after SHUTDOWN_TIMEOUT; nobody looks *)
(* at which.                                                                 *)
ShutdownReturns ==
  /\ drain = "draining" /\ main \notin Ended
  /\ \/ drain' = "drained" /\ Active = {}
     \/ drain' = "expired" /\ Active # {}
  /\ UNCHANGED <<config, main, signalled, shutdown, pool, tracing, request, done>>

(* ListenAndServe returns ErrServerClosed as soon as Shutdown is entered,    *)
(* and main goes on to its deferred Close.                                   *)
ServeReturns ==
  /\ main = "serving" /\ shutdown
  /\ main' = "close_pool"
  /\ UNCHANGED <<boot, config, pool, tracing>>

(* Accept fails for another reason: os.Exit(1).                             *)
ServeFails ==
  /\ main = "serving" /\ ~shutdown
  /\ main' = "exit1"
  /\ CutOff
  /\ UNCHANGED <<config, signalled, drain, shutdown, pool, tracing, done>>

(* Fault: the pool is closed without waiting for its connections.           *)
ClosePoolAtOnce ==
  /\ main = "close_pool"
  /\ pool' = "closed"
  /\ main' = "close_tracing"
  /\ UNCHANGED <<boot, config, tracing>>

(* pool.Close refuses new acquires first ...                                *)
ClosePool ==
  /\ main = "close_pool"
  /\ pool' = "closing"
  /\ main' = "wait_pool"
  /\ UNCHANGED <<boot, config, tracing>>

(* ... and then waits for the connections that are out.                     *)
PoolDrained ==
  /\ main = "wait_pool" /\ InCall = {}
  /\ pool' = "closed"
  /\ main' = "close_tracing"
  /\ UNCHANGED <<boot, config, tracing>>

(* traceShutdown, whose error is dropped, and the end of main.              *)
CloseTracing ==
  /\ main = "close_tracing"
  /\ tracing' = "down"
  /\ main' = "exit0"
  /\ CutOff
  /\ UNCHANGED <<config, signalled, drain, shutdown, pool, done>>

----------------------------------------------------------------------------
(* Handlers; they go on until the process ends.                             *)

server == <<config, main, signalled, drain, shutdown, pool, tracing>>

Accept(q) ==
  /\ main = "serving" /\ ~shutdown
  /\ q \in clients /\ request[q] = "new"
  /\ request' = [request EXCEPT ![q] = "running"]
  /\ UNCHANGED <<server, done>>

(* Fault: a second connection is acquired while the first is held.          *)
BeginNestedCall(q) ==
  /\ request[q] = "running" /\ done[q] < Calls
  /\ pool = "open" /\ Cardinality(InCall) + 1 < size
  /\ request' = [request EXCEPT ![q] = "call"]
  /\ UNCHANGED <<server, done>>

(* Acquire waits while the pool is exhausted, and fails once it is closed.   *)
BeginCall(q) ==
  /\ request[q] = "running" /\ done[q] < Calls
  /\ \/ /\ pool = "open" /\ Cardinality(InCall) < size
        /\ request' = [request EXCEPT ![q] = "call"]
     \/ /\ pool \in {"closing", "closed"}
        /\ request' = [request EXCEPT ![q] = "failing"]
  /\ UNCHANGED <<server, done>>

(* The call is through, the connection is back in the pool.                 *)
EndCall(q) ==
  /\ request[q] = "call"
  /\ \/ request' = [request EXCEPT ![q] = "running"] /\ done' = [done EXCEPT ![q] = @ + 1]
     \/ request' = [request EXCEPT ![q] = "failing"] /\ UNCHANGED done
  /\ UNCHANGED server

Respond(q) ==
  /\ \/ /\ request[q] = "running" /\ done[q] = Calls
        /\ request' = [request EXCEPT ![q] = "ok"]
     \/ /\ request[q] = "failing"
        /\ request' = [request EXCEPT ![q] = "failed"]
  /\ UNCHANGED <<server, done>>

----------------------------------------------------------------------------
BootStep ==
  \/ LoadConfig \/ SetupTracing \/ NewPool \/ EnsureCompatible \/ NewValidator \/ Listen

CloseStep == ServeReturns \/ ClosePool \/ PoolDrained \/ CloseTracing

Handle(q) == BeginCall(q) \/ EndCall(q) \/ Respond(q)

Exited == main \in Ended /\ UNCHANGED vars

Next ==
  \/ BootStep \/ CloseStep \/ Signal \/ Shutdown \/ ShutdownReturns \/ ServeFails
  \/ \E q \in Requests : Accept(q) \/ Handle(q)
  \/ Exited

(* The goroutines run; a database call ends; nobody has to send a request or *)
(* a signal.  Acquire hands a free connection to each waiter in turn.        *)
Fairness ==
  /\ WF_vars(BootStep) /\ WF_vars(CloseStep) /\ WF_vars(Shutdown)
  /\ \A q \in Requests :
       WF_vars(EndCall(q)) /\ WF_vars(Respond(q)) /\ SF_vars(BeginCall(q))

Spec == Init /\ [][Next]_vars /\ Fairness

----------------------------------------------------------------------------
(* No orderly exit cuts a database call in the middle, although main does    *)
(* not wait for the handlers: pool.Close waits for the connections.          *)
NoCallCut == main = "exit0" => \A q \in Requests : request[q] # "cut_in_call"

(* A failed boot leaves no open pool, whichever of its steps failed and      *)
(* whether or not a signal came in between.                                  *)
FailedBootClosesPool == (main = "exit1" /\ drain = "none") => pool # "open"

(* The pool's life: whichever way the process ends, the pool is not taken    *)
(* away from a call and not forgotten by Bootstrap.                          *)
PoolClosedInOrder == NoCallCut /\ FailedBootClosesPool

(* A signal ends the process, wherever in Bootstrap, before ListenAndServe    *)
(* or under load it comes.                                                    *)
SignalEnds == signalled ~> main \in Ended

(* With any number of handlers on size connections, an accepted request  *)
(* is answered or the process ends.                                          *)
RequestsEnd == \A q \in Requests : q \in Active ~> q \notin Active

(* What a running process has is what the other models assume: positive      *)
(* attempts (JobQueue), batches, leases and intervals, and a pool with room   *)
(* for a call and never larger than configured.  Up to 2^32 connections the   *)
(* pool has the size and the idle minimum that were configured, the minimum   *)
(* within the size; beyond, where int32 wraps to a positive number again,     *)
(* both are at most what was configured, and the minimum may exceed the size. *)
RunsWithinBounds ==
  LET max == cfg.num["DATABASE_MAX_OPEN_CONNS"]
      min == cfg.num["DATABASE_MIN_IDLE_CONNS"]
  IN pool = "open" =>
       /\ size \in 1 .. max /\ minIdle <= min
       /\ max <= 2 * Half => size = max /\ minIdle = min /\ minIdle \in 0 .. size
       /\ \A v \in NumVars \ {"DATABASE_MIN_IDLE_CONNS"} : cfg.num[v] > 0

(* Whatever way the words were given, a serving API knows one issuer: in     *)
(* oidc mode the one its tokens carry is the one it asks for keys; in        *)
(* production it is in that mode and its database URL does not disable TLS.   *)
ModeIsConsistent ==
  main = "serving" =>
    /\ cfg.mode = "oidc" => cfg.issuer = cfg.oidcIssuer /\ cfg.oidcIssuer # ""
    /\ cfg.appEnv = "production" =>
         cfg.mode = "oidc" /\ SSLMode(cfg.url) \notin {"", "disable", "DISABLE"}
    /\ cfg.mode = "hmac" => cfg.secret = "long"

(* What the environment was turned into holds the other models' assumptions  *)
(* on their constants.                                                        *)
RunsAsConfigured == TypeOK /\ RunsWithinBounds /\ ModeIsConsistent

(* The i-th token of a URL stands in its userinfo: an "@" follows it, and    *)
(* the scheme, if there is one, comes before it.                             *)
InUserinfo(url, i) ==
  /\ \E j \in i + 1 .. Len(url) : url[j] = "@"
  /\ (\E j \in 1 .. Len(url) : url[j] = "://") => \E j \in 1 .. i - 1 : url[j] = "://"

(* The line logged at the end of Bootstrap does not show the HMAC secret, nor *)
(* a password that was given in the userinfo of the database URL, with or     *)
(* without a scheme and wherever an "@" is part of it.                        *)
UserinfoNotLogged ==
  /\ (\A i \in 1 .. Len(env.url) : env.url[i] = "password" => InUserinfo(env.url, i))
       => "password" \notin ToSet(log.url)
  /\ log.secret \in {"", "***"}

(* What the README says of the line: it shows neither the HMAC secret nor    *)
(* the database's password, however DATABASE_URL gives it.                   *)
SecretsNotLogged ==
  /\ "password" \notin ToSet(log.url)
  /\ log.secret \in {"", "***"}

(* What SHUTDOWN_TIMEOUT is for: the orderly exit leaves no request without  *)
(* an answer unless the timeout has run out.                                 *)
RequestsDrained ==
  main = "exit0" =>
    \A q \in Requests : request[q] \in {"cut", "cut_in_call"} => drain = "expired"
============================================================================
