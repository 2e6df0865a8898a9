-------------------------------- MODULE Access --------------------------------
(***************************************************************************)
(* Who gets through to the API's handlers: `cli token', the development      *)
(* OIDC issuer, the validators of both modes and the authentication, role    *)
(* check and input parsing in front of every /v1 handler (cmd/cli, devoidc,  *)
(* auth, api/server.go, httpx).                                              *)
(*                                                                          *)
(* A tick is a fraction of a second: token times are whole seconds, the      *)
(* clock they are compared with is not.  The issuer makes a key at each      *)
(* start and keeps it nowhere; the API caches the keys it last fetched.      *)
(***************************************************************************)
EXTENDS Integers, FiniteSets

CONSTANTS Tokens,     \* runs of `cli token', each with the token it prints
          Requests,   \* requests to the API
          Modes,      \* values of AUTH_MODE to consider
          Routes,     \* routes the requests go to
          Inputs,     \* what is right or wrong with their parameters and body
          Asks,       \* flags `cli token' is run with: role, subject and ttl
          OtherClaims,\* role, subject and audience of tokens signed otherwise
          Lifetimes,  \* values of OIDC_DEV_TOKEN_TTL, in ticks
          DefaultTTL, \* the hour an issuer falls back to, in ticks
          Second,     \* ticks in a second
          MaxTime,    \* bound on the clock
          MaxKeys,    \* bound on the starts of the issuer
          None        \* no token

Roles == {"engineer", "platform-admin"}

AllRoutes == {"healthz", "readyz", "services", "service", "evaluations", "scorecard",
              "candidates", "evaluate", "candidate", "audit-events"}

AllInputs == {"good", "bad_id", "bad_json", "two_documents", "bad_limit"}

ASSUME AccessAssumption ==
  /\ IsFiniteSet(Tokens) /\ IsFiniteSet(Requests)
  /\ Modes \subseteq {"hmac", "oidc"}
  /\ Routes \subseteq AllRoutes /\ Inputs \subseteq AllInputs
  /\ Lifetimes \subseteq Int
  /\ Asks \subseteq [role: Roles \cup {"other"}, sub: {"named", ""}, ttl: Int]
  /\ OtherClaims \subseteq [role: Roles \cup {"other"}, sub: {"named", ""},
                            aud: {"api", "elsewhere"}]
  /\ {DefaultTTL, Second, MaxKeys} \subseteq Nat \ {0}
  /\ MaxTime \in Nat
  /\ None \notin Tokens

VARIABLES mode,    \* AUTH_MODE of the API and of the CLI
          now,     \* the clock, in ticks
          issuer,  \* the issuer: its key, numbered by its starts, and its lifetime
          cmd,     \* runs of `cli token': progress and what was asked for
          token,   \* the tokens printed
          cache,   \* keys the API has cached
          fetch,   \* the fetch of keys under way: at most one, shared
          request, \* the requests
          refused, \* history: tokens refused, the issuer running with their key ever since
          newest   \* history: the latest key a token was admitted with

vars == <<mode, now, issuer, cmd, token, cache, fetch, request, refused, newest>>

----------------------------------------------------------------------------
Keys == 1 .. MaxKeys
Secret == 0   \* stands for AUTH_HMAC_SECRET, as NoKey does for a failed fetch
NoKey == 0

TTLs == Lifetimes \cup {DefaultTTL} \cup {ask.ttl : ask \in Asks}

Token == [role: Roles \cup {"other"}, sub: {"named", "default", ""}, aud: {"api", "elsewhere"},
          exp: Nat, key: Keys \cup {Secret},
          born: 0..MaxTime,  \* history: when it was signed,
          ttl: TTLs,         \*   the lifetime it was signed for,
          asked: Roles \cup {"other"}]  \*   and the role asked for

(* Answers: "expired" and "unauthorized" are both 401, with another cause.    *)
Statuses == {"none", "ok", "unavailable", "bad_request", "unauthorized", "expired",
             "forbidden", "handled"}

Request == [pc: {"new", "keys", "done"}, route: AllRoutes, input: AllInputs,
            token: Tokens \cup {None},
            status: Statuses,
            at: 0..MaxTime,   \* history: when its token's times were checked
            retry: BOOLEAN]   \* history: a repeat the issuer has not disturbed

TypeOK ==
  /\ mode \in Modes
  /\ now \in 0..MaxTime
  /\ issuer \in [up: BOOLEAN, key: Keys \cup {NoKey}, ttl: TTLs]
  /\ cmd \in [Tokens -> [pc: {"none", "discovered", "printed", "failed"},
                         role: Roles \cup {"other"}, sub: {"named", ""}, ttl: TTLs]]
  /\ DOMAIN token = {t \in Tokens : cmd[t].pc = "printed"}
  /\ \A t \in DOMAIN token : token[t] \in Token /\ token[t].ttl > 0
  /\ cache \subseteq Keys /\ Cardinality(cache) <= 1
  /\ fetch \in [state: {"idle", "sent", "served"}, key: Keys \cup {NoKey}]
  /\ request \in [Requests -> Request]
  /\ refused \subseteq Tokens
  /\ newest \in Keys \cup {NoKey}

Idle == [state |-> "idle", key |-> NoKey]

NoCmd == [pc |-> "none", role |-> "other", sub |-> "", ttl |-> DefaultTTL]

(* What the requests will ask for is settled from the start; with which      *)
(* token is not.                                                             *)
NewRequest(route, input) ==
  [pc |-> "new", route |-> route, input |-> input, token |-> None, status |-> "none",
   at |-> 0, retry |-> FALSE]

Init ==
  /\ mode \in Modes
  /\ now = 0
  /\ issuer = [up |-> FALSE, key |-> NoKey, ttl |-> DefaultTTL]
  /\ cmd = [t \in Tokens |-> NoCmd]
  /\ token = << >>
  /\ cache = {}
  /\ fetch = Idle
  /\ request \in [Requests -> {NewRequest(route, input) : route \in Routes, input \in Inputs}]
  /\ refused = {}
  /\ newest = NoKey

issuing == <<issuer, cmd, token>>
serving == <<cache, fetch, request, refused, newest>>

Tick == /\ now < MaxTime
        /\ now' = now + 1
        /\ UNCHANGED <<mode, issuing, serving>>

----------------------------------------------------------------------------
(* The development issuer                                                    *)

(* A lifetime that is not positive becomes the default; each start has a new *)
(* key.                                                                      *)
New ==
  /\ mode = "oidc" /\ ~issuer.up /\ issuer.key < MaxKeys
  /\ \E ttl \in Lifetimes :
       issuer' = [up |-> TRUE, key |-> issuer.key + 1,
                  ttl |-> IF ttl <= 0 THEN DefaultTTL ELSE ttl]
  /\ UNCHANGED <<mode, now, cmd, token, serving>>

StopIssuer ==
  /\ issuer.up
  /\ issuer' = [issuer EXCEPT !.up = FALSE]
  /\ refused' = {}
  /\ request' = [q \in Requests |-> [request[q] EXCEPT !.retry = FALSE]]
  /\ UNCHANGED <<mode, now, cmd, token, cache, fetch, newest>>

(* Fault: rounded up.                                                       *)
UnixUp(time) == ((time + Second - 1) \div Second) * Second

(* Times in a token are whole seconds, rounded down.                        *)
Unix(time) == (time \div Second) * Second

(* SignToken: the claims of a token signed now, with the role asked for on    *)
(* record.                                                                   *)
Claims(role, sub, ttl, key, asked) ==
  [role |-> role, sub |-> sub, aud |-> "api", exp |-> Unix(now + ttl), key |-> key,
   born |-> now, ttl |-> ttl, asked |-> asked]

Printed(t, claims) == token' = [u \in DOMAIN token \cup {t} |-> IF u = t THEN claims ELSE token[u]]

----------------------------------------------------------------------------
(* cli token                                                                 *)

Ended(t, pc) == cmd' = [cmd EXCEPT ![t].pc = pc]

(* Fault: a lifetime of zero is let through.                                *)
IssuesAnyTTL(ask) == ask.sub # "" /\ ask.role \in Roles

(* What IssueHMACToken refuses ...                                          *)
IssuesHMAC(ask) == ask.sub # "" /\ ask.role \in Roles /\ ask.ttl > 0

(* ... and what it signs.                                                   *)
HMACClaims(ask) == Claims(ask.role, ask.sub, ask.ttl, Secret, ask.role)

(* The issuer's discovery document has been fetched.                        *)
Discovered(answered) == mode = "oidc" /\ issuer.up /\ answered

(* The command with its flags.  In hmac mode it signs at once; in oidc mode  *)
(* it asks the issuer for its endpoints first.                               *)
RunToken(t) ==
  /\ cmd[t].pc = "none"
  /\ \E ask \in Asks, answered \in BOOLEAN :
       LET pc == CASE mode = "hmac" /\ IssuesHMAC(ask) -> "printed"
                   [] Discovered(answered) -> "discovered"
                   [] OTHER -> "failed"
       IN /\ cmd' = [cmd EXCEPT ![t] = [pc |-> pc, role |-> ask.role, sub |-> ask.sub,
                                        ttl |-> ask.ttl]]
          /\ IF pc = "printed" THEN Printed(t, HMACClaims(ask)) ELSE UNCHANGED token
  /\ UNCHANGED <<mode, now, issuer, serving>>

(* The command's way from a role to a client id; "" is an error.            *)
oidcClientIDForRole(role) ==
  CASE role = "engineer" -> "golden-path-engineer"
    [] role = "platform-admin" -> "golden-path-platform-admin"
    [] OTHER -> ""

(* Fault: the two definitions are swapped.                                  *)
ClientsSwapped ==
  [id \in {"golden-path-engineer", "golden-path-platform-admin"} |->
     IF id = "golden-path-engineer" THEN "platform-admin" ELSE "engineer"]

(* The clients the issuer knows, each with its role.                        *)
Clients ==
  [id \in {"golden-path-engineer", "golden-path-platform-admin"} |->
     IF id = "golden-path-engineer" THEN "engineer" ELSE "platform-admin"]

(* The issuer's token handler: the role is its client's, as is a subject not *)
(* given; the lifetime is its own.                                           *)
TokenOf(client, ask) ==
  Claims(Clients[client], IF ask.sub = "" THEN "default" ELSE ask.sub, issuer.ttl, issuer.key,
         ask.role)

(* issueOIDCToken from the client id on.                                    *)
IssueOIDCToken(t) ==
  /\ cmd[t].pc = "discovered"
  /\ LET client == oidcClientIDForRole(cmd[t].role)
     IN \/ /\ issuer.up /\ client \in DOMAIN Clients
           /\ Printed(t, TokenOf(client, cmd[t]))
           /\ Ended(t, "printed")
        \/ Ended(t, "failed") /\ UNCHANGED token
  /\ UNCHANGED <<mode, now, issuer, serving>>

(* A token the issuer signed with other claims (SignMapClaims).             *)
SignMapClaims(t) ==
  /\ issuer.up /\ cmd[t].pc = "none"
  /\ \E c \in OtherClaims :
       Printed(t, [Claims(c.role, c.sub, issuer.ttl, issuer.key, c.role) EXCEPT !.aud = c.aud])
  /\ Ended(t, "printed")
  /\ UNCHANGED <<mode, now, issuer, serving>>

----------------------------------------------------------------------------
(* The API                                                                   *)

Allowed(route) == IF route = "audit-events" THEN {"platform-admin"} ELSE Roles

(* parseUUIDParam, on the routes with an id in their path.                  *)
BadID(route, input) ==
  input = "bad_id" /\ route \in {"service", "evaluations", "scorecard", "evaluate", "candidate"}

(* DecodeJSON, on the routes that read their body: one document, no unknown  *)
(* fields.                                                                   *)
BadBody(route, input) ==
  input \in {"bad_json", "two_documents"} /\ route \in {"services", "service", "candidates"}

(* resource_id and limit of the audit list.                                 *)
BadQuery(route, input) == input \in {"bad_id", "bad_limit"} /\ route = "audit-events"

BadRequest(route, input) ==
  BadID(route, input) \/ BadBody(route, input) \/ BadQuery(route, input)

(* authorize and the handler's parsing.                                     *)
Authorize(route, role, input) ==
  CASE role \notin Allowed(route) -> "forbidden"
    [] role \in Allowed(route) /\ BadRequest(route, input) -> "bad_request"
    [] OTHER -> "handled"

(* The token's times: jwt wants now before exp, go-oidc refuses now after it.*)
InTime(exp) == IF mode = "hmac" THEN now < exp ELSE now <= exp

(* The role claim, the subject oidc.go asks for, and the audience.           *)
GoodClaims(tok) ==
  /\ tok.aud = "api"
  /\ tok.role \in Roles
  /\ mode = "oidc" => tok.sub # ""

(* The answer to q once the keys its token is checked with are known.        *)
Outcome(r, tok, keys) ==
  IF tok.key \in keys /\ GoodClaims(tok) THEN Authorize(r.route, tok.role, r.input) ELSE "unauthorized"

Admitted(status) == status \in {"handled", "bad_request", "forbidden"}

Steady(t) == token[t].key = issuer.key /\ issuer.up

(* History: what the answers `answers' (requests to their new records) say.  *)
Note(answers) ==
  LET done == {q \in Requests : request[q].pc # "done" /\ answers[q].pc = "done"
                                  /\ answers[q].token # None}
      ins == {token[answers[q].token].key : q \in {p \in done : Admitted(answers[p].status)}}
  IN /\ refused' = refused \cup {t \in DOMAIN token : Steady(t) /\ \E q \in done :
                                   answers[q].token = t /\ answers[q].status = "unauthorized"}
     /\ newest' = IF \E k \in ins : k > newest
                  THEN CHOOSE k \in ins : \A j \in ins : j <= k ELSE newest

(* Fault: keys that are not in the cache are refused at once.               *)
NoRefetch(tok) == FALSE

(* go-oidc looks at the times before the signature, and fetches keys only    *)
(* for one that none of the cached keys verifies.                            *)
NeedsKeys(tok) == mode = "oidc" /\ tok.aud = "api" /\ InTime(tok.exp) /\ tok.key \notin cache

(* The health routes, outside the authenticated group; readyz pings the      *)
(* database.                                                                 *)
Health == [healthz |-> {"ok"}, readyz |-> {"ok", "unavailable"}]

(* ParseBearerToken: the header holds a bearer token.                       *)
HasBearer(t) == t # None

(* A request up to its answer, or until it waits for keys.                   *)
Arrive(q) ==
  /\ request[q].pc = "new"
  /\ \E t \in DOMAIN token \cup {None} :
       LET route == request[q].route
           r == [request[q] EXCEPT !.token = t, !.at = now, !.retry = t \in refused]
           answer(status) == [r EXCEPT !.pc = "done", !.status = status]
           answered(rec) == /\ request' = [request EXCEPT ![q] = rec]
                            /\ Note([request EXCEPT ![q] = rec])
           open(status) == answered([answer(status) EXCEPT !.token = None, !.retry = FALSE])
       IN \/ /\ route \in DOMAIN Health
             /\ \E status \in Health[route] : open(status)
             /\ UNCHANGED fetch
          \/ /\ route \notin DOMAIN Health
             /\ CASE ~HasBearer(t) -> answered(answer("unauthorized")) /\ UNCHANGED fetch
                  [] HasBearer(t) /\ NeedsKeys(token[t]) ->
                       /\ answered([r EXCEPT !.pc = "keys"])
                       /\ fetch' = IF fetch = Idle THEN [fetch EXCEPT !.state = "sent"] ELSE fetch
                  [] OTHER ->
                       /\ answered(answer(IF InTime(token[t].exp)
                                          THEN Outcome(r, token[t], cache \cup {Secret})
                                          ELSE "expired"))
                       /\ UNCHANGED fetch
  /\ UNCHANGED <<mode, now, issuing, cache>>

(* The issuer's keys handler; the fetch fails when the issuer is down.       *)
ServeKeys ==
  /\ fetch.state = "sent"
  /\ fetch' = [state |-> "served", key |-> IF issuer.up THEN issuer.key ELSE NoKey]
  /\ UNCHANGED <<mode, now, issuing, cache, request, refused, newest>>

(* Fault: fetched keys are added to the cached ones.                        *)
KeysAdded == IF fetch.key = NoKey THEN cache ELSE cache \cup {fetch.key}

(* Fetched keys take the place of the cached ones.                          *)
KeysFetched == IF fetch.key = NoKey THEN cache ELSE {fetch.key}

(* The answer reaches the API and every request that waits for it.          *)
ReceiveKeys ==
  /\ fetch.state = "served"
  /\ cache' = KeysFetched
  /\ fetch' = Idle
  /\ LET answers == [q \in Requests |->
           IF request[q].pc # "keys" THEN request[q]
           ELSE [request[q] EXCEPT !.pc = "done",
                   !.status = Outcome(request[q], token[request[q].token], {fetch.key} \ {NoKey})]]
     IN request' = answers /\ Note(answers)
  /\ UNCHANGED <<mode, now, issuing>>

(* The API restarts with an empty cache; in oidc mode it needs the issuer.   *)
RestartAPI ==
  /\ mode = "oidc" => issuer.up
  /\ cache' = {}
  /\ fetch' = Idle
  /\ request' = [q \in Requests |->
       IF request[q].pc = "keys" THEN [request[q] EXCEPT !.pc = "done"] ELSE request[q]]
  /\ UNCHANGED <<mode, now, issuing, refused, newest>>

(* Everything but a restart of the API.                                     *)
WhileUp ==
  \/ Tick \/ New \/ StopIssuer
  \/ \E t \in Tokens : RunToken(t) \/ IssueOIDCToken(t) \/ SignMapClaims(t)
  \/ \E q \in Requests : Arrive(q)
  \/ ServeKeys \/ ReceiveKeys

Next == WhileUp \/ RestartAPI

Spec == Init /\ [][Next]_vars

----------------------------------------------------------------------------
Of(q) == token[request[q].token]

Answered(q) == request[q].pc = "done" /\ request[q].token # None /\ request[q].status # "none"

(* A request gets to a handler only with the role it takes there having been *)
(* asked for when the token was made, by this API's mode and for it.         *)
HandledAsAsked ==
  \A q \in Requests : Answered(q) /\ request[q].status = "handled" =>
    /\ Of(q).asked \in Roles
    /\ request[q].route = "audit-events" => Of(q).asked = "platform-admin"
    /\ Of(q).aud = "api" /\ Of(q).sub # ""
    /\ (mode = "hmac") <=> (Of(q).key = Secret)

(* No token is admitted once the lifetime it was signed for is over, and     *)
(* none is refused for its times a second or more before that: seconds       *)
(* rounded down and a strict or a weak comparison cannot add up to more.     *)
LifetimeKept ==
  \A q \in Requests : Answered(q) =>
    /\ Admitted(request[q].status) => request[q].at <= Of(q).born + Of(q).ttl
    /\ request[q].status = "expired" => request[q].at + Second > Of(q).born + Of(q).ttl

(* A restarted issuer's old tokens are out for good once the API has         *)
(* admitted a token of the new key, whatever fetch was under way, also over  *)
(* restarts of the API.                                                      *)
OldKeysForgotten ==
  [][\A q \in Requests :
       request[q].pc # "done" /\ Answered(q)' /\ Admitted(request'[q].status)
         => token[request'[q].token].key >= newest]_vars

(* A good token can be refused: by a fetch answered before the issuer        *)
(* started anew and joined after it.  But not twice: while the issuer stays  *)
(* up, the same token is refused again only because its time is up.          *)
RetryAdmitted ==
  \A q \in Requests :
    Answered(q) /\ request[q].retry /\ GoodClaims(Of(q))
      => request[q].status # "unauthorized"
=============================================================================
