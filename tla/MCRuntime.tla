------------------------------- MODULE MCRuntime -------------------------------
(* Instances of Runtime for TLC.  Requests come under one environment, with a *)
(* pool of one connection; under the others the process boots and stops.      *)
EXTENDS Runtime, TLC

Auth(mode, issuer, url, secret) ==
  [AUTH_MODE |-> mode, AUTH_AUDIENCE |-> "api", AUTH_ISSUER |-> issuer,
   AUTH_OIDC_ISSUER_URL |-> url, AUTH_HMAC_SECRET |-> secret, APP_LOG_LEVEL |-> "info"]

URL(userinfo, query) == <<"postgres", "://">> \o userinfo \o <<"host">> \o query
Login == <<"user", ":", "password", "@">>
SSL(mode) == <<"?", "sslmode=", mode>>
Pairs(mode) == <<"host=", "host", "user=", "user", "password=", "password", "sslmode=", mode>>

(* .env.example with a secret, and a production environment.                *)
Development ==
  [num |-> [v \in NumVars |-> Unset], url |-> URL(Login, SSL("disable")),
   text |-> [APP_ENV |-> ""] @@ Auth("hmac", "here", "", "long")]
Production ==
  [num |-> [v \in NumVars |-> Number(Defaults[v])], url |-> URL(Login, SSL("require")),
   text |-> [APP_ENV |-> "production"] @@ Auth("OIDC", "here", "here", "")]

OneConnection ==
  [Production EXCEPT !.num["DATABASE_MAX_OPEN_CONNS"] = Number(1),
                     !.num["DATABASE_MIN_IDLE_CONNS"] = Number(0)]

Databases ==
  {<< >>, URL(<< >>, << >>), URL(Login, << >>), URL(Login, SSL("disable")),
   URL(Login, SSL("DISABLE")), URL(Login, SSL("require")),
   URL(<<"user", ":", "password", "@", "password", "@">>, SSL("require")),
   URL(<< >>, SSL("require") \o <<"&", "password=", "password">>),
   <<"postgresql", "://">> \o Login \o <<"host">> \o SSL("require"),
   Login \o <<"host">>, <<"://">> \o Login \o <<"host">> \o SSL("require"),
   Pairs("require"), Pairs("DISABLE")}

(* Around zero, around 2^31 and around 2^32.                                *)
Numbers == {Unset, Junk}
             \cup {Number(n) : n \in {-1, 0, 1, Half - 1, Half, 2 * Half, 2 * Half + 1}}

(* The profiles with a number, both pool sizes, two words, or a word and the *)
(* database changed.                                                         *)
MCEnvironments == {OneConnection} \cup UNION {
  {[p EXCEPT !.num[v] = n] : v \in NumVars, n \in Numbers}
  \cup {[p EXCEPT !.num["DATABASE_MAX_OPEN_CONNS"] = m, !.num["DATABASE_MIN_IDLE_CONNS"] = n] :
          m, n \in Numbers}
  \cup UNION {{[p EXCEPT !.text[v] = x, !.text[w] = y] : x \in Words[v], y \in Words[w]} :
                v, w \in TextVars}
  \cup UNION {{[p EXCEPT !.text[v] = x, !.url = d] : x \in Words[v], d \in Databases} :
                v \in TextVars}
  : p \in {Development, Production}}

MCInit == Init /\ clients = IF env = OneConnection THEN Requests ELSE {}

MCSpec == MCInit /\ [][Next]_vars /\ Fairness
=============================================================================
