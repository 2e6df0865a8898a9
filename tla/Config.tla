-------------------------------- MODULE Config --------------------------------
(***************************************************************************)
(* config.Load as a function of the environment, the conversion of its      *)
(* numbers in postgres.NewPool, and what runtime.go logs of it.             *)
(*                                                                          *)
(* A number or duration is unset, junk no parser takes, or a value.  A text *)
(* is one of a few words, "" when unset or blank; a URL is a sequence of    *)
(* tokens, the password one of them.  Half is 2^31 scaled down: TLC's own integers end there.         *)
(***************************************************************************)
EXTENDS Integers, SequencesExt

CONSTANT Half   \* int32 holds -Half .. Half - 1

ASSUME HalfAssumption == Half \in Nat \ {0}

Timeouts == {"HTTP_READ_TIMEOUT", "HTTP_WRITE_TIMEOUT", "HTTP_IDLE_TIMEOUT", "SHUTDOWN_TIMEOUT"}

Defaults == [HTTP_READ_TIMEOUT |-> 10, HTTP_WRITE_TIMEOUT |-> 15, HTTP_IDLE_TIMEOUT |-> 60,
             SHUTDOWN_TIMEOUT |-> 20,
             DATABASE_MAX_OPEN_CONNS |-> 10, DATABASE_MIN_IDLE_CONNS |-> 2,
             DATABASE_MAX_CONN_LIFETIME |-> 1800, DATABASE_MAX_CONN_IDLE_TIME |-> 300,
             WORKER_POLL_INTERVAL |-> 2, WORKER_BATCH_SIZE |-> 5,
             JOB_LEASE_DURATION |-> 30, JOB_MAX_ATTEMPTS |-> 5]

NumVars == DOMAIN Defaults

Unset == [kind |-> "unset", n |-> 0]
Junk == [kind |-> "junk", n |-> 0]
Number(n) == [kind |-> "number", n |-> n]

Words == [APP_ENV |-> {"", "development", "test", "production", "staging"},
          APP_LOG_LEVEL |-> {"", "info", "WARN", "LOUD"},
          AUTH_MODE |-> {"", "hmac", "OIDC", "saml"},
          AUTH_AUDIENCE |-> {"", "api"},
          AUTH_ISSUER |-> {"", "here", "there"},
          AUTH_OIDC_ISSUER_URL |-> {"", "here", "there"},
          AUTH_HMAC_SECRET |-> {"", "short", "replace-me", "long"}]

TextVars == DOMAIN Words

----------------------------------------------------------------------------
(* getInt and getDuration, and whether they fail.                           *)
Reads(e, var) == e.num[var].kind # "junk"
Get(e, var) == IF e.num[var].kind = "unset" THEN Defaults[var] ELSE e.num[var].n

getDefault(e, var, fallback) == IF e.text[var] = "" THEN fallback ELSE e.text[var]

ToLower(w) == IF w = "OIDC" THEN "oidc" ELSE w
ToUpper(w) == IF w = "info" THEN "INFO" ELSE w

(* Fault: the idle minimum is not compared with the size.                   *)
DatabaseLoadsAnyMinimum(e) ==
  /\ e.url # << >>
  /\ \A v \in {"DATABASE_MAX_OPEN_CONNS", "DATABASE_MIN_IDLE_CONNS", "DATABASE_MAX_CONN_LIFETIME",
               "DATABASE_MAX_CONN_IDLE_TIME"} : Reads(e, v)
  /\ Get(e, "DATABASE_MAX_OPEN_CONNS") >= 1
  /\ Get(e, "DATABASE_MIN_IDLE_CONNS") >= 0
  /\ Get(e, "DATABASE_MAX_CONN_LIFETIME") > 0 /\ Get(e, "DATABASE_MAX_CONN_IDLE_TIME") > 0

(* loadDatabase succeeds.                                                   *)
DatabaseLoads(e) ==
  /\ e.url # << >>
  /\ \A v \in {"DATABASE_MAX_OPEN_CONNS", "DATABASE_MIN_IDLE_CONNS", "DATABASE_MAX_CONN_LIFETIME",
               "DATABASE_MAX_CONN_IDLE_TIME"} : Reads(e, v)
  /\ Get(e, "DATABASE_MAX_OPEN_CONNS") >= 1
  /\ Get(e, "DATABASE_MIN_IDLE_CONNS") \in 0 .. Get(e, "DATABASE_MAX_OPEN_CONNS")
  /\ Get(e, "DATABASE_MAX_CONN_LIFETIME") > 0 /\ Get(e, "DATABASE_MAX_CONN_IDLE_TIME") > 0

(* loadWorker succeeds.                                                     *)
WorkerLoads(e) ==
  \A v \in {"WORKER_POLL_INTERVAL", "WORKER_BATCH_SIZE", "JOB_LEASE_DURATION",
            "JOB_MAX_ATTEMPTS"} : Reads(e, v)

Mode(e) == ToLower(getDefault(e, "AUTH_MODE", "hmac"))

(* In oidc mode each of the two issuers stands in for the other.            *)
Issuer(e) ==
  IF e.text["AUTH_ISSUER"] = "" /\ Mode(e) = "oidc" THEN e.text["AUTH_OIDC_ISSUER_URL"]
  ELSE e.text["AUTH_ISSUER"]

OIDCIssuerURL(e) ==
  IF e.text["AUTH_OIDC_ISSUER_URL"] = "" /\ Mode(e) = "oidc" THEN Issuer(e)
  ELSE e.text["AUTH_OIDC_ISSUER_URL"]

(* loadAuth, and so LoadTokenIssuerConfig, succeeds.  A secret is too short, *)
(* or holds the placeholder of .env.example, or will do.                     *)
AuthLoads(e) ==
  /\ e.text["AUTH_AUDIENCE"] # "" /\ Issuer(e) # ""
  /\ \/ Mode(e) = "hmac" /\ e.text["AUTH_HMAC_SECRET"] \notin {"", "short", "replace-me"}
     \/ Mode(e) = "oidc" /\ Issuer(e) = OIDCIssuerURL(e)

(* The value of sslmode in the query of a URL; "" when it has none, as in    *)
(* keyword/value pairs, or when the URL begins with its "://".               *)
SSLMode(url) ==
  LET query == SelectInSeq(url, LAMBDA w : w = "?")
      key == SelectInSeq(SubSeq(url, query + 1, Len(url)), LAMBDA w : w = "sslmode=")
  IN IF query = 0 \/ key = 0 \/ Head(url) = "://" THEN "" ELSE url[query + key + 1]

validateProductionDatabaseURL(url) == SSLMode(url) \notin {"", "disable", "DISABLE"}

(* Config.validate; what loadAuth has checked already, and texts that have a *)
(* default, cannot fail here.                                                *)
Validates(c) ==
  /\ c.appEnv \in {"development", "test", "production"}
  /\ c.logLevel \in {"DEBUG", "INFO", "WARN", "ERROR"}
  /\ \A v \in Timeouts \cup {"WORKER_POLL_INTERVAL", "JOB_LEASE_DURATION"} : c.num[v] > 0
  /\ c.num["WORKER_BATCH_SIZE"] >= 1 /\ c.num["JOB_MAX_ATTEMPTS"] >= 1
  /\ c.appEnv = "production" => c.mode # "hmac" /\ validateProductionDatabaseURL(c.url)

Loaded(e) ==
  [appEnv |-> getDefault(e, "APP_ENV", "development"),
   logLevel |-> ToUpper(getDefault(e, "APP_LOG_LEVEL", "INFO")),
   num |-> [v \in NumVars |-> Get(e, v)],
   url |-> e.url,
   mode |-> Mode(e), audience |-> e.text["AUTH_AUDIENCE"], issuer |-> Issuer(e),
   oidcIssuer |-> OIDCIssuerURL(e), secret |-> e.text["AUTH_HMAC_SECRET"]]

Loads(e) ==
  /\ \A v \in Timeouts : Reads(e, v)
  /\ DatabaseLoads(e) /\ WorkerLoads(e) /\ AuthLoads(e)
  /\ Validates(Loaded(e))

----------------------------------------------------------------------------
(* The conversion int32(n).                                                 *)
Int32(n) == ((n + Half) % (2 * Half)) - Half

(* pgxpool.ParseConfig takes it: a URL of one of two schemes, or else        *)
(* something with keywords and values; sslmode is one of the words it knows. *)
Parses(url) ==
  /\ \/ SubSeq(url, 1, 2) \in {<<"postgres", "://">>, <<"postgresql", "://">>}
     \/ ToSet(url) \cap {"host=", "user=", "password=", "sslmode="} # {}
  /\ \A i \in 2 .. Len(url) : url[i - 1] = "sslmode=" => url[i] # "DISABLE"

redactSecret(s) == IF s = "" THEN "" ELSE "***"

(* Fault: the userinfo is taken to end at the first "@".                    *)
redactURLFirst(url) ==
  LET at == SelectInSeq(url, LAMBDA w : w = "@")
      scheme == SelectInSeq(url, LAMBDA w : w = "://")
  IN CASE at = 0 -> url
       [] at # 0 /\ scheme = 0 -> <<"***">>
       [] OTHER -> SubSeq(url, 1, scheme) \o <<"***">> \o SubSeq(url, at, Len(url))

(* Everything between the scheme and the last "@" is replaced.              *)
redactURL(url) ==
  LET at == SelectLastInSeq(url, LAMBDA w : w = "@")
      scheme == SelectInSeq(url, LAMBDA w : w = "://")
  IN CASE at = 0 -> url
       [] at # 0 /\ scheme = 0 -> <<"***">>
       [] OTHER -> SubSeq(url, 1, scheme) \o <<"***">> \o SubSeq(url, at, Len(url))

(* What Redacted shows of the secrets.                                      *)
Redacted(c) == [url |-> redactURL(c.url), secret |-> redactSecret(c.secret)]
=============================================================================
