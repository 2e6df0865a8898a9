----------------------------- MODULE AccessProofs -----------------------------
(***************************************************************************)
(* Theorems about Access, for any number of tokens, requests and starts of   *)
(* the issuer, any flags, lifetimes and length of a second.                  *)
(***************************************************************************)
EXTENDS Access, FiniteSetTheorems, TLAPS

(* Only oidc mode has an issuer; one that runs has a key and a lifetime.     *)
IssuerSound ==
  /\ issuer.ttl > 0
  /\ issuer.up => mode = "oidc" /\ issuer.key \in Keys
  /\ mode = "hmac" => issuer.key = NoKey /\ cache = {} /\ fetch.state = "idle"

(* What every signer makes of what it was asked for.                         *)
Signed(tok) ==
  /\ tok \in Token /\ tok.ttl > 0
  /\ tok.role = tok.asked
  /\ tok.exp = Unix(tok.born + tok.ttl)
  /\ mode = "hmac" <=> tok.key = Secret
  /\ mode = "hmac" => tok.sub # ""

TokensSigned == \A t \in DOMAIN token : Signed(token[t])

(* What a request's record says of its token, before its keys are there ...  *)
WaitsWell(r) ==
  /\ r.pc # "done" => r.status = "none"
  /\ r.pc = "keys" => /\ r.token # None /\ mode = "oidc"
                      /\ r.at <= token[r.token].exp

(* ... and once it is answered.                                              *)
AnsweredWell(r) ==
  r.pc = "done" /\ r.token # None =>
    /\ Admitted(r.status) => /\ GoodClaims(token[r.token])
                             /\ r.at <= token[r.token].exp
    /\ r.status = "handled" => token[r.token].role \in Allowed(r.route)
    /\ r.status = "expired" => token[r.token].exp <= r.at

(* A repeat waits with the refused token and is not refused once more.       *)
RetriesWell(r) ==
  /\ r.pc = "keys" /\ r.retry => r.token \in refused
  /\ r.pc = "done" /\ r.token # None /\ r.retry /\ GoodClaims(token[r.token])
       => r.status # "unauthorized"

RequestsSound ==
  \A q \in Requests : /\ request[q].token \in DOMAIN token \cup {None}
                      /\ WaitsWell(request[q]) /\ AnsweredWell(request[q])
                      /\ RetriesWell(request[q])

(* A refused token is of the running issuer, whose key any fetch that is     *)
(* answered from then on brings.                                             *)
RefusedSteady ==
  \A t \in refused :
    /\ t \in DOMAIN token /\ Steady(t)
    /\ GoodClaims(token[t]) /\ fetch.state = "served" => fetch.key = issuer.key

(* The key last admitted, the cached and the fetched one come in the order    *)
(* of the issuer's starts.                                                   *)
KeysInOrder ==
  /\ newest <= issuer.key
  /\ \A k \in cache : newest <= k /\ k <= issuer.key
  /\ fetch.state = "served" /\ fetch.key # NoKey =>
       /\ newest <= fetch.key /\ fetch.key <= issuer.key
       /\ \A k \in cache : k <= fetch.key

Inductive ==
  /\ TypeOK /\ IssuerSound /\ TokensSigned
  /\ RequestsSound /\ RefusedSteady /\ KeysInOrder

----------------------------------------------------------------------------
(* The whole second of a time is not after it and less than a second before. *)
LEMMA UnixWithin ==
  ASSUME NEW x \in Nat
  PROVE  Unix(x) \in Nat /\ Unix(x) <= x /\ x < Unix(x) + Second
  <1> DEFINE d == x \div Second
             m == x % Second
  <1>1. Second \in Nat \ {0}
    BY AccessAssumption
  <1>2. d \in Nat /\ m \in 0 .. Second - 1 /\ x = Second * d + m
    BY <1>1, SMTT(30)
  <1> HIDE DEF d, m
  <1>3. Second * d \in Nat /\ d * Second = Second * d
    BY <1>1, <1>2
  <1>4. Unix(x) = d * Second
    BY DEF Unix, d
  <1> QED BY <1>1, <1>2, <1>3, <1>4

(* The assumptions on the numbers and on what the command is asked for.       *)
LEMMA Constants ==
  /\ DefaultTTL \in Nat \ {0} /\ Second \in Nat \ {0} /\ MaxKeys \in Nat \ {0}
  /\ MaxTime \in Nat
  /\ DefaultTTL \in TTLs /\ TTLs \subseteq Int /\ Lifetimes \subseteq TTLs
  /\ \A ask \in Asks : ask.ttl \in TTLs
  /\ None \notin Tokens
  <1>1. \A ask \in Asks : ask.ttl \in Int
    BY AccessAssumption
  <1>2. Lifetimes \subseteq Int /\ DefaultTTL \in Nat \ {0} /\ Second \in Nat \ {0}
        /\ MaxKeys \in Nat \ {0} /\ MaxTime \in Nat /\ None \notin Tokens
    BY AccessAssumption
  <1>3. ASSUME NEW x \in TTLs PROVE x \in Int
    <2>1. x \in Lifetimes \/ x = DefaultTTL \/ \E ask \in Asks : x = ask.ttl
      BY DEF TTLs
    <2>2. CASE x \in Lifetimes
      BY <1>2, <2>2
    <2>3. CASE x = DefaultTTL
      BY <1>2, <2>3
    <2>4. CASE \E ask \in Asks : x = ask.ttl
      BY <1>1, <2>4
    <2> QED BY <2>1, <2>2, <2>3, <2>4
  <1>4. DefaultTTL \in TTLs /\ Lifetimes \subseteq TTLs
    BY DEF TTLs
  <1>5. \A ask \in Asks : ask.ttl \in TTLs
    BY DEF TTLs
  <1> QED BY <1>2, <1>3, <1>4, <1>5

(* Keys are numbered from 1, so that 0 is none of them.                      *)
LEMMA KeysArePositive ==
  /\ \A k \in Keys : k \in Nat /\ k > 0
  /\ \A k \in Keys \cup {NoKey} : k \in Nat
  /\ Secret \notin Keys /\ NoKey \notin Keys
  BY Constants DEF Keys, NoKey, Secret

(* Init satisfies the invariant.                                             *)
LEMMA InitInductive == Init => Inductive
  <1> SUFFICES ASSUME Init PROVE Inductive
    OBVIOUS
  <1>1. NoCmd \in [pc: {"none", "discovered", "printed", "failed"},
                   role: Roles \cup {"other"}, sub: {"named", ""}, ttl: TTLs]
    BY Constants DEF NoCmd
  <1>2. \A route \in Routes, input \in Inputs : NewRequest(route, input) \in Request
    <2> SUFFICES ASSUME NEW route \in Routes, NEW input \in Inputs
                 PROVE  NewRequest(route, input) \in Request
      OBVIOUS
    <2>1. route \in AllRoutes /\ input \in AllInputs
      BY AccessAssumption
    <2>2. 0 \in 0 .. MaxTime
      BY Constants
    <2> QED BY <2>1, <2>2 DEF NewRequest, Request, Statuses
  <1>3. DOMAIN token = {}
    BY DEF Init
  <1>4. Cardinality(cache) <= 1
    BY FS_EmptySet DEF Init
  <1>5. TypeOK
    <2>1. issuer \in [up: BOOLEAN, key: Keys \cup {NoKey}, ttl: TTLs]
      BY Constants DEF Init, NoKey
    <2>2. cmd \in [Tokens -> [pc: {"none", "discovered", "printed", "failed"},
                              role: Roles \cup {"other"}, sub: {"named", ""}, ttl: TTLs]]
      BY <1>1 DEF Init
    <2>3. {t \in Tokens : cmd[t].pc = "printed"} = {}
      BY DEF Init, NoCmd
    <2>4. request \in [Requests -> Request]
      BY <1>2 DEF Init
    <2>5. fetch \in [state: {"idle", "sent", "served"}, key: Keys \cup {NoKey}]
      BY DEF Init, Idle
    <2>6. mode \in Modes /\ cache \subseteq Keys /\ refused \subseteq Tokens
      BY DEF Init
    <2>7. now \in 0 .. MaxTime /\ newest \in Keys \cup {NoKey}
      BY Constants DEF Init
    <2> QED BY <1>3, <1>4, <2>1, <2>2, <2>3, <2>4, <2>5, <2>6, <2>7 DEF TypeOK
  <1>6. IssuerSound /\ TokensSigned /\ RefusedSteady /\ KeysInOrder
    BY <1>3, Constants DEF Init, IssuerSound, TokensSigned, RefusedSteady, KeysInOrder, NoKey, Idle
  <1>7. ASSUME NEW q \in Requests
        PROVE  /\ request[q].token = None /\ request[q].pc = "new" /\ request[q].status = "none"
    BY DEF Init, NewRequest
  <1>8. RequestsSound
    BY <1>7 DEF RequestsSound, WaitsWell, AnsweredWell, RetriesWell
  <1> QED BY <1>5, <1>6, <1>8 DEF Inductive

----------------------------------------------------------------------------
(* The signers                                                               *)

(* Times stay natural numbers when a lifetime is added.                      *)
LEMMA TimesAdd ==
  ASSUME NEW b \in 0 .. MaxTime, NEW t \in TTLs, t > 0
  PROVE  b + t \in Nat
  <1>1. t \in Int /\ MaxTime \in Nat
    BY Constants
  <1> QED BY <1>1

(* Claims made now for a valid request are a signed token, whatever the      *)
(* audience.                                                                 *)
LEMMA ClaimsSigned ==
  ASSUME TypeOK, NEW role \in Roles \cup {"other"}, NEW sub \in {"named", "default", ""},
         NEW ttl \in TTLs, ttl > 0, NEW key \in Keys \cup {Secret},
         NEW aud \in {"api", "elsewhere"},
         mode = "hmac" <=> key = Secret, mode = "hmac" => sub # ""
  PROVE  /\ Signed(Claims(role, sub, ttl, key, role))
         /\ Signed([Claims(role, sub, ttl, key, role) EXCEPT !.aud = aud])
  <1> DEFINE c == Claims(role, sub, ttl, key, role)
             d == [c EXCEPT !.aud = aud]
  <1>0. now \in 0 .. MaxTime
    BY DEF TypeOK
  <1>1. now + ttl \in Nat
    BY <1>0, TimesAdd
  <1>2. Unix(now + ttl) \in Nat
    BY <1>1, UnixWithin
  <1>3. c \in Token
    BY <1>0, <1>2 DEF Claims, Token
  <1>4. /\ c.role = role /\ c.asked = role /\ c.ttl = ttl /\ c.key = key /\ c.sub = sub
        /\ c.exp = Unix(c.born + c.ttl)
    BY DEF Claims
  <1> HIDE DEF c
  <1>5. d \in Token
    BY <1>3 DEF Token
  <1>6. /\ d.role = c.role /\ d.asked = c.asked /\ d.ttl = c.ttl /\ d.key = c.key
        /\ d.sub = c.sub /\ d.exp = c.exp /\ d.born = c.born
    BY <1>3 DEF Token
  <1> HIDE DEF d
  <1>7. Signed(c) /\ Signed(d)
    BY <1>3, <1>4, <1>5, <1>6 DEF Signed
  <1> QED BY <1>7 DEF c, d

CmdType == [pc: {"none", "discovered", "printed", "failed"},
            role: Roles \cup {"other"}, sub: {"named", ""}, ttl: TTLs]

(* A command that ends or goes on without a token.                           *)
LEMMA CmdMoves ==
  ASSUME TypeOK, NEW t \in Tokens, NEW c \in CmdType, cmd[t].pc # "printed",
         c.pc # "printed", cmd' = [cmd EXCEPT ![t] = c], token' = token
  PROVE  /\ cmd' \in [Tokens -> CmdType]
         /\ DOMAIN token' = {u \in Tokens : cmd'[u].pc = "printed"}
  <1>1. cmd \in [Tokens -> CmdType] /\ DOMAIN token = {u \in Tokens : cmd[u].pc = "printed"}
    BY DEF TypeOK, CmdType
  <1>2. \A u \in Tokens : cmd'[u] = IF u = t THEN c ELSE cmd[u]
    BY <1>1
  <1> QED BY <1>1, <1>2

(* A command that ends with a token.                                         *)
LEMMA CmdPrints ==
  ASSUME TypeOK, NEW t \in Tokens, NEW c \in CmdType, cmd[t].pc # "printed",
         c.pc = "printed", cmd' = [cmd EXCEPT ![t] = c], NEW tok, Printed(t, tok)
  PROVE  /\ cmd' \in [Tokens -> CmdType]
         /\ DOMAIN token' = {u \in Tokens : cmd'[u].pc = "printed"}
         /\ t \notin DOMAIN token
         /\ DOMAIN token' = DOMAIN token \cup {t} /\ token'[t] = tok
         /\ \A u \in DOMAIN token : token'[u] = token[u]
  <1>1. cmd \in [Tokens -> CmdType] /\ DOMAIN token = {u \in Tokens : cmd[u].pc = "printed"}
    BY DEF TypeOK, CmdType
  <1>2. \A u \in Tokens : cmd'[u] = IF u = t THEN c ELSE cmd[u]
    BY <1>1
  <1>3. t \notin DOMAIN token
    BY <1>1
  <1>4. /\ DOMAIN token' = DOMAIN token \cup {t} /\ token'[t] = tok
        /\ \A u \in DOMAIN token : token'[u] = token[u]
    BY <1>3 DEF Printed
  <1> QED BY <1>1, <1>2, <1>3, <1>4

(* What the three signers do: nothing but move a command, or print a token   *)
(* as it was asked for.                                                      *)
Prints(t) ==
  /\ UNCHANGED <<mode, now, issuer, cache, fetch, request, refused, newest>>
  /\ cmd' \in [Tokens -> CmdType]
  /\ DOMAIN token' = {u \in Tokens : cmd'[u].pc = "printed"}
  /\ \/ UNCHANGED token
     \/ /\ t \notin DOMAIN token
        /\ DOMAIN token' = DOMAIN token \cup {t} /\ Signed(token'[t])
        /\ \A u \in DOMAIN token : token'[u] = token[u]

(* RunToken signs by itself in hmac mode.                                    *)
LEMMA RunTokenPrints ==
  ASSUME TypeOK, IssuerSound, NEW t \in Tokens, RunToken(t)
  PROVE  Prints(t)
  <1>1. PICK ask \in Asks, answered \in BOOLEAN :
          LET pc == CASE mode = "hmac" /\ IssuesHMAC(ask) -> "printed"
                      [] Discovered(answered) -> "discovered"
                      [] OTHER -> "failed"
          IN /\ cmd' = [cmd EXCEPT ![t] = [pc |-> pc, role |-> ask.role, sub |-> ask.sub,
                                           ttl |-> ask.ttl]]
             /\ IF pc = "printed" THEN Printed(t, HMACClaims(ask)) ELSE UNCHANGED token
    BY DEF RunToken
  <1>2. /\ ask.role \in Roles \cup {"other"} /\ ask.sub \in {"named", ""} /\ ask.ttl \in TTLs
    BY AccessAssumption, Constants
  <1>3. cmd[t].pc # "printed" /\ UNCHANGED <<mode, now, issuer, serving>>
    BY DEF RunToken
  <1> DEFINE c(pc) == [pc |-> pc, role |-> ask.role, sub |-> ask.sub, ttl |-> ask.ttl]
  <1>4. ASSUME NEW pc \in {"none", "discovered", "printed", "failed"}
        PROVE  c(pc) \in CmdType /\ c(pc).pc = pc
    BY <1>2 DEF CmdType
  <1>5. CASE mode = "hmac" /\ IssuesHMAC(ask)
    <2>1. cmd' = [cmd EXCEPT ![t] = c("printed")] /\ Printed(t, HMACClaims(ask))
      BY <1>1, <1>5 DEF Discovered
    <2>2. Signed(HMACClaims(ask))
      <3>1. ask.ttl > 0 /\ ask.sub # "" /\ mode = "hmac" /\ Secret \in Keys \cup {Secret}
        BY <1>5 DEF IssuesHMAC
      <3> QED BY <1>2, <3>1, ClaimsSigned DEF HMACClaims
    <2>3. c("printed") \in CmdType /\ c("printed").pc = "printed"
      BY <1>4
    <2> HIDE DEF c
    <2>4. /\ cmd' \in [Tokens -> CmdType]
          /\ DOMAIN token' = {u \in Tokens : cmd'[u].pc = "printed"}
          /\ t \notin DOMAIN token
          /\ DOMAIN token' = DOMAIN token \cup {t} /\ token'[t] = HMACClaims(ask)
          /\ \A u \in DOMAIN token : token'[u] = token[u]
      BY <1>3, <2>1, <2>3, CmdPrints
    <2> QED BY <1>3, <2>2, <2>4 DEF Prints, serving
  <1>6. CASE ~(mode = "hmac" /\ IssuesHMAC(ask))
    <2>1. PICK pc \in {"discovered", "failed"} : cmd' = [cmd EXCEPT ![t] = c(pc)] /\ token' = token
      BY <1>1, <1>6
    <2>2. c(pc) \in CmdType /\ c(pc).pc # "printed"
      BY <1>4
    <2> HIDE DEF c
    <2>3. /\ cmd' \in [Tokens -> CmdType]
          /\ DOMAIN token' = {u \in Tokens : cmd'[u].pc = "printed"}
      BY <1>3, <2>1, <2>2, CmdMoves
    <2> QED BY <1>3, <2>1, <2>3 DEF Prints, serving
  <1> QED BY <1>5, <1>6

(* The end of a command is a change of its record's pc.                      *)
LEMMA EndedCmd ==
  ASSUME TypeOK, NEW t \in Tokens, NEW pc \in {"printed", "failed"}, Ended(t, pc)
  PROVE  \E c \in CmdType : c.pc = pc /\ cmd' = [cmd EXCEPT ![t] = c]
  <1>1. cmd[t] \in CmdType
    BY DEF TypeOK, CmdType
  <1>2. [cmd[t] EXCEPT !.pc = pc] \in CmdType /\ [cmd[t] EXCEPT !.pc = pc].pc = pc
    BY <1>1 DEF CmdType
  <1>3. cmd' = [cmd EXCEPT ![t] = [cmd[t] EXCEPT !.pc = pc]]
    BY DEF Ended
  <1> QED BY <1>2, <1>3

(* A token printed with a command that ends is printed as it was asked for.  *)
LEMMA EndedPrints ==
  ASSUME TypeOK, NEW t \in Tokens, cmd[t].pc # "printed", Ended(t, "printed"),
         UNCHANGED <<mode, now, issuer, serving>>, NEW tok, Signed(tok),
         Printed(t, tok)
  PROVE  Prints(t)
  <1>1. PICK c \in CmdType : c.pc = "printed" /\ cmd' = [cmd EXCEPT ![t] = c]
    BY EndedCmd
  <1>2. /\ cmd' \in [Tokens -> CmdType]
        /\ DOMAIN token' = {u \in Tokens : cmd'[u].pc = "printed"}
        /\ t \notin DOMAIN token
        /\ DOMAIN token' = DOMAIN token \cup {t} /\ token'[t] = tok
        /\ \A u \in DOMAIN token : token'[u] = token[u]
    BY <1>1, CmdPrints
  <1> QED BY <1>2 DEF Prints, serving

(* The issuer signs with the lifetime and the key it runs with.              *)
LEMMA IssuerSigns ==
  ASSUME TypeOK, IssuerSound, issuer.up, NEW role \in Roles \cup {"other"},
         NEW sub \in {"named", "default", ""}, NEW aud \in {"api", "elsewhere"}
  PROVE  /\ Signed(Claims(role, sub, issuer.ttl, issuer.key, role))
         /\ Signed([Claims(role, sub, issuer.ttl, issuer.key, role) EXCEPT !.aud = aud])
  <1>1. /\ issuer.ttl \in TTLs /\ issuer.ttl > 0 /\ mode = "oidc"
        /\ issuer.key \in Keys
    BY DEF TypeOK, IssuerSound
  <1>2. issuer.key # Secret
    BY <1>1, KeysArePositive
  <1> QED BY <1>1, <1>2, ClaimsSigned

(* The client the command names for a role has that role with the issuer.    *)
LEMMA ClientOfItsRole ==
  ASSUME NEW role, oidcClientIDForRole(role) \in DOMAIN Clients
  PROVE  Clients[oidcClientIDForRole(role)] = role /\ role \in Roles
  <1>1. oidcClientIDForRole(role) # ""
    BY DEF Clients
  <1>2. role = "engineer" \/ role = "platform-admin"
    BY <1>1 DEF oidcClientIDForRole
  <1> QED BY <1>2 DEF oidcClientIDForRole, Clients, Roles

(* IssueOIDCToken and SignMapClaims have the issuer sign.                    *)
LEMMA IssueOIDCTokenPrints ==
  ASSUME TypeOK, IssuerSound, NEW t \in Tokens, IssueOIDCToken(t)
  PROVE  Prints(t)
  <1>1. cmd[t].pc # "printed" /\ UNCHANGED <<mode, now, issuer, serving>>
    BY DEF IssueOIDCToken
  <1> DEFINE client == oidcClientIDForRole(cmd[t].role)
  <1>2. CASE issuer.up /\ client \in DOMAIN Clients /\ Printed(t, TokenOf(client, cmd[t]))
             /\ Ended(t, "printed")
    <2>1. cmd[t].sub \in {"named", ""} /\ cmd[t].role \in Roles \cup {"other"}
      BY DEF TypeOK
    <2>2. Clients[client] = cmd[t].role
      BY <1>2, ClientOfItsRole
    <2>3. Signed(TokenOf(client, cmd[t]))
      BY <1>2, <2>1, <2>2, IssuerSigns DEF TokenOf
    <2> QED BY <1>1, <1>2, <2>3, EndedPrints
  <1>3. CASE Ended(t, "failed") /\ UNCHANGED token
    <2>1. PICK c \in CmdType : c.pc = "failed" /\ cmd' = [cmd EXCEPT ![t] = c]
      BY <1>3, EndedCmd
    <2>2. /\ cmd' \in [Tokens -> CmdType]
          /\ DOMAIN token' = {u \in Tokens : cmd'[u].pc = "printed"}
      BY <1>1, <1>3, <2>1, CmdMoves
    <2> QED BY <1>1, <1>3, <2>2 DEF Prints, serving
  <1> QED BY <1>2, <1>3 DEF IssueOIDCToken

(* The claims may be wrong, but not other than asked for.                    *)
LEMMA SignMapClaimsPrints ==
  ASSUME TypeOK, IssuerSound, NEW t \in Tokens, SignMapClaims(t)
  PROVE  Prints(t)
  <1>1. /\ cmd[t].pc # "printed" /\ UNCHANGED <<mode, now, issuer, serving>>
        /\ issuer.up /\ Ended(t, "printed")
    BY DEF SignMapClaims
  <1>2. PICK c \in OtherClaims :
          Printed(t, [Claims(c.role, c.sub, issuer.ttl, issuer.key, c.role) EXCEPT !.aud = c.aud])
    BY DEF SignMapClaims
  <1>3. c.role \in Roles \cup {"other"} /\ c.sub \in {"named", ""} /\ c.aud \in {"api", "elsewhere"}
    BY AccessAssumption
  <1>4. Signed([Claims(c.role, c.sub, issuer.ttl, issuer.key, c.role) EXCEPT !.aud = c.aud])
    BY <1>1, <1>3, IssuerSigns
  <1> QED BY <1>1, <1>2, <1>4, EndedPrints

(* Tokens are never taken back, so all that is known of them stays.          *)
LEMMA PrintsKeeps ==
  ASSUME Inductive, NEW t \in Tokens, Prints(t)
  PROVE  Inductive'
  <1>0. UNCHANGED <<mode, now, issuer, cache, fetch, request, refused, newest>>
    BY DEF Prints
  <1>1. /\ DOMAIN token \subseteq DOMAIN token'
        /\ \A u \in DOMAIN token : token'[u] = token[u]
        /\ \A u \in DOMAIN token' : Signed(token'[u])
    BY DEF Prints, Inductive, TokensSigned
  <1>2. TokensSigned'
    BY <1>0, <1>1 DEF TokensSigned, Signed
  <1>3. \A u \in DOMAIN token' : token'[u] \in Token /\ token'[u].ttl > 0
    BY <1>1 DEF Signed
  <1>4. TypeOK'
    BY <1>0, <1>3, ZenonT(30) DEF Inductive, TypeOK, Prints, CmdType
  <1>5. IssuerSound' /\ KeysInOrder'
    BY <1>0 DEF Inductive, IssuerSound, KeysInOrder
  <1>6. RefusedSteady'
    BY <1>0, <1>1 DEF Inductive, RefusedSteady, Steady, GoodClaims
  <1>7. RequestsSound'
    <2> SUFFICES ASSUME NEW q \in Requests
                 PROVE  /\ request[q].token \in DOMAIN token' \cup {None}
                        /\ WaitsWell(request[q])' /\ AnsweredWell(request[q])'
                        /\ RetriesWell(request[q])'
      BY <1>0 DEF RequestsSound
    <2>1. /\ request[q].token \in DOMAIN token \cup {None}
          /\ WaitsWell(request[q]) /\ AnsweredWell(request[q]) /\ RetriesWell(request[q])
      BY DEF Inductive, RequestsSound
    <2>2. request[q].token # None => token'[request[q].token] = token[request[q].token]
      BY <1>1, <2>1
    <2>3. request[q].token \in DOMAIN token' \cup {None}
      BY <1>1, <2>1
    <2>4. WaitsWell(request[q])' /\ AnsweredWell(request[q])' /\ RetriesWell(request[q])'
      BY <1>0, <2>1, <2>2 DEF WaitsWell, AnsweredWell, RetriesWell, GoodClaims
    <2> QED BY <2>3, <2>4
  <1> QED BY <1>2, <1>4, <1>5, <1>6, <1>7 DEF Inductive

----------------------------------------------------------------------------
(* The issuer and the clock                                                  *)

(* The clock ticks.                                                          *)
LEMMA TickKeeps == Inductive /\ Tick => Inductive'
  <1> SUFFICES ASSUME Inductive, Tick PROVE Inductive'
    OBVIOUS
  <1>1. now' \in 0 .. MaxTime
    <2>1. now \in 0 .. MaxTime /\ now < MaxTime /\ now' = now + 1
      BY DEF Tick, Inductive, TypeOK
    <2> QED BY <2>1, Constants
  <1>2. UNCHANGED <<mode, issuer, cmd, token, cache, fetch, request, refused, newest>>
    BY DEF Tick, issuing, serving
  <1> QED BY <1>1, <1>2, ZenonT(30) DEF Inductive, TypeOK, IssuerSound, TokensSigned, Signed, RequestsSound,
                WaitsWell, AnsweredWell, RetriesWell, GoodClaims, RefusedSteady, Steady, KeysInOrder

(* A new issuer has the next key; nothing is refused while there is none.    *)
LEMMA NewKeeps == Inductive /\ New => Inductive'
  <1> SUFFICES ASSUME Inductive, New PROVE Inductive'
    OBVIOUS
  <1>1. UNCHANGED <<mode, now, cmd, token, cache, fetch, request, refused, newest>>
    BY DEF New, serving
  <1>2. PICK ttl \in Lifetimes :
          issuer' = [up |-> TRUE, key |-> issuer.key + 1,
                     ttl |-> IF ttl <= 0 THEN DefaultTTL ELSE ttl]
    BY DEF New
  <1>3. /\ mode = "oidc" /\ ~issuer.up /\ issuer.key < MaxKeys
        /\ issuer.key \in Keys \cup {NoKey} /\ ttl \in TTLs /\ ttl \in Int
    BY Constants DEF New, Inductive, TypeOK
  <1>4. issuer.key \in Nat /\ issuer.key + 1 \in Keys
    BY <1>3, Constants DEF Keys, NoKey
  <1>5. /\ issuer'.up = TRUE /\ issuer'.key = issuer.key + 1
        /\ issuer'.ttl \in TTLs /\ issuer'.ttl > 0
    BY <1>2, <1>3, Constants
  <1>6. issuer' \in [up: BOOLEAN, key: Keys \cup {NoKey}, ttl: TTLs]
    BY <1>2, <1>4, <1>5
  <1>7. refused = {}
    BY <1>3 DEF Inductive, RefusedSteady, Steady
  <1>8. TypeOK'
    BY <1>1, <1>6 DEF Inductive, TypeOK
  <1>9. IssuerSound' /\ TokensSigned' /\ RefusedSteady'
    BY <1>1, <1>3, <1>4, <1>5, <1>7 DEF Inductive, IssuerSound, TokensSigned, Signed, RefusedSteady
  <1>10. RequestsSound'
    BY <1>1 DEF Inductive, RequestsSound, WaitsWell, AnsweredWell, RetriesWell, GoodClaims
  <1>11. KeysInOrder'
    <2>1. \A k \in cache : k \in Nat
      BY KeysArePositive DEF Inductive, TypeOK
    <2>2. newest \in Nat /\ fetch.key \in Nat
      <3>1. newest \in Keys \cup {NoKey} /\ fetch.key \in Keys \cup {NoKey}
        BY DEF Inductive, TypeOK
      <3> QED BY <3>1, KeysArePositive
    <2> QED BY <1>1, <1>4, <1>5, <2>1, <2>2 DEF Inductive, KeysInOrder
  <1> QED BY <1>8, <1>9, <1>10, <1>11 DEF Inductive

(* When the issuer stops, nothing counts as refused or repeated any more.    *)
LEMMA StopIssuerKeeps == Inductive /\ StopIssuer => Inductive'
  <1> SUFFICES ASSUME Inductive, StopIssuer PROVE Inductive'
    OBVIOUS
  <1>1. /\ UNCHANGED <<mode, now, cmd, token, cache, fetch, newest>> /\ refused' = {}
        /\ issuer' = [issuer EXCEPT !.up = FALSE]
        /\ request' = [q \in Requests |-> [request[q] EXCEPT !.retry = FALSE]]
    BY DEF StopIssuer
  <1>2. issuer \in [up: BOOLEAN, key: Keys \cup {NoKey}, ttl: TTLs]
    BY DEF Inductive, TypeOK
  <1>3. /\ issuer' \in [up: BOOLEAN, key: Keys \cup {NoKey}, ttl: TTLs]
        /\ issuer'.up = FALSE /\ issuer'.key = issuer.key /\ issuer'.ttl = issuer.ttl
    BY <1>1, <1>2
  <1>4. ASSUME NEW q \in Requests
        PROVE  /\ request'[q] \in Request /\ request'[q].retry = FALSE
               /\ request'[q].pc = request[q].pc /\ request'[q].token = request[q].token
               /\ request'[q].status = request[q].status /\ request'[q].at = request[q].at
               /\ request'[q].route = request[q].route
    <2>1. request[q] \in Request /\ request'[q] = [request[q] EXCEPT !.retry = FALSE]
      BY <1>1 DEF Inductive, TypeOK
    <2> QED BY <2>1 DEF Request
  <1>5. TypeOK'
    BY <1>1, <1>3, <1>4 DEF Inductive, TypeOK
  <1>6. IssuerSound' /\ TokensSigned' /\ RefusedSteady' /\ KeysInOrder'
    BY <1>1, <1>3 DEF Inductive, IssuerSound, TokensSigned, Signed, RefusedSteady, KeysInOrder
  <1>7. RequestsSound'
    <2> SUFFICES ASSUME NEW q \in Requests
                 PROVE  /\ request'[q].token \in DOMAIN token \cup {None}
                        /\ WaitsWell(request[q])' /\ AnsweredWell(request[q])'
                        /\ RetriesWell(request[q])'
      BY <1>1 DEF RequestsSound
    <2>1. /\ request[q].token \in DOMAIN token \cup {None}
          /\ WaitsWell(request[q]) /\ AnsweredWell(request[q])
      BY DEF Inductive, RequestsSound
    <2>2. request'[q].token \in DOMAIN token \cup {None}
      BY <1>4, <2>1
    <2>3. WaitsWell(request[q])' /\ AnsweredWell(request[q])'
      BY <1>1, <1>4, <2>1 DEF WaitsWell, AnsweredWell, GoodClaims
    <2>4. RetriesWell(request[q])'
      BY <1>4 DEF RetriesWell
    <2> QED BY <2>2, <2>3, <2>4
  <1> QED BY <1>5, <1>6, <1>7 DEF Inductive

(* The keys handler gives the key of the running issuer.                     *)
LEMMA ServeKeysKeeps == Inductive /\ ServeKeys => Inductive'
  <1> SUFFICES ASSUME Inductive, ServeKeys PROVE Inductive'
    OBVIOUS
  <1>1. /\ UNCHANGED <<mode, now, issuer, cmd, token, cache, request, refused, newest>>
        /\ fetch.state = "sent"
        /\ fetch' = [state |-> "served", key |-> IF issuer.up THEN issuer.key ELSE NoKey]
    BY DEF ServeKeys, issuing
  <1>2. issuer.key \in Keys \cup {NoKey} /\ mode # "hmac"
    BY <1>1 DEF Inductive, TypeOK, IssuerSound
  <1>3. /\ fetch' \in [state: {"idle", "sent", "served"}, key: Keys \cup {NoKey}]
        /\ fetch'.key = IF issuer.up THEN issuer.key ELSE NoKey
    BY <1>1, <1>2
  <1>4. TypeOK'
    BY <1>1, <1>3 DEF Inductive, TypeOK
  <1>5. IssuerSound' /\ TokensSigned'
    BY <1>1, <1>2 DEF Inductive, IssuerSound, TokensSigned, Signed
  <1>6. RefusedSteady'
    BY <1>1, <1>3 DEF Inductive, RefusedSteady, Steady, GoodClaims
  <1>7. KeysInOrder'
    <2>1. issuer.key \in Int /\ issuer.key <= issuer.key
      BY <1>2, KeysArePositive DEF NoKey
    <2> QED BY <1>1, <1>3, <2>1 DEF Inductive, KeysInOrder
  <1>8. RequestsSound'
    BY <1>1 DEF Inductive, RequestsSound, WaitsWell, AnsweredWell, RetriesWell, GoodClaims
  <1> QED BY <1>4, <1>5, <1>6, <1>7, <1>8 DEF Inductive

(* A restarted API has answered the waiting requests with nothing.           *)
LEMMA RestartAPIKeeps == Inductive /\ RestartAPI => Inductive'
  <1> SUFFICES ASSUME Inductive, RestartAPI PROVE Inductive'
    OBVIOUS
  <1>1. /\ UNCHANGED <<mode, now, issuer, cmd, token, refused, newest>>
        /\ cache' = {} /\ fetch' = Idle
        /\ request' = [q \in Requests |->
             IF request[q].pc = "keys" THEN [request[q] EXCEPT !.pc = "done"] ELSE request[q]]
    BY DEF RestartAPI, issuing
  <1>2. ASSUME NEW q \in Requests
        PROVE  /\ request'[q] \in Request
               /\ \/ request'[q] = request[q] /\ request[q].pc # "keys"
                  \/ /\ request'[q].pc = "done" /\ request'[q].status = "none"
                     /\ request'[q].token = request[q].token
    <2>1. request[q] \in Request
      BY DEF Inductive, TypeOK
    <2>2. CASE request[q].pc = "keys"
      <3>1. request'[q] = [request[q] EXCEPT !.pc = "done"] /\ request[q].status = "none"
        BY <1>1, <2>2 DEF Inductive, RequestsSound, WaitsWell
      <3> QED BY <2>1, <3>1 DEF Request
    <2>3. CASE request[q].pc # "keys"
      BY <1>1, <2>1, <2>3
    <2> QED BY <2>2, <2>3
  <1>3. /\ fetch' \in [state: {"idle", "sent", "served"}, key: Keys \cup {NoKey}]
        /\ fetch'.state = "idle"
    BY <1>1 DEF Idle
  <1>4. Cardinality(cache') <= 1
    BY <1>1, FS_EmptySet
  <1>5. TypeOK'
    BY <1>1, <1>2, <1>3, <1>4 DEF Inductive, TypeOK
  <1>6. IssuerSound' /\ TokensSigned'
    BY <1>1, <1>3 DEF Inductive, IssuerSound, TokensSigned, Signed
  <1>7. RefusedSteady' /\ KeysInOrder'
    BY <1>1, <1>3 DEF Inductive, RefusedSteady, Steady, GoodClaims, KeysInOrder
  <1>8. RequestsSound'
    <2> SUFFICES ASSUME NEW q \in Requests
                 PROVE  /\ request'[q].token \in DOMAIN token \cup {None}
                        /\ WaitsWell(request[q])' /\ AnsweredWell(request[q])'
                        /\ RetriesWell(request[q])'
      BY <1>1 DEF RequestsSound
    <2>1. /\ request[q].token \in DOMAIN token \cup {None}
          /\ WaitsWell(request[q]) /\ AnsweredWell(request[q]) /\ RetriesWell(request[q])
      BY DEF Inductive, RequestsSound
    <2> QED BY <1>1, <1>2, <2>1 DEF WaitsWell, AnsweredWell, RetriesWell, GoodClaims, Admitted
  <1> QED BY <1>5, <1>6, <1>7, <1>8 DEF Inductive

----------------------------------------------------------------------------
(* The API                                                                   *)

(* A truth value can be kept in a record.                                    *)
LEMMA TruthValue ==
  ASSUME NEW t, NEW R
  PROVE  \E b \in BOOLEAN : b = (t \in R)
  <1>1. CASE t \in R
    <2>1. TRUE \in BOOLEAN /\ TRUE = (t \in R)
      BY <1>1
    <2> QED BY <2>1, Zenon
  <1>2. CASE t \notin R
    <2>1. FALSE \in BOOLEAN /\ FALSE = (t \in R)
      BY <1>2
    <2> QED BY <2>1, Zenon
  <1> QED BY <1>1, <1>2

(* A request's record with its answer.                                       *)
LEMMA AnswerGiven ==
  ASSUME NEW old \in Request, NEW status \in Statuses
  PROVE  LET r == [old EXCEPT !.pc = "done", !.status = status] IN
         /\ r \in Request /\ r.pc = "done" /\ r.status = status
         /\ r.token = old.token /\ r.at = old.at /\ r.retry = old.retry
         /\ r.route = old.route /\ r.input = old.input
  BY DEF Request

(* What is admitted or refused by the keys.                                  *)
LEMMA OutcomeSound ==
  ASSUME NEW r, NEW tok, NEW keys
  PROVE  /\ Outcome(r, tok, keys) \in {"forbidden", "bad_request", "handled", "unauthorized"}
         /\ Outcome(r, tok, keys) # "unauthorized" => tok.key \in keys /\ GoodClaims(tok)
         /\ tok.key \in keys /\ GoodClaims(tok) => Outcome(r, tok, keys) # "unauthorized"
         /\ Outcome(r, tok, keys) = "handled" => tok.role \in Allowed(r.route)
  BY DEF Outcome, Authorize

(* At most one key is cached.                                                *)
LEMMA OneKeyCached ==
  ASSUME TypeOK, NEW j \in cache, NEW k \in cache
  PROVE  j = k
  <1>1. cache \subseteq Keys /\ Cardinality(cache) <= 1
    BY DEF TypeOK
  <1>2. IsFiniteSet(cache)
    <2>1. IsFiniteSet(Keys)
      BY FS_Interval, Constants DEF Keys
    <2> QED BY <1>1, <2>1, FS_Subset
  <1>3. SUFFICES ASSUME j # k PROVE FALSE
    OBVIOUS
  <1>4. IsFiniteSet({j}) /\ Cardinality({j}) = 1
    BY FS_Singleton
  <1>5. Cardinality({j} \cup {k}) = 2
    BY <1>3, <1>4, FS_AddElement
  <1>6. Cardinality({j} \cup {k}) <= Cardinality(cache)
    BY <1>2, FS_Subset
  <1>7. Cardinality(cache) \in Nat
    BY <1>2, FS_CardinalityType
  <1> QED BY <1>1, <1>5, <1>6, <1>7

(* The requests that `answers' answers, by their tokens.                     *)
AnsweredBy(answers) ==
  {q \in Requests : request[q].pc # "done" /\ answers[q].pc = "done" /\ answers[q].token # None}

(* The history variables when all that are admitted have the same key.       *)
LEMMA NoteEffect ==
  ASSUME TypeOK, NEW answers, Note(answers), NEW k \in Nat,
         \A q \in AnsweredBy(answers) :
           Admitted(answers[q].status) => token[answers[q].token].key = k
  PROVE  /\ refused \subseteq refused'
         /\ \A t \in refused' \ refused : /\ t \in DOMAIN token /\ Steady(t)
              /\ \E q \in AnsweredBy(answers) : /\ answers[q].token = t
                                                /\ answers[q].status = "unauthorized"
         /\ newest' \in {newest, k} /\ newest' >= newest
         /\ newest' # newest => /\ newest' = k
              /\ \E q \in AnsweredBy(answers) : Admitted(answers[q].status)
  <1> DEFINE done == AnsweredBy(answers)
             ins == {token[answers[q].token].key : q \in {p \in done : Admitted(answers[p].status)}}
  <1>1. /\ refused' = refused \cup {t \in DOMAIN token : Steady(t) /\ \E q \in done :
                                      answers[q].token = t /\ answers[q].status = "unauthorized"}
        /\ newest' = IF \E j \in ins : j > newest
                     THEN CHOOSE j \in ins : \A i \in ins : i <= j ELSE newest
    BY DEF Note, AnsweredBy
  <1>2. ins \subseteq {k} /\ newest \in Nat
    <2>1. newest \in Keys \cup {NoKey}
      BY DEF TypeOK
    <2> QED BY <2>1, KeysArePositive
  <1>3. ins # {} => \E q \in done : Admitted(answers[q].status)
    OBVIOUS
  <1> HIDE DEF ins, done
  <1>4. newest' = newest \/ (newest' = k /\ k > newest /\ ins # {})
    <2>1. CASE \E j \in ins : j > newest
      <3>1. ins = {k} /\ k > newest
        BY <1>2, <2>1
      <3>2. (CHOOSE j \in ins : \A i \in ins : i <= j) = k
        BY <3>1
      <3> QED BY <1>1, <2>1, <3>1, <3>2
    <2>2. CASE ~\E j \in ins : j > newest
      BY <1>1, <2>2
    <2> QED BY <2>1, <2>2
  <1>5. /\ newest' \in {newest, k} /\ newest' >= newest
        /\ newest' # newest => newest' = k /\ ins # {}
    BY <1>2, <1>4
  <1> QED BY <1>1, <1>3, <1>5 DEF done

(* What a request becomes when it arrives: answered without a token ...      *)
NeedsNoToken(rec) == rec.pc = "done" /\ rec.token = None /\ UNCHANGED fetch

(* ... waiting for keys with its token ...                                   *)
WaitsForKeys(rec) ==
  /\ rec.pc = "keys" /\ rec.status = "none" /\ NeedsKeys(token[rec.token])
  /\ fetch' = IF fetch = Idle THEN [fetch EXCEPT !.state = "sent"] ELSE fetch

(* ... or answered by it.                                                    *)
AnsweredAtOnce(rec) ==
  /\ rec.pc = "done" /\ ~NeedsKeys(token[rec.token]) /\ UNCHANGED fetch
  /\ rec.status = IF InTime(token[rec.token].exp)
                  THEN Outcome(rec, token[rec.token], cache \cup {Secret}) ELSE "expired"

Becomes(q, rec) ==
  /\ request[q].pc = "new"
  /\ request' = [request EXCEPT ![q] = rec] /\ Note([request EXCEPT ![q] = rec])
  /\ UNCHANGED <<mode, now, issuer, cmd, token, cache>>
  /\ \/ NeedsNoToken(rec)
     \/ /\ rec.token \in DOMAIN token /\ rec.at = now
        /\ rec.retry = (rec.token \in refused)
        /\ WaitsForKeys(rec) \/ AnsweredAtOnce(rec)

(* Arrive takes one of these ways.                                           *)
LEMMA ArriveEffect ==
  ASSUME Inductive, NEW q \in Requests, Arrive(q)
  PROVE  \E rec \in Request : Becomes(q, rec)
  <1>1. /\ request[q].pc = "new" /\ UNCHANGED <<mode, now, issuer, cmd, token, cache>>
        /\ request[q] \in Request /\ request[q].status = "none" /\ now \in 0 .. MaxTime
        /\ DOMAIN token \subseteq Tokens
    BY DEF Arrive, issuing, Inductive, TypeOK, RequestsSound, WaitsWell
  <1> DEFINE r(t) == [request[q] EXCEPT !.token = t, !.at = now, !.retry = t \in refused]
             answer(t, status) == [r(t) EXCEPT !.pc = "done", !.status = status]
             answered(rec) == /\ request' = [request EXCEPT ![q] = rec]
                              /\ Note([request EXCEPT ![q] = rec])
  <1>2. PICK t \in DOMAIN token \cup {None} :
          \/ \E status \in {"ok", "unavailable"} :
               /\ answered([answer(t, status) EXCEPT !.token = None, !.retry = FALSE])
               /\ UNCHANGED fetch
          \/ answered(answer(t, "unauthorized")) /\ t = None /\ UNCHANGED fetch
          \/ /\ t # None /\ NeedsKeys(token[t])
             /\ answered([r(t) EXCEPT !.pc = "keys"])
             /\ fetch' = IF fetch = Idle THEN [fetch EXCEPT !.state = "sent"] ELSE fetch
          \/ /\ t # None /\ ~NeedsKeys(token[t])
             /\ answered(answer(t, IF InTime(token[t].exp)
                                   THEN Outcome(r(t), token[t], cache \cup {Secret})
                                   ELSE "expired"))
             /\ UNCHANGED fetch
    <2>1. PICK t \in DOMAIN token \cup {None} :
            \/ /\ request[q].route \in DOMAIN Health
               /\ \E status \in Health[request[q].route] :
                    answered([answer(t, status) EXCEPT !.token = None, !.retry = FALSE])
               /\ UNCHANGED fetch
            \/ /\ request[q].route \notin DOMAIN Health
               /\ CASE ~HasBearer(t) -> answered(answer(t, "unauthorized")) /\ UNCHANGED fetch
                    [] HasBearer(t) /\ NeedsKeys(token[t]) ->
                         /\ answered([r(t) EXCEPT !.pc = "keys"])
                         /\ fetch' = IF fetch = Idle THEN [fetch EXCEPT !.state = "sent"] ELSE fetch
                    [] OTHER ->
                         /\ answered(answer(t, IF InTime(token[t].exp)
                                               THEN Outcome(r(t), token[t], cache \cup {Secret})
                                               ELSE "expired"))
                         /\ UNCHANGED fetch
      BY Zenon DEF Arrive
    <2>2. \A route \in DOMAIN Health : Health[route] \subseteq {"ok", "unavailable"}
      BY DEF Health
    <2> HIDE DEF r, answer, answered
    <2>3. CASE request[q].route \in DOMAIN Health
      BY <2>1, <2>2, <2>3
    <2>4. CASE request[q].route \notin DOMAIN Health
      BY <2>1, <2>4 DEF HasBearer
    <2> QED BY <2>3, <2>4
  <1>3. /\ r(t) \in Request /\ r(t).token = t /\ r(t).at = now /\ r(t).retry = (t \in refused)
        /\ r(t).pc = "new" /\ r(t).status = "none" /\ r(t).input = request[q].input
        /\ r(t).route = request[q].route
    <2>1. t \in Tokens \cup {None} /\ request[q] \in Request /\ now \in 0 .. MaxTime
      BY <1>1
    <2>2. r(t) = [request[q] EXCEPT !.token = t, !.at = now, !.retry = t \in refused]
      OBVIOUS
    <2>3. PICK b \in BOOLEAN : b = (t \in refused)
      BY TruthValue
    <2>4. r(t) = [request[q] EXCEPT !.token = t, !.at = now, !.retry = b]
      BY <2>2, <2>3, Zenon
    <2> HIDE DEF r
    <2>5. /\ r(t) \in Request /\ r(t).token = t /\ r(t).at = now
          /\ r(t).retry = b /\ r(t).pc = request[q].pc
          /\ r(t).status = request[q].status /\ r(t).input = request[q].input
          /\ r(t).route = request[q].route
      BY <2>1, <2>4 DEF Request
    <2>6. r(t).retry = (t \in refused)
      BY <2>3, <2>5, Zenon
    <2> QED BY <1>1, <2>5, <2>6
  <1> HIDE DEF r
  <1>4. ASSUME NEW status \in Statuses
        PROVE  LET a == answer(t, status) IN
               /\ a \in Request /\ a.pc = "done" /\ a.status = status
               /\ a.token = t /\ a.at = now /\ a.retry = (t \in refused)
               /\ a.route = r(t).route /\ a.input = r(t).input
    BY <1>3, AnswerGiven
  <1> HIDE DEF answer
  <1>5. ASSUME NEW status \in {"ok", "unavailable"}, UNCHANGED fetch,
               answered([answer(t, status) EXCEPT !.token = None, !.retry = FALSE])
        PROVE  \E rec \in Request : Becomes(q, rec)
    <2> DEFINE rec == [answer(t, status) EXCEPT !.token = None, !.retry = FALSE]
    <2>1. answer(t, status) \in Request /\ answer(t, status).pc = "done"
      BY <1>4 DEF Statuses
    <2>2. rec \in Request /\ rec.pc = "done" /\ rec.token = None
      BY <2>1 DEF Request
    <2> QED BY <1>1, <1>5, <2>2 DEF Becomes, NeedsNoToken
  <1>6. ASSUME answered(answer(t, "unauthorized")), t = None, UNCHANGED fetch
        PROVE  \E rec \in Request : Becomes(q, rec)
    <2>1. /\ answer(t, "unauthorized") \in Request /\ answer(t, "unauthorized").pc = "done"
          /\ answer(t, "unauthorized").token = None
      BY <1>4, <1>6 DEF Statuses
    <2> QED BY <1>1, <1>6, <2>1 DEF Becomes, NeedsNoToken
  <1>7. ASSUME t # None, NeedsKeys(token[t]), answered([r(t) EXCEPT !.pc = "keys"]),
               fetch' = IF fetch = Idle THEN [fetch EXCEPT !.state = "sent"] ELSE fetch
        PROVE  \E rec \in Request : Becomes(q, rec)
    <2> DEFINE rec == [r(t) EXCEPT !.pc = "keys"]
    <2>1. /\ rec \in Request /\ rec.pc = "keys" /\ rec.token = t /\ rec.at = now
          /\ rec.retry = (t \in refused) /\ rec.status = "none"
      BY <1>3 DEF Request
    <2>2. answered(rec)
      BY <1>7
    <2> HIDE DEF rec
    <2> QED BY <1>1, <1>7, <2>1, <2>2 DEF Becomes, WaitsForKeys
  <1>8. ASSUME t # None, ~NeedsKeys(token[t]), UNCHANGED fetch,
               answered(answer(t, IF InTime(token[t].exp)
                                  THEN Outcome(r(t), token[t], cache \cup {Secret})
                                  ELSE "expired"))
        PROVE  \E rec \in Request : Becomes(q, rec)
    <2> DEFINE status == IF InTime(token[t].exp)
                         THEN Outcome(r(t), token[t], cache \cup {Secret}) ELSE "expired"
               rec == answer(t, status)
    <2>1. status \in Statuses
      BY OutcomeSound DEF Statuses
    <2>2. /\ rec \in Request /\ rec.pc = "done" /\ rec.status = status /\ rec.token = t
          /\ rec.at = now /\ rec.retry = (t \in refused)
          /\ rec.route = r(t).route /\ rec.input = r(t).input
      BY <1>4, <2>1
    <2>3. answered(rec)
      BY <1>8
    <2> HIDE DEF rec
    <2>4. Outcome(rec, token[t], cache \cup {Secret}) = Outcome(r(t), token[t], cache \cup {Secret})
      BY <2>2 DEF Outcome
    <2> QED BY <1>1, <1>8, <2>2, <2>3, <2>4 DEF Becomes, AnsweredAtOnce
  <1> QED BY <1>2, <1>5, <1>6, <1>7, <1>8

(* An answer at once is by a key in the cache, or by the secret, and in time; *)
(* only bad claims are refused by the running issuer's key.                   *)
LEMMA AnsweredAtOnceSound ==
  ASSUME Inductive, NEW rec \in Request, rec.token \in DOMAIN token, rec.at = now,
         AnsweredAtOnce(rec)
  PROVE  LET tok == token[rec.token] IN
         /\ Admitted(rec.status) => /\ GoodClaims(tok) /\ rec.at <= tok.exp
                                    /\ tok.key \in cache \/ (mode = "hmac" /\ tok.key = Secret)
         /\ rec.status = "handled" => tok.role \in Allowed(rec.route)
         /\ rec.status = "expired" => tok.exp <= rec.at
         /\ rec.status = "unauthorized" => ~(Steady(rec.token) /\ GoodClaims(tok))
  <1> DEFINE tok == token[rec.token]
             keys == cache \cup {Secret}
  <1>1. /\ tok \in Token /\ (mode = "hmac" <=> tok.key = Secret)
        /\ Steady(rec.token) => mode = "oidc"
    BY DEF Inductive, TokensSigned, Signed, IssuerSound, Steady
  <1>2. mode \in {"hmac", "oidc"} /\ now \in Int /\ tok.exp \in Int
    <2>1. mode \in Modes /\ now \in 0 .. MaxTime
      BY DEF Inductive, TypeOK
    <2>2. tok.exp \in Nat
      BY <1>1 DEF Token
    <2>3. mode \in {"hmac", "oidc"}
      BY <2>1, AccessAssumption
    <2>4. now \in Int
      BY <2>1, Constants
    <2> QED BY <2>2, <2>3, <2>4
  <1>3. /\ rec.status = IF InTime(tok.exp) THEN Outcome(rec, tok, keys) ELSE "expired"
        /\ ~NeedsKeys(tok)
    BY DEF AnsweredAtOnce
  <1> HIDE DEF tok, keys
  <1>4. CASE InTime(tok.exp)
    <2>1. rec.status = Outcome(rec, tok, keys)
      BY <1>3, <1>4
    <2>2. rec.at <= tok.exp
      BY <1>2, <1>4 DEF InTime
    <2>3. /\ Admitted(rec.status) => GoodClaims(tok) /\ tok.key \in keys
          /\ rec.status = "handled" => tok.role \in Allowed(rec.route)
          /\ rec.status # "expired"
          /\ rec.status = "unauthorized" => ~(tok.key \in keys /\ GoodClaims(tok))
      BY <2>1, OutcomeSound DEF Admitted
    <2>4. mode = "oidc" /\ GoodClaims(tok) => tok.key \in cache
      BY <1>3, <1>4 DEF NeedsKeys, GoodClaims
    <2> QED BY <1>1, <1>2, <2>2, <2>3, <2>4 DEF tok, keys
  <1>5. CASE ~InTime(tok.exp)
    <2>1. rec.status = "expired"
      BY <1>3, <1>5
    <2>2. tok.exp <= rec.at
      BY <1>2, <1>5 DEF InTime
    <2> QED BY <2>1, <2>2 DEF tok, Admitted
  <1> QED BY <1>4, <1>5

(* What an arriving request makes of the history.                            *)
LEMMA ArriveNotes ==
  ASSUME Inductive, NEW q \in Requests, NEW rec \in Request, Becomes(q, rec)
  PROVE  /\ refused \subseteq refused'
         /\ \A t \in refused' \ refused : /\ t \in DOMAIN token /\ Steady(t)
                                          /\ ~GoodClaims(token[t])
         /\ newest' = newest \/ (newest' \in cache /\ newest' > newest)
         /\ rec.pc = "done" /\ rec.token # None /\ Admitted(rec.status)
              => token[rec.token].key >= newest
  <1> DEFINE answers == [request EXCEPT ![q] = rec]
             k == IF rec.token \in DOMAIN token THEN token[rec.token].key ELSE 0
  <1>1. answers[q] = rec /\ \A p \in Requests \ {q} : answers[p] = request[p]
    BY DEF Inductive, TypeOK
  <1>2. AnsweredBy(answers) \subseteq {q}
    BY <1>1 DEF AnsweredBy
  <1>3. rec.token \in DOMAIN token \/ rec.token = None
    BY DEF Becomes, NeedsNoToken
  <1>4. k \in Nat
    <2>1. CASE rec.token \in DOMAIN token
      <3>1. token[rec.token].key \in Keys \cup {Secret}
        BY <2>1 DEF Inductive, TokensSigned, Signed, Token
      <3> QED BY <2>1, <3>1, KeysArePositive DEF Secret
    <2>2. CASE rec.token \notin DOMAIN token
      BY <2>2
    <2> QED BY <2>1, <2>2
  <1>5. Note(answers) /\ TypeOK
    BY DEF Becomes, Inductive
  <1>6. q \in AnsweredBy(answers) => rec.pc = "done" /\ rec.token # None
    BY <1>1 DEF AnsweredBy
  <1>7. rec.token # None => k = token[rec.token].key
    BY <1>3
  <1> HIDE DEF answers, k
  <1>8. /\ refused \subseteq refused'
        /\ \A t \in refused' \ refused : /\ t \in DOMAIN token /\ Steady(t)
             /\ \E p \in AnsweredBy(answers) : /\ answers[p].token = t
                                               /\ answers[p].status = "unauthorized"
        /\ newest' \in {newest, k} /\ newest' >= newest
        /\ newest' # newest => /\ newest' = k
             /\ \E p \in AnsweredBy(answers) : Admitted(answers[p].status)
    <2>1. \A p \in AnsweredBy(answers) :
            Admitted(answers[p].status) => token[answers[p].token].key = k
      BY <1>1, <1>2, <1>6, <1>7
    <2> QED BY <1>4, <1>5, <2>1, NoteEffect
  <1>9. ASSUME rec.pc = "done", rec.token # None
        PROVE  /\ Admitted(rec.status) => k \in cache \/ (mode = "hmac" /\ k = Secret)
               /\ rec.status = "unauthorized" =>
                    ~(Steady(rec.token) /\ GoodClaims(token[rec.token]))
    <2>1. rec.token \in DOMAIN token /\ rec.at = now /\ AnsweredAtOnce(rec)
      BY <1>9 DEF Becomes, NeedsNoToken, WaitsForKeys
    <2> QED BY <1>7, <1>9, <2>1, AnsweredAtOnceSound
  <1>10. newest \in Nat /\ (mode = "hmac" => newest = 0) /\ \A j \in cache : j >= newest /\ j \in Nat
    <2>1. newest \in Keys \cup {NoKey} /\ cache \subseteq Keys
      BY DEF Inductive, TypeOK
    <2>2. newest \in Nat /\ \A j \in cache : j \in Nat
      BY <2>1, KeysArePositive
    <2> QED BY <2>2 DEF Inductive, IssuerSound, KeysInOrder, NoKey
  <1>11. \A t \in refused' \ refused : ~GoodClaims(token[t])
    BY <1>1, <1>2, <1>6, <1>8, <1>9
  <1>12. newest' = newest \/ (newest' \in cache /\ newest' > newest)
    <2> SUFFICES ASSUME newest' # newest PROVE newest' \in cache /\ newest' > newest
      OBVIOUS
    <2>1. newest' = k /\ k >= newest /\ k # newest /\ Admitted(rec.status)
          /\ rec.pc = "done" /\ rec.token # None
      BY <1>1, <1>2, <1>6, <1>8
    <2>2. k \in cache \/ (mode = "hmac" /\ k = Secret)
      BY <1>9, <2>1
    <2> QED BY <1>4, <1>10, <2>1, <2>2 DEF Secret
  <1>13. rec.pc = "done" /\ rec.token # None /\ Admitted(rec.status)
           => token[rec.token].key >= newest
    <2> SUFFICES ASSUME rec.pc = "done", rec.token # None, Admitted(rec.status)
                 PROVE  k >= newest
      BY <1>7
    <2> QED BY <1>9, <1>10 DEF Secret
  <1> QED BY <1>8, <1>11, <1>12, <1>13

(* Requests that have not moved stay sound when the tokens and the mode do,   *)
(* and refused tokens are only added.                                        *)
LEMMA RequestStays ==
  ASSUME Inductive, UNCHANGED <<mode, token>>, refused \subseteq refused',
         NEW p \in Requests, request'[p] = request[p]
  PROVE  /\ request'[p].token \in DOMAIN token \cup {None}
         /\ WaitsWell(request[p])' /\ AnsweredWell(request[p])' /\ RetriesWell(request[p])'
  <1>1. /\ request[p].token \in DOMAIN token \cup {None}
        /\ WaitsWell(request[p]) /\ AnsweredWell(request[p]) /\ RetriesWell(request[p])
    BY DEF Inductive, RequestsSound
  <1> QED BY <1>1 DEF WaitsWell, AnsweredWell, RetriesWell, GoodClaims

(* A request arrives.                                                        *)
LEMMA ArriveKeeps ==
  ASSUME Inductive, NEW q \in Requests, NEW rec \in Request, Becomes(q, rec)
  PROVE  Inductive'
  <1>1. /\ request' = [request EXCEPT ![q] = rec]
        /\ UNCHANGED <<mode, now, issuer, cmd, token, cache>>
        /\ rec.token \in DOMAIN token \cup {None}
    BY DEF Becomes, NeedsNoToken
  <1>2. request'[q] = rec /\ \A p \in Requests \ {q} : request'[p] = request[p]
    BY <1>1 DEF Inductive, TypeOK
  <1>3. /\ refused \subseteq refused'
        /\ \A t \in refused' \ refused : /\ t \in DOMAIN token /\ Steady(t)
                                         /\ ~GoodClaims(token[t])
        /\ newest' = newest \/ (newest' \in cache /\ newest' > newest)
    BY ArriveNotes
  <1>4. /\ fetch' \in [state: {"idle", "sent", "served"}, key: Keys \cup {NoKey}]
        /\ UNCHANGED fetch \/ (fetch'.state = "sent" /\ mode = "oidc")
    <2>1. fetch \in [state: {"idle", "sent", "served"}, key: Keys \cup {NoKey}]
      BY DEF Inductive, TypeOK
    <2>2. CASE UNCHANGED fetch
      BY <2>1, <2>2
    <2>3. CASE WaitsForKeys(rec)
      <3>1. mode = "oidc"
        BY <2>3 DEF WaitsForKeys, NeedsKeys
      <3>2. UNCHANGED fetch \/ fetch' = [fetch EXCEPT !.state = "sent"]
        BY <2>3 DEF WaitsForKeys
      <3>3. CASE fetch' = [fetch EXCEPT !.state = "sent"]
        BY <2>1, <3>1, <3>3
      <3> QED BY <2>2, <3>2, <3>3
    <2> QED BY <2>2, <2>3 DEF Becomes, NeedsNoToken, AnsweredAtOnce
  <1>5. TypeOK'
    <2>1. request' \in [Requests -> Request]
      BY <1>1 DEF Inductive, TypeOK
    <2>2. refused' \subseteq Tokens /\ newest' \in Keys \cup {NoKey}
      BY <1>3 DEF Inductive, TypeOK
    <2> QED BY <1>1, <1>4, <2>1, <2>2 DEF Inductive, TypeOK
  <1>6. IssuerSound' /\ TokensSigned'
    BY <1>1, <1>4 DEF Inductive, IssuerSound, TokensSigned, Signed
  <1>7. RefusedSteady'
    <2>1. ASSUME NEW t \in refused'
          PROVE  /\ t \in DOMAIN token /\ Steady(t)
                 /\ GoodClaims(token[t]) /\ fetch'.state = "served" => fetch'.key = issuer.key
      <3>1. CASE t \in refused
        BY <1>4, <3>1 DEF Inductive, RefusedSteady
      <3>2. CASE t \notin refused
        BY <1>3, <3>2
      <3> QED BY <3>1, <3>2
    <2> QED BY <1>1, <2>1 DEF RefusedSteady, Steady, GoodClaims
  <1>8. KeysInOrder'
    <2>1. newest' <= issuer.key /\ \A k \in cache : newest' <= k /\ k <= issuer.key
      <3>1. CASE newest' = newest
        BY <3>1 DEF Inductive, KeysInOrder
      <3>2. CASE newest' \in cache
        <4>1. \A k \in cache : k = newest'
          BY <3>2, OneKeyCached DEF Inductive
        <4>2. newest' \in Nat /\ newest' <= issuer.key
          BY <3>2, KeysArePositive DEF Inductive, TypeOK, KeysInOrder
        <4> QED BY <4>1, <4>2
      <3> QED BY <1>3, <3>1, <3>2
    <2>2. fetch'.state = "served" /\ fetch'.key # NoKey =>
            /\ newest' <= fetch'.key /\ fetch'.key <= issuer.key
            /\ \A k \in cache : k <= fetch'.key
      BY <1>3, <1>4 DEF Inductive, KeysInOrder
    <2> QED BY <1>1, <2>1, <2>2 DEF KeysInOrder
  <1>9. RequestsSound'
    <2>1. /\ WaitsWell(request[q])' /\ AnsweredWell(request[q])' /\ RetriesWell(request[q])'
      <3>1. CASE NeedsNoToken(rec)
        BY <1>2, <3>1 DEF NeedsNoToken, WaitsWell, AnsweredWell, RetriesWell
      <3>2. CASE rec.token \in DOMAIN token /\ rec.at = now /\ WaitsForKeys(rec)
                 /\ rec.retry = (rec.token \in refused)
        <4>1. /\ rec.pc = "keys" /\ rec.status = "none" /\ mode = "oidc"
              /\ rec.at <= token[rec.token].exp
          BY <3>2 DEF WaitsForKeys, NeedsKeys, InTime
        <4>2. rec.token # None
          BY <3>2, Constants DEF Inductive, TypeOK
        <4>3. rec.retry => rec.token \in refused'
          BY <1>3, <3>2
        <4> QED BY <1>1, <1>2, <4>1, <4>2, <4>3 DEF WaitsWell, AnsweredWell, RetriesWell
      <3>3. CASE rec.token \in DOMAIN token /\ rec.at = now /\ AnsweredAtOnce(rec)
                 /\ rec.retry = (rec.token \in refused)
        <4>1. /\ Admitted(rec.status) => /\ GoodClaims(token[rec.token])
                                         /\ rec.at <= token[rec.token].exp
              /\ rec.status = "handled" => token[rec.token].role \in Allowed(rec.route)
              /\ rec.status = "expired" => token[rec.token].exp <= rec.at
              /\ rec.status = "unauthorized" =>
                   ~(Steady(rec.token) /\ GoodClaims(token[rec.token]))
          BY <3>3, AnsweredAtOnceSound
        <4>2. rec.retry => Steady(rec.token)
          BY <3>3 DEF Inductive, RefusedSteady
        <4>3. rec.pc = "done"
          BY <3>3 DEF AnsweredAtOnce
        <4> QED BY <1>1, <1>2, <4>1, <4>2, <4>3
                DEF WaitsWell, AnsweredWell, RetriesWell, GoodClaims, Allowed
      <3> QED BY <3>1, <3>2, <3>3 DEF Becomes
    <2>2. ASSUME NEW p \in Requests
          PROVE  /\ request'[p].token \in DOMAIN token \cup {None}
                 /\ WaitsWell(request[p])' /\ AnsweredWell(request[p])' /\ RetriesWell(request[p])'
      <3>1. CASE p = q
        BY <1>1, <1>2, <2>1, <3>1
      <3>2. CASE p # q
        BY <1>1, <1>2, <1>3, <3>2, RequestStays
      <3> QED BY <3>1, <3>2
    <2> QED BY <1>1, <2>2 DEF RequestsSound
  <1> QED BY <1>5, <1>6, <1>7, <1>8, <1>9 DEF Inductive

(* What a waiting request becomes when the keys arrive.                      *)
Receives(p) ==
  LET tok == token[request[p].token]
      keys == {fetch.key} \ {NoKey}
  IN  /\ request'[p].pc = "done" /\ request'[p].token = request[p].token
      /\ request'[p].at = request[p].at /\ request'[p].retry = request[p].retry
      /\ request'[p].route = request[p].route
      /\ request'[p].status = Outcome(request[p], tok, keys)

(* ReceiveKeys answers the waiting requests, and no other.                   *)
LEMMA ReceiveEffect ==
  ASSUME Inductive, ReceiveKeys
  PROVE  /\ UNCHANGED <<mode, now, issuer, cmd, token>>
         /\ fetch.state = "served" /\ fetch' = Idle /\ mode # "hmac"
         /\ cache' = (IF fetch.key = NoKey THEN cache ELSE {fetch.key})
         /\ request' \in [Requests -> Request] /\ Note(request')
         /\ \A p \in Requests : IF request[p].pc = "keys" THEN Receives(p)
                                ELSE request'[p] = request[p]
  <1>1. /\ UNCHANGED <<mode, now, issuer, cmd, token>>
        /\ fetch.state = "served" /\ fetch' = Idle
        /\ cache' = (IF fetch.key = NoKey THEN cache ELSE {fetch.key})
        /\ Note(request')
        /\ request' = [q \in Requests |->
             IF request[q].pc # "keys" THEN request[q]
             ELSE [request[q] EXCEPT !.pc = "done",
                     !.status = Outcome(request[q], token[request[q].token], {fetch.key} \ {NoKey})]]
    BY Zenon DEF ReceiveKeys, issuing, KeysFetched
  <1>2. mode # "hmac"
    BY <1>1 DEF Inductive, IssuerSound
  <1>3. ASSUME NEW p \in Requests
        PROVE  /\ request'[p] \in Request
               /\ IF request[p].pc = "keys" THEN Receives(p) ELSE request'[p] = request[p]
    <2>1. request[p] \in Request
      BY DEF Inductive, TypeOK
    <2>2. CASE request[p].pc # "keys"
      BY <1>1, <2>1, <2>2
    <2>3. CASE request[p].pc = "keys"
      <3> DEFINE status == Outcome(request[p], token[request[p].token], {fetch.key} \ {NoKey})
      <3>1. request'[p] = [request[p] EXCEPT !.pc = "done", !.status = status]
        BY <1>1, <2>3
      <3>2. status \in Statuses
        BY OutcomeSound DEF Statuses
      <3> HIDE DEF status
      <3>3. /\ request'[p] \in Request /\ request'[p].pc = "done"
            /\ request'[p].token = request[p].token /\ request'[p].status = status
            /\ request'[p].at = request[p].at /\ request'[p].retry = request[p].retry
            /\ request'[p].route = request[p].route
        BY <2>1, <3>1, <3>2 DEF Request
      <3> QED BY <2>3, <3>3 DEF Receives, status
    <2> QED BY <2>2, <2>3
  <1>4. request' \in [Requests -> Request]
    BY <1>1, <1>3
  <1> QED BY <1>1, <1>2, <1>3, <1>4

(* What the arrival of keys makes of the history.                            *)
LEMMA ReceiveNotes ==
  ASSUME Inductive, ReceiveKeys
  PROVE  /\ refused \subseteq refused'
         /\ \A t \in refused' \ refused : t \in DOMAIN token /\ Steady(t)
         /\ newest' = newest \/ (newest' = fetch.key /\ fetch.key # NoKey)
         /\ \A p \in Requests :
              /\ request[p].pc # "done" /\ request'[p].pc = "done"
              /\ request'[p].token # None /\ Admitted(request'[p].status)
              => token[request'[p].token].key >= newest
  <1>1. /\ fetch.state = "served" /\ Note(request') /\ TypeOK
        /\ \A p \in Requests : IF request[p].pc = "keys" THEN Receives(p)
                               ELSE request'[p] = request[p]
    BY ReceiveEffect DEF Inductive
  <1>2. fetch.key \in Nat
    <2>1. fetch.key \in Keys \cup {NoKey}
      BY DEF Inductive, TypeOK
    <2> QED BY <2>1, KeysArePositive
  <1>3. ASSUME NEW p \in Requests, request[p].pc # "done", request'[p].pc = "done",
               Admitted(request'[p].status)
        PROVE  token[request'[p].token].key = fetch.key /\ fetch.key # NoKey
    <2>1. Receives(p)
      BY <1>1, <1>3
    <2>2. Outcome(request[p], token[request[p].token], {fetch.key} \ {NoKey}) # "unauthorized"
      BY <1>3, <2>1 DEF Receives, Admitted
    <2>3. token[request[p].token].key \in {fetch.key} \ {NoKey}
      BY <2>2, OutcomeSound
    <2> QED BY <2>1, <2>3 DEF Receives
  <1>4. /\ refused \subseteq refused'
        /\ \A t \in refused' \ refused : t \in DOMAIN token /\ Steady(t)
        /\ newest' \in {newest, fetch.key} /\ newest' >= newest
        /\ newest' # newest => /\ newest' = fetch.key
             /\ \E p \in AnsweredBy(request') : Admitted(request'[p].status)
    <2>1. \A p \in AnsweredBy(request') :
            Admitted(request'[p].status) => token[request'[p].token].key = fetch.key
      BY <1>3 DEF AnsweredBy
    <2> QED BY <1>1, <1>2, <2>1, NoteEffect
  <1>5. newest' # newest => fetch.key # NoKey
    BY <1>3, <1>4 DEF AnsweredBy
  <1>6. fetch.key # NoKey => fetch.key >= newest
    <2>1. newest \in Keys \cup {NoKey}
      BY DEF Inductive, TypeOK
    <2>2. newest \in Nat
      BY <2>1, KeysArePositive
    <2> QED BY <1>1, <1>2, <2>2 DEF Inductive, KeysInOrder
  <1> QED BY <1>3, <1>4, <1>5, <1>6

(* The keys arrive.                                                          *)
LEMMA ReceiveKeysKeeps == Inductive /\ ReceiveKeys => Inductive'
  <1> SUFFICES ASSUME Inductive, ReceiveKeys PROVE Inductive'
    OBVIOUS
  <1>1. /\ UNCHANGED <<mode, now, issuer, cmd, token>>
        /\ fetch.state = "served" /\ fetch' = Idle /\ mode # "hmac"
        /\ cache' = (IF fetch.key = NoKey THEN cache ELSE {fetch.key})
        /\ request' \in [Requests -> Request]
        /\ \A p \in Requests : IF request[p].pc = "keys" THEN Receives(p)
                               ELSE request'[p] = request[p]
    BY ReceiveEffect
  <1>2. /\ refused \subseteq refused'
        /\ \A t \in refused' \ refused : t \in DOMAIN token /\ Steady(t)
        /\ newest' = newest \/ (newest' = fetch.key /\ fetch.key # NoKey)
    BY ReceiveNotes
  <1>3. /\ fetch.key \in Keys \cup {NoKey} /\ newest \in Keys \cup {NoKey}
        /\ cache \subseteq Keys /\ Cardinality(cache) <= 1
        /\ refused \subseteq Tokens /\ DOMAIN token \subseteq Tokens
    BY DEF Inductive, TypeOK
  <1>4. fetch.key \in Nat /\ newest \in Nat
    BY <1>3, KeysArePositive
  <1>5. /\ fetch' \in [state: {"idle", "sent", "served"}, key: Keys \cup {NoKey}]
        /\ fetch'.state = "idle"
    BY <1>1 DEF Idle
  <1>6. cache' \subseteq Keys /\ Cardinality(cache') <= 1
    <2>1. CASE fetch.key = NoKey
      BY <1>1, <1>3, <2>1
    <2>2. CASE fetch.key # NoKey
      <3>1. cache' = {fetch.key} /\ fetch.key \in Keys
        BY <1>1, <1>3, <2>2
      <3>2. Cardinality({fetch.key}) = 1
        BY FS_Singleton
      <3>3. Cardinality(cache') = 1
        BY <3>1, <3>2
      <3> QED BY <3>1, <3>3
    <2> QED BY <2>1, <2>2
  <1>7. TypeOK'
    <2>1. refused' \subseteq Tokens /\ newest' \in Keys \cup {NoKey}
      BY <1>2, <1>3
    <2> QED BY <1>1, <1>5, <1>6, <2>1 DEF Inductive, TypeOK
  <1>8. IssuerSound' /\ TokensSigned'
    BY <1>1 DEF Inductive, IssuerSound, TokensSigned, Signed
  <1>9. RefusedSteady'
    <2>1. \A t \in refused' : t \in DOMAIN token /\ Steady(t)
      BY <1>2 DEF Inductive, RefusedSteady
    <2> QED BY <1>1, <1>5, <2>1 DEF RefusedSteady, Steady
  <1>10. KeysInOrder'
    <2>1. CASE fetch.key = NoKey
      <3>1. newest' = newest /\ cache' = cache
        BY <1>1, <1>2, <2>1
      <3> QED BY <1>1, <1>5, <3>1 DEF Inductive, KeysInOrder
    <2>2. CASE fetch.key # NoKey
      <3>1. cache' = {fetch.key} /\ newest <= fetch.key /\ fetch.key <= issuer.key
        BY <1>1, <2>2 DEF Inductive, KeysInOrder
      <3>2. newest' <= fetch.key
        BY <1>2, <1>4, <3>1
      <3>3. issuer.key \in Nat
        <4>1. issuer.key \in Keys \cup {NoKey}
          BY DEF Inductive, TypeOK
        <4> QED BY <4>1, KeysArePositive
      <3>4. newest' \in Nat
        BY <1>2, <1>4
      <3>5. newest' <= issuer.key
        BY <1>4, <3>1, <3>2, <3>3, <3>4
      <3> QED BY <1>1, <1>5, <3>1, <3>2, <3>5 DEF KeysInOrder
    <2> QED BY <2>1, <2>2
  <1>11. RequestsSound'
    <2>1. ASSUME NEW p \in Requests
          PROVE  /\ request'[p].token \in DOMAIN token \cup {None}
                 /\ WaitsWell(request[p])' /\ AnsweredWell(request[p])' /\ RetriesWell(request[p])'
      <3>1. CASE request[p].pc # "keys"
        BY <1>1, <1>2, <3>1, RequestStays
      <3>2. CASE request[p].pc = "keys"
        <4> DEFINE tok == token[request[p].token]
                   keys == {fetch.key} \ {NoKey}
        <4>1. /\ request[p].token \in DOMAIN token
              /\ WaitsWell(request[p]) /\ RetriesWell(request[p])
          BY <3>2 DEF Inductive, RequestsSound, WaitsWell
        <4>2. Receives(p)
          BY <1>1, <3>2
        <4>3. request'[p].status = Outcome(request[p], tok, keys)
          BY <4>2 DEF Receives
        <4> HIDE DEF tok, keys
        <4>4. /\ Outcome(request[p], tok, keys) # "expired"
              /\ Admitted(Outcome(request[p], tok, keys)) => GoodClaims(tok)
              /\ Outcome(request[p], tok, keys) = "handled" => tok.role \in Allowed(request[p].route)
              /\ tok.key \in keys /\ GoodClaims(tok) =>
                   Outcome(request[p], tok, keys) # "unauthorized"
          BY OutcomeSound DEF Admitted
        <4>5. request[p].retry /\ GoodClaims(tok) => tok.key \in keys
          <5> SUFFICES ASSUME request[p].retry, GoodClaims(tok) PROVE tok.key \in keys
            OBVIOUS
          <5>1. request[p].token \in refused
            BY <3>2, <4>1 DEF RetriesWell
          <5>2. Steady(request[p].token) /\ fetch.key = issuer.key
            BY <1>1, <5>1 DEF Inductive, RefusedSteady, tok
          <5>3. issuer.key # NoKey
            BY <5>2, KeysArePositive DEF Inductive, IssuerSound, Steady
          <5> QED BY <5>2, <5>3 DEF Steady, tok, keys
        <4>6. /\ request'[p].pc = "done" /\ request'[p].token = request[p].token
              /\ request'[p].at = request[p].at /\ request'[p].retry = request[p].retry
              /\ request'[p].route = request[p].route
          BY <4>2 DEF Receives
        <4>7. WaitsWell(request[p])' /\ RetriesWell(request[p])'
          BY <1>1, <4>3, <4>4, <4>5, <4>6 DEF WaitsWell, RetriesWell, GoodClaims, tok
        <4>8. request[p].at <= tok.exp
          BY <3>2, <4>1 DEF WaitsWell, tok
        <4>9. AnsweredWell(request[p])'
          BY <1>1, <4>3, <4>4, <4>6, <4>8 DEF AnsweredWell, GoodClaims, Allowed, tok
        <4> QED BY <4>1, <4>6, <4>7, <4>9
      <3> QED BY <3>1, <3>2
    <2> QED BY <1>1, <2>1 DEF RequestsSound
  <1> QED BY <1>7, <1>8, <1>9, <1>10, <1>11 DEF Inductive

----------------------------------------------------------------------------
(* Every step keeps the invariant.                                           *)
LEMMA NextInductive == Inductive /\ [Next]_vars => Inductive'
  <1> SUFFICES ASSUME Inductive, [Next]_vars PROVE Inductive'
    OBVIOUS
  <1>1. CASE UNCHANGED vars
    BY <1>1, ZenonT(30) DEF vars, Inductive, TypeOK, IssuerSound, TokensSigned, Signed, RequestsSound,
       WaitsWell, AnsweredWell, RetriesWell, GoodClaims, RefusedSteady, Steady, KeysInOrder
  <1>2. CASE Tick \/ New \/ StopIssuer
    BY <1>2, TickKeeps, NewKeeps, StopIssuerKeeps
  <1>3. ASSUME NEW t \in Tokens, RunToken(t) \/ IssueOIDCToken(t) \/ SignMapClaims(t)
        PROVE  Inductive'
    <2>1. TypeOK /\ IssuerSound
      BY DEF Inductive
    <2>2. Prints(t)
      BY <1>3, <2>1, RunTokenPrints, IssueOIDCTokenPrints, SignMapClaimsPrints
    <2> QED BY <2>2, PrintsKeeps
  <1>4. ASSUME NEW q \in Requests, Arrive(q) PROVE Inductive'
    BY <1>4, ArriveEffect, ArriveKeeps
  <1>5. CASE ServeKeys \/ ReceiveKeys \/ RestartAPI
    BY <1>5, ServeKeysKeeps, ReceiveKeysKeeps, RestartAPIKeeps
  <1> QED BY <1>1, <1>2, <1>3, <1>4, <1>5 DEF Next, WhileUp

(* The invariant is one: tokens say what was asked for, requests were         *)
(* answered by what their tokens say, and the keys last admitted, cached and  *)
(* fetched come in the order of the issuer's starts.                         *)
THEOREM AccessInductive == Spec => []Inductive
  BY InitInductive, NextInductive, PTL DEF Spec

(* The state of the API, the issuer and the commands stays well-formed: in    *)
(* particular every token printed lives longer than no time at all.          *)
THEOREM AccessTypes == Spec => []TypeOK
  <1>1. Inductive => TypeOK
    BY DEF Inductive
  <1> QED BY <1>1, AccessInductive, PTL

(* The handlers behind authenticate and authorize run only with the role     *)
(* that was asked of `cli token' or of the issuer.                           *)
THEOREM RequestsAreHandledAsAsked == Spec => []HandledAsAsked
  <1>1. Inductive => HandledAsAsked
    <2> SUFFICES ASSUME Inductive, NEW q \in Requests, Answered(q),
                        request[q].status = "handled"
                 PROVE  /\ Of(q).asked \in Roles
                        /\ request[q].route = "audit-events" => Of(q).asked = "platform-admin"
                        /\ Of(q).aud = "api" /\ Of(q).sub # ""
                        /\ (mode = "hmac") <=> (Of(q).key = Secret)
      BY DEF HandledAsAsked
    <2>1. request[q].token \in DOMAIN token /\ request[q].token # None /\ request[q].pc = "done"
      BY DEF Inductive, RequestsSound, Answered
    <2>2. GoodClaims(Of(q)) /\ Of(q).role \in Allowed(request[q].route)
      BY <2>1 DEF Inductive, RequestsSound, AnsweredWell, Admitted, Of
    <2>3. Signed(Of(q))
      BY <2>1 DEF Inductive, TokensSigned, Of
    <2>4. mode \in {"hmac", "oidc"}
      BY AccessAssumption DEF Inductive, TypeOK
    <2> QED BY <2>2, <2>3, <2>4 DEF GoodClaims, Allowed, Signed
  <1> QED BY <1>1, AccessInductive, PTL

(* Rounding to seconds and the comparisons of the two validators keep a      *)
(* token's lifetime, to within a second.                                     *)
THEOREM LifetimeIsKept == Spec => []LifetimeKept
  <1>1. Inductive => LifetimeKept
    <2> SUFFICES ASSUME Inductive, NEW q \in Requests, Answered(q)
                 PROVE  /\ Admitted(request[q].status) =>
                             request[q].at <= Of(q).born + Of(q).ttl
                        /\ request[q].status = "expired" =>
                             request[q].at + Second > Of(q).born + Of(q).ttl
      BY DEF LifetimeKept
    <2>1. request[q].token \in DOMAIN token /\ request[q].token # None /\ request[q].pc = "done"
      BY DEF Inductive, RequestsSound, Answered
    <2>2. /\ Admitted(request[q].status) => request[q].at <= Of(q).exp
          /\ request[q].status = "expired" => Of(q).exp <= request[q].at
      BY <2>1 DEF Inductive, RequestsSound, AnsweredWell, Of
    <2>3. /\ Of(q) \in Token /\ Of(q).ttl > 0 /\ Of(q).exp = Unix(Of(q).born + Of(q).ttl)
      BY <2>1 DEF Inductive, TokensSigned, Signed, Of
    <2>4. Of(q).born + Of(q).ttl \in Nat
      <3>1. Of(q).born \in 0 .. MaxTime /\ Of(q).ttl \in TTLs
        BY <2>3 DEF Token
      <3> QED BY <2>3, <3>1, TimesAdd
    <2>5. request[q].at \in Int /\ Second \in Int
      <3>1. request[q].at \in 0 .. MaxTime
        BY DEF Inductive, TypeOK, Request
      <3> QED BY <3>1, Constants
    <2> DEFINE end == Of(q).born + Of(q).ttl
               at == request[q].at
    <2>6. Unix(end) \in Nat /\ Unix(end) <= end /\ end < Unix(end) + Second
      BY <2>4, UnixWithin
    <2>7. /\ Admitted(request[q].status) => at <= Unix(end)
          /\ request[q].status = "expired" => Unix(end) <= at
      BY <2>2, <2>3
    <2>8. end \in Int /\ at \in Int /\ Second \in Int
      BY <2>4, <2>5
    <2> HIDE DEF end, at
    <2>9. /\ Admitted(request[q].status) => at <= end
          /\ request[q].status = "expired" => at + Second > end
      BY <2>6, <2>7, <2>8
    <2> QED BY <2>9 DEF end, at
  <1> QED BY <1>1, AccessInductive, PTL

(* A good token refused over a race for the keys is not refused again while   *)
(* the issuer stays up.                                                      *)
THEOREM RetriesAreAdmitted == Spec => []RetryAdmitted
  <1>1. Inductive => RetryAdmitted
    BY DEF Inductive, RequestsSound, RetriesWell, RetryAdmitted, Answered, Of
  <1> QED BY <1>1, AccessInductive, PTL

(* No request is admitted with a key older than one admitted before.         *)
THEOREM OldKeysAreForgotten == Spec => OldKeysForgotten
  <1> DEFINE Forgets == \A q \in Requests :
               request[q].pc # "done" /\ Answered(q)' /\ Admitted(request'[q].status)
                 => token[request'[q].token].key >= newest
  <1>1. Inductive /\ [Next]_vars => [Forgets]_vars
    <2> SUFFICES ASSUME Inductive, Next, NEW q \in Requests, request[q].pc # "done",
                        Answered(q)', Admitted(request'[q].status)
                 PROVE  token[request'[q].token].key >= newest
      OBVIOUS
    <2>1. /\ request'[q].pc = "done" /\ request'[q].token # None
          /\ request'[q].status # "none"
      BY DEF Answered
    <2>2. ASSUME NEW p \in Requests, Arrive(p)
          PROVE  token[request'[q].token].key >= newest
      <3>1. PICK rec \in Request : Becomes(p, rec)
        BY <2>2, ArriveEffect
      <3>2. request'[p] = rec /\ \A u \in Requests \ {p} : request'[u] = request[u]
        BY <3>1 DEF Becomes, Inductive, TypeOK
      <3>3. p = q
        BY <2>1, <3>2
      <3> QED BY <2>1, <3>1, <3>2, <3>3, ArriveNotes
    <2>3. CASE ReceiveKeys
      BY <2>1, <2>3, ReceiveNotes
    <2>4. CASE RestartAPI
      <3>1. request[q].pc = "keys"
        BY <2>1, <2>4 DEF RestartAPI
      <3>2. /\ request[q].status = "none" /\ request[q] \in Request
            /\ request'[q] = [request[q] EXCEPT !.pc = "done"]
        BY <2>4, <3>1 DEF RestartAPI, Inductive, RequestsSound, WaitsWell, TypeOK
      <3>3. request'[q].status = "none"
        BY <3>2 DEF Request
      <3> QED BY <2>1, <3>3
    <2>5. CASE StopIssuer
      <3>1. request[q] \in Request /\ request'[q] = [request[q] EXCEPT !.retry = FALSE]
        BY <2>5 DEF StopIssuer, Inductive, TypeOK
      <3>2. request'[q].pc = request[q].pc
        BY <3>1 DEF Request
      <3> QED BY <2>1, <3>2
    <2>6. CASE UNCHANGED request
      BY <2>1, <2>6
    <2> QED
      BY <2>2, <2>3, <2>4, <2>5, <2>6
      DEF Next, WhileUp, Tick, New, RunToken, IssueOIDCToken, SignMapClaims, ServeKeys, serving
  <1> QED BY <1>1, AccessInductive, PTL DEF Spec, OldKeysForgotten
=============================================================================
