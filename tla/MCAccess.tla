------------------------------- MODULE MCAccess -------------------------------
(* Instances of Access and AuditTrail for TLC.  Each start is a reachable     *)
(* state in which some of the tokens, requests and events are used up.        *)
EXTENDS AuditTrail, TLC

(* Every flag that matters, valid or not.                                   *)
ManyAsks == [role: Roles \cup {"other"}, sub: {"named", ""}, ttl: {1, 4}]
              \cup {[role |-> "engineer", sub |-> "named", ttl |-> 0]}

(* Claims the validator must refuse, one thing wrong with each.             *)
ManyClaims == {[role |-> "other", sub |-> "named", aud |-> "api"],
               [role |-> "engineer", sub |-> "", aud |-> "api"],
               [role |-> "engineer", sub |-> "named", aud |-> "elsewhere"]}

Healthy == [NewRequest("healthz", "good") EXCEPT !.pc = "done", !.status = "ok"]

(* One token and one request, of every kind; the issuer is about to start for *)
(* the last time.                                                             *)
EveryRequest ==
  /\ mode \in Modes
  /\ now = 0
  /\ issuer = [up |-> FALSE, key |-> IF mode = "oidc" THEN MaxKeys - 1 ELSE NoKey,
               ttl |-> DefaultTTL]
  /\ \E t \in Tokens : cmd = [u \in Tokens |-> IF u = t THEN NoCmd
                                                 ELSE [NoCmd EXCEPT !.pc = "failed"]]
  /\ \E q \in Requests, route \in Routes, input \in Inputs :
       request = [p \in Requests |-> IF p = q THEN NewRequest(route, input) ELSE Healthy]
  /\ token = << >> /\ cache = {} /\ fetch = Idle /\ refused = {} /\ newest = NoKey

(* Two commands that have found the issuer, which may restart twice, and      *)
(* three good requests in the last seconds.                                   *)
EveryKey ==
  /\ mode = "oidc"
  /\ now = MaxTime - 1
  /\ \E ttl \in Lifetimes : ttl > 0 /\ issuer = [up |-> TRUE, key |-> 1, ttl |-> ttl]
  /\ cmd = [t \in Tokens |-> [NoCmd EXCEPT !.pc = "discovered", !.role = "engineer"]]
  /\ request = [q \in Requests |-> NewRequest("services", "good")]
  /\ token = << >> /\ cache = {} /\ fetch = Idle /\ refused = {} /\ newest = NoKey

(* Nothing more is written.                                                  *)
NoEvents ==
  /\ event = [e \in Events |-> [pc |-> "failed", created |-> IF e \in Fast THEN Skew ELSE 0,
                                resource |-> CHOOSE r \in Resources : TRUE]]
  /\ stored = {} /\ list = [q \in Requests |-> NoList] /\ before = [e \in Events |-> {}]

(* An administrator's request has got through; events are about to be written.*)
EveryEvent ==
  LET admin == [role |-> "platform-admin", sub |-> "named", aud |-> "api", exp |-> Unix(4),
                key |-> Secret, born |-> 0, ttl |-> 4, asked |-> "platform-admin"]
      handled(t) == [NewRequest("audit-events", "good") EXCEPT
                       !.pc = "done", !.status = "handled", !.token = t]
  IN /\ mode = "hmac"
     /\ now = MaxTime - 2
     /\ issuer = [up |-> FALSE, key |-> NoKey, ttl |-> DefaultTTL]
     /\ \E t \in Tokens, q \in Requests :
          /\ cmd = [u \in Tokens |->
                     IF u = t THEN [pc |-> "printed", role |-> "platform-admin", sub |-> "named",
                                    ttl |-> 4]
                     ELSE [NoCmd EXCEPT !.pc = "failed"]]
          /\ token = (t :> admin)
          /\ request = [p \in Requests |-> IF p = q THEN handled(t) ELSE Healthy]
     /\ cache = {} /\ fetch = Idle /\ refused = {} /\ newest = NoKey
     /\ event \in [Events -> [pc: {"new"}, created: {0}, resource: Resources]]
     /\ stored = {} /\ list = [p \in Requests |-> NoList] /\ before = [e \in Events |-> {}]

MCInit == (EveryRequest /\ NoEvents) \/ (EveryKey /\ NoEvents) \/ EveryEvent

MCSpec == MCInit /\ [][AuditNext]_<<vars, trail>>

Symmetric == Permutations(Tokens) \cup Permutations(Requests)
=============================================================================
