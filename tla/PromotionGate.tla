--------------------------- MODULE PromotionGate ---------------------------
(***************************************************************************)
(* The promotion gate: deployment candidates are created pending, and       *)
(* POST /v1/deployment-candidates/{id}/evaluate decides them from the       *)
(* latest stored readiness snapshot, while service owners edit profiles and *)
(* workers store new snapshots (CreateDeploymentCandidate,                  *)
(* EvaluateDeploymentCandidate, SavePromotionDecision, and the part of      *)
(* ProcessServiceEvaluationJob that decides what a snapshot says).          *)
(*                                                                          *)
(* One action is one database call with the code around it.  "ok": it       *)
(* commits and is answered; "lost": it commits, the answer never arrives;   *)
(* "err": it does not commit.  A handler that dies ends like a failed one.  *)
(***************************************************************************)
EXTENDS Integers

CONSTANTS Candidates,   \* candidate ids, one per creating request
          Handlers,     \* evaluate requests
          Services,     \* registered services
          Evaluations,  \* evaluation attempts; each draws one snapshot id
          Skew,         \* [Evaluations -> Int]: clock of the attempt's worker
          MaxTime,      \* bound on the clock
          None          \* SQL NULL

ASSUME GateAssumption ==
  /\ Skew \in [Evaluations -> Int]
  /\ MaxTime \in Nat
  /\ None \notin Candidates \union Services \union Evaluations

VARIABLES now,         \* the clock
          evals,       \* evaluation attempts in flight
          snapshots,   \* readiness_snapshots
          creators,    \* control state of the creating requests
          candidates,  \* deployment_candidates, status "absent" before INSERT
          decisions,   \* promotion_decisions, at most one per candidate
          handlers,    \* control state of the evaluate requests
          audit,       \* the deployment_candidate.* events
          basis        \* history: snapshots stored when the deciding request came

vars == <<now, evals, snapshots, creators, candidates, decisions, handlers,
          audit, basis>>

----------------------------------------------------------------------------
States == {"ready", "degraded", "blocked"}

Snapshot == [id : Evaluations, service : Services, state : States, evaluatedAt : Int]

Evaluation == [pc : {"new", "read", "stamped", "done"}, service : Services \union {None},
               state : States \union {None}, at : Int]

Status == {"pending", "approved", "rejected"}

Candidate == [status : Status \union {"absent"}, service : Services \union {None},
              snapshot : Evaluations \union {None}]

NoCandidate == [status |-> "absent", service |-> None, snapshot |-> None]

Decision == [decision : {"approved", "rejected"}, snapshot : Evaluations \union {None}]

\* NULL is no row.
ASSUME NoneIsNoDecision == None \notin Decision

Handler == [pc : {"new", "snapshot", "save", "reload", "audit", "ok",
                  "not_found", "conflict", "error"},
            candidate : Candidates \union {None}, service : Services \union {None},
            status : Status \union {None}, evidence : Evaluations \union {None},
            known : SUBSET Snapshot]

NewHandler == [pc |-> "new", candidate |-> None, service |-> None, status |-> None,
               evidence |-> None, known |-> {}]

Event == [type : {"created", "evaluated"}, candidate : Candidates,
          decision : Status \union {None}, request : Handlers \union {None}]

TypeOK ==
  /\ now \in 0..MaxTime
  /\ evals \in [Evaluations -> Evaluation]
  /\ snapshots \in SUBSET Snapshot
  /\ creators \in [Candidates -> {"new", "insert", "reload", "audit", "created", "error"}]
  /\ candidates \in [Candidates -> Candidate]
  /\ decisions \in [Candidates -> Decision \union {None}]
  /\ handlers \in [Handlers -> Handler]
  /\ audit \in SUBSET Event
  /\ basis \in [Candidates -> SUBSET Snapshot]

Init ==
  /\ now = 0
  /\ evals = [e \in Evaluations |-> [pc |-> "new", service |-> None, state |-> None, at |-> 0]]
  /\ snapshots = {}
  /\ creators = [c \in Candidates |-> "new"]
  /\ candidates = [c \in Candidates |-> NoCandidate]
  /\ decisions = [c \in Candidates |-> None]
  /\ handlers = [h \in Handlers |-> NewHandler]
  /\ audit = {}
  /\ basis = [c \in Candidates |-> {}]

Outcomes == {"ok", "lost", "err"}
Commits(out) == out \in {"ok", "lost"}
gate == <<creators, candidates, decisions, handlers, audit, basis>>
evidence == <<now, evals, snapshots>>

----------------------------------------------------------------------------
(* The evidence: workers evaluate services.                                *)

(* GetService of ProcessServiceEvaluationJob.  Owners patch services all the *)
(* while: Evaluate may find any state in what is read.                       *)
ReadService(e) ==
  /\ evals[e].pc = "new"
  /\ \E s \in Services, state \in States :
       evals' = [evals EXCEPT ![e] = [pc |-> "read", service |-> s, state |-> state, at |-> 0]]
  /\ UNCHANGED <<now, snapshots, gate>>

(* Evaluate(service, job.ID, c.now()): evaluated_at is read after the       *)
(* service, by the worker's clock.                                          *)
StampEvaluation(e) ==
  /\ evals[e].pc = "read"
  /\ evals' = [evals EXCEPT ![e].pc = "stamped", ![e].at = now + Skew[e]]
  /\ UNCHANGED <<now, snapshots, gate>>

(* SaveReadinessEvaluation, which may fail.                                *)
SaveReadinessEvaluation(e) ==
  /\ evals[e].pc = "stamped"
  /\ evals' = [evals EXCEPT ![e].pc = "done"]
  /\ \E out \in Outcomes :
       snapshots' = IF Commits(out)
                    THEN snapshots \union {[id |-> e, service |-> evals[e].service,
                                            state |-> evals[e].state,
                                            evaluatedAt |-> evals[e].at]}
                    ELSE snapshots
  /\ UNCHANGED <<now, gate>>

Tick ==
  /\ now < MaxTime
  /\ now' = now + 1
  /\ UNCHANGED <<evals, snapshots, gate>>

----------------------------------------------------------------------------
(* POST /v1/deployment-candidates, CreateDeploymentCandidate.              *)

(* Validate, the rule that an engineer requests in its own name, and        *)
(* GetService: any of them may turn the request away.                       *)
AdmitCandidate(c) ==
  /\ creators[c] = "new"
  /\ \E valid, engineer, ownName, found \in BOOLEAN :
       creators' = [creators EXCEPT ![c] =
                      IF valid /\ (engineer => ownName) /\ found THEN "insert" ELSE "error"]
  /\ UNCHANGED <<evidence, candidates, decisions, handlers, audit, basis>>

InsertCandidate(c) ==
  /\ creators[c] = "insert"
  /\ \E s \in Services, out \in Outcomes :
       /\ candidates' = IF Commits(out)
                        THEN [candidates EXCEPT ![c] = [status |-> "pending", service |-> s,
                                                        snapshot |-> None]]
                        ELSE candidates
       /\ creators' = [creators EXCEPT ![c] = IF out = "ok" THEN "reload" ELSE "error"]
  /\ UNCHANGED <<evidence, decisions, handlers, audit, basis>>

ReloadCreated(c) ==
  /\ creators[c] = "reload"
  /\ \E out \in {"ok", "err"} :
       creators' = [creators EXCEPT ![c] = IF out = "ok" THEN "audit" ELSE "error"]
  /\ UNCHANGED <<evidence, candidates, decisions, handlers, audit, basis>>

AuditCreated(c) ==
  /\ creators[c] = "audit"
  /\ \E out \in Outcomes :
       /\ audit' = IF Commits(out)
                   THEN audit \union {[type |-> "created", candidate |-> c,
                                       decision |-> None, request |-> None]}
                   ELSE audit
       /\ creators' = [creators EXCEPT ![c] = IF out = "ok" THEN "created" ELSE "error"]
  /\ UNCHANGED <<evidence, candidates, decisions, handlers, basis>>

----------------------------------------------------------------------------
(* POST /v1/deployment-candidates/{candidateID}/evaluate.                  *)

(* GetDeploymentCandidate and the check that the candidate is pending.     *)
LoadCandidate(h) ==
  /\ handlers[h].pc = "new"
  /\ \E c \in Candidates, out \in {"ok", "err"} :
       handlers' = [handlers EXCEPT ![h] =
         [pc |-> IF out = "err" THEN "error"
                 ELSE CASE candidates[c].status = "absent"  -> "not_found"
                        [] candidates[c].status = "pending" -> "snapshot"
                        [] OTHER                            -> "conflict",
          candidate |-> c, service |-> candidates[c].service, status |-> None,
          evidence |-> None, known |-> snapshots]]
  /\ UNCHANGED <<evidence, creators, candidates, decisions, audit, basis>>

\* Faulty: ORDER BY evaluated_at without DESC.
EarliestSnapshots(svc) ==
  {s \in snapshots : s.service = svc /\
     \A t \in snapshots : t.service = svc => s.evaluatedAt <= t.evaluatedAt}

\* Faulty: no WHERE service_id.
LatestOfAnyService(svc) ==
  {s \in snapshots : \A t \in snapshots : t.evaluatedAt <= s.evaluatedAt}

\* ORDER BY evaluated_at DESC LIMIT 1; the order of equal times is open.
LatestSnapshots(svc) ==
  {s \in snapshots : s.service = svc /\
     \A t \in snapshots : t.service = svc => t.evaluatedAt <= s.evaluatedAt}

\* Fault: only a blocked service is turned away.
VerdictButBlocked(state) == IF state = "blocked" THEN "rejected" ELSE "approved"

Verdict(state) == IF state = "ready" THEN "approved" ELSE "rejected"

(* GetLatestSnapshot and the decision: none means rejected without          *)
(* evidence, any other error ends the request.                              *)
GetLatestSnapshot(h) ==
  LET latest == LatestSnapshots(handlers[h].service)
      Decide(status, id) == handlers' = [handlers EXCEPT ![h].pc = "save", ![h].status = status,
                                                         ![h].evidence = id]
  IN  /\ handlers[h].pc = "snapshot"
      /\ \/ latest = {} /\ Decide("rejected", None)
         \/ \E s \in latest : Decide(Verdict(s.state), s.id)
         \/ handlers' = [handlers EXCEPT ![h].pc = "error"]
      /\ UNCHANGED <<evidence, creators, candidates, decisions, audit, basis>>

\* Faulty: the UPDATE has no "AND status = 'pending'".
AnyStatus(c) == candidates[c].status # "absent"

\* The WHERE clause of the UPDATE in SavePromotionDecision.
StillPending(c) == candidates[c].status = "pending"

Decided(h) ==
  [candidates[handlers[h].candidate] EXCEPT !.status = handlers[h].status,
                                            !.snapshot = handlers[h].evidence]

(* SavePromotionDecision: one transaction updates the candidate if it is    *)
(* still pending and upserts the decision; no row updated is a conflict.    *)
SavePromotionDecision(h) ==
  LET c == handlers[h].candidate
  IN  /\ handlers[h].pc = "save"
      /\ \E out \in Outcomes :
           /\ IF Commits(out) /\ StillPending(c)
              THEN /\ candidates' = [candidates EXCEPT ![c] = Decided(h)]
                   /\ decisions' = [decisions EXCEPT ![c] =
                                      [decision |-> handlers[h].status,
                                       snapshot |-> handlers[h].evidence]]
                   /\ basis' = [basis EXCEPT ![c] = handlers[h].known]
              ELSE UNCHANGED <<candidates, decisions, basis>>
           /\ handlers' = [handlers EXCEPT ![h].pc =
                IF out # "ok" THEN "error"
                ELSE IF StillPending(c) THEN "reload" ELSE "conflict"]
      /\ UNCHANGED <<evidence, creators, audit>>

(* The committed candidate is read back; the audit event reports that row.  *)
ReloadDecided(h) ==
  /\ handlers[h].pc = "reload"
  /\ \E out \in {"ok", "err"} :
       handlers' = IF out = "ok"
                   THEN [handlers EXCEPT ![h].pc = "audit",
                                         ![h].status = candidates[handlers[h].candidate].status]
                   ELSE [handlers EXCEPT ![h].pc = "error"]
  /\ UNCHANGED <<evidence, creators, candidates, decisions, audit, basis>>

EvaluatedEvent(h) ==
  [type |-> "evaluated", candidate |-> handlers[h].candidate,
   decision |-> handlers[h].status, request |-> h]

AuditDecided(h) ==
  /\ handlers[h].pc = "audit"
  /\ \E out \in Outcomes :
       /\ audit' = IF Commits(out) THEN audit \union {EvaluatedEvent(h)} ELSE audit
       /\ handlers' = [handlers EXCEPT ![h].pc = IF out = "ok" THEN "ok" ELSE "error"]
  /\ UNCHANGED <<evidence, creators, candidates, decisions, basis>>

----------------------------------------------------------------------------
Evaluate(e) == ReadService(e) \/ StampEvaluation(e) \/ SaveReadinessEvaluation(e)

Create(c) == AdmitCandidate(c) \/ InsertCandidate(c) \/ ReloadCreated(c) \/ AuditCreated(c)

Handle(h) ==
  \/ LoadCandidate(h)
  \/ GetLatestSnapshot(h)
  \/ SavePromotionDecision(h)
  \/ ReloadDecided(h)
  \/ AuditDecided(h)

Next ==
  \/ \E e \in Evaluations : Evaluate(e)
  \/ \E c \in Candidates : Create(c)
  \/ \E h \in Handlers : Handle(h)
  \/ Tick

Spec == Init /\ [][Next]_vars

----------------------------------------------------------------------------
(* Properties.                                                             *)

\* CandidateStatus.CanTransitionTo, which no other code calls.
CanTransitionTo(status, next) ==
  status = "pending" /\ next \in {"approved", "rejected"}

(* The stored status only moves along domain.CanTransitionTo, and decision, *)
(* evidence and status are never rewritten: two evaluate requests that both *)
(* loaded the candidate as pending cannot both decide it.                   *)
DecidedOnce ==
  [][\A c \in Candidates :
       /\ candidates[c].status # "absent" /\ candidates'[c].status # candidates[c].status
            => CanTransitionTo(candidates[c].status, candidates'[c].status)
       /\ decisions[c] # None => decisions'[c] = decisions[c] /\ candidates'[c] = candidates[c]]_vars

(* The two tables tell the same story: a candidate is decided exactly when  *)
(* it has a decision row, with the same verdict and the same snapshot.      *)
DecisionRecorded ==
  \A c \in Candidates :
    IF decisions[c] = None
    THEN candidates[c].status \in {"absent", "pending"} /\ candidates[c].snapshot = None
    ELSE /\ candidates[c].status = decisions[c].decision
         /\ candidates[c].snapshot = decisions[c].snapshot

(* An approval rests on a stored snapshot of the candidate's own service    *)
(* that says ready, and a rejection never does.                             *)
VerdictHasEvidence ==
  \A c \in Candidates : decisions[c] # None =>
    (decisions[c].decision = "approved") =
       (\E s \in snapshots : /\ s.id = decisions[c].snapshot
                             /\ s.service = candidates[c].service
                             /\ s.state = "ready")

(* A decision is at least as fresh as its request: no snapshot that was     *)
(* stored when the evaluate request arrived is newer, by evaluated_at, than *)
(* the one the decision rests on, and none is missed.                       *)
FreshAsOfRequest ==
  \A c \in Candidates : decisions[c] # None =>
    \A s \in basis[c] : s.service = candidates[c].service =>
      \E t \in snapshots : t.id = decisions[c].snapshot /\ s.evaluatedAt <= t.evaluatedAt

(* The audit trail has at most one evaluation per candidate, it reports the *)
(* stored decision, and a request answered 200 has left it.                 *)
DecisionAudited ==
  /\ \A x \in audit : x.type = "evaluated" =>
       /\ decisions[x.candidate] # None
       /\ x.decision = decisions[x.candidate].decision
       /\ \A y \in audit : y.type = "evaluated" /\ y.candidate = x.candidate => x = y
  /\ \A h \in Handlers : handlers[h].pc = "ok" => EvaluatedEvent(h) \in audit

(* In every state the gate's tables have their types, agree with each other *)
(* and rest on evidence of the right service, whichever calls of whichever  *)
(* requests have failed or lost their answers so far.                       *)
DecisionsSound == TypeOK /\ DecisionRecorded /\ VerdictHasEvidence

\* The gate as its abstraction sees it: snapshots without their times,
\* candidates with the snapshot their decision names.
Abstract ==
  INSTANCE Promotion WITH
    Sources <- Evaluations,
    facts <- {[id |-> s.id, service |-> s.service, state |-> s.state] : s \in snapshots},
    docket <- [c \in Candidates |->
                 [status |-> candidates[c].status, service |-> candidates[c].service,
                  evidence |-> IF decisions[c] = None THEN None ELSE decisions[c].snapshot]]

(* However the calls of racing evaluate requests interleave, fail or lose   *)
(* their answers, a candidate is ruled on as if in one act, from evidence   *)
(* that is stored when the ruling is, and evidence is never altered.        *)
ImplementsPromotion == Abstract!Spec

(* README.md:117 "deployment approval is derived from the latest stored     *)
(* readiness evidence": the snapshot of an approval is the latest one       *)
(* stored when the approval is.                                             *)
ApprovalUsesLatestEvidence ==
  [][\A c \in Candidates :
       candidates[c].status = "pending" /\ candidates'[c].status = "approved" =>
         \E s \in LatestSnapshots(candidates[c].service) : s.id = candidates'[c].snapshot]_vars
============================================================================
