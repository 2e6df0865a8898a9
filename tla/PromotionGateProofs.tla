------------------------ MODULE PromotionGateProofs ------------------------
(***************************************************************************)
(* Proofs about PromotionGate, for any number of candidates, requests,      *)
(* services and evaluations and any clocks.  What a request is about to     *)
(* save rests on stored evidence of its own service (Rests), and that does  *)
(* not change while other requests and workers go on: snapshots are only    *)
(* ever added, each with an id of its own.                                  *)
(***************************************************************************)
EXTENDS PromotionGate, TLAPS

USE DEF Outcomes, Commits, gate, evidence

(* The verdict status about service svc rests on the snapshot id: it is the  *)
(* verdict of that stored snapshot, which is of this service and not older   *)
(* than those in known; or there is none, and nothing in known is about svc. *)
Rests(id, svc, status, known) ==
  \/ /\ id = None /\ status = "rejected"
     /\ \A s \in known : s.service # svc
  \/ \E t \in snapshots :
       /\ t.id = id /\ t.service = svc /\ status = Verdict(t.state)
       /\ \A s \in known : s.service = svc => s.evaluatedAt <= t.evaluatedAt

(* Snapshots are told apart by their ids, and an evaluation that is not over *)
(* has stored none.                                                          *)
SnapshotShape ==
  /\ \A s, t \in snapshots : s.id = t.id => s = t
  /\ \A s \in snapshots : evals[s.id].pc = "done"
  /\ \A e \in Evaluations : evals[e].pc \in {"read", "stamped"} =>
       evals[e].service \in Services /\ evals[e].state \in States

(* A service with snapshots has a latest one: so many are never stored that  *)
(* none of them is.                                                          *)
LatestExists == \A s \in snapshots : LatestSnapshots(s.service) # {}

(* A row appears with the INSERT, for a registered service.                 *)
CandidateShape ==
  \A c \in Candidates :
    /\ creators[c] \in {"new", "insert"} => candidates[c].status = "absent"
    /\ candidates[c].status # "absent" => candidates[c].service \in Services

Deciding == {"snapshot", "save", "reload", "audit", "ok"}

(* What a request knows of its candidate is still so.                        *)
HandlerShape ==
  \A h \in Handlers :
    /\ handlers[h].pc \in Deciding =>
         /\ handlers[h].candidate \in Candidates
         /\ candidates[handlers[h].candidate].status # "absent"
         /\ handlers[h].service = candidates[handlers[h].candidate].service
    /\ handlers[h].pc \in {"snapshot", "save"} => handlers[h].known \subseteq snapshots
    /\ handlers[h].pc = "save" =>
         Rests(handlers[h].evidence, handlers[h].service, handlers[h].status, handlers[h].known)

(* What a decision was made on is still there.                              *)
DecisionRests ==
  \A c \in Candidates : decisions[c] # None =>
    Rests(decisions[c].snapshot, candidates[c].service, decisions[c].decision, basis[c])

Reporting == {"reload", "audit"}

(* The request whose UPDATE found the row pending is the only one to report  *)
(* the decision, and has not reported it yet.                                *)
ReporterAlone ==
  \A h \in Handlers : handlers[h].pc \in Reporting =>
    /\ decisions[handlers[h].candidate] # None
    /\ handlers[h].pc = "audit" =>
         handlers[h].status = decisions[handlers[h].candidate].decision
    /\ \A x \in audit : x.type = "evaluated" => x.candidate # handlers[h].candidate
    /\ \A g \in Handlers :
         handlers[g].pc \in Reporting /\ handlers[g].candidate = handlers[h].candidate => g = h

Evidence == SnapshotShape /\ LatestExists /\ HandlerShape /\ DecisionRests

(* Everything together is kept by every step.                               *)
Inductive ==
  TypeOK /\ CandidateShape /\ DecisionRecorded /\ Evidence /\ DecisionAudited /\ ReporterAlone

----------------------------------------------------------------------------
(* Init satisfies the invariant.                                            *)
LEMMA InitInductive == Init => Inductive
<1> SUFFICES ASSUME Init PROVE Inductive
  OBVIOUS
<1> USE GateAssumption DEF Init, NewHandler, NoCandidate
<1>1. TypeOK
  BY DEF TypeOK, Evaluation, Candidate, Handler, Status
<1>2. CandidateShape /\ DecisionRecorded
  BY DEF CandidateShape, DecisionRecorded
<1>3. Evidence
  BY DEF Evidence, SnapshotShape, LatestExists, HandlerShape, DecisionRests, Deciding
<1>4. DecisionAudited /\ ReporterAlone
  BY DEF DecisionAudited, ReporterAlone, Reporting
<1> QED BY <1>1, <1>2, <1>3, <1>4 DEF Inductive

(* What loading the candidate makes of a request's record.                  *)
Loaded(c, pc) ==
  [pc |-> pc, candidate |-> c, service |-> candidates[c].service, status |-> None,
   evidence |-> None, known |-> snapshots]

(* LoadCandidate goes on to the snapshot only for a pending candidate.       *)
LEMMA LoadEffect ==
  ASSUME NEW h \in Handlers, LoadCandidate(h)
  PROVE  \E c \in Candidates : \E pc \in {"error", "not_found", "snapshot", "conflict"} :
           /\ handlers' = [handlers EXCEPT ![h] = Loaded(c, pc)]
           /\ pc = "snapshot" => candidates[c].status = "pending"
<1>1. PICK c \in Candidates, out \in {"ok", "err"} :
        handlers' = [handlers EXCEPT ![h] = Loaded(c,
          IF out = "err" THEN "error"
          ELSE CASE candidates[c].status = "absent"  -> "not_found"
                 [] candidates[c].status = "pending" -> "snapshot"
                 [] OTHER                            -> "conflict")]
  BY DEF LoadCandidate, Loaded
<1> QED BY <1>1

(* What the calls of an evaluate request do to its record.                  *)
LEMMA HandlerEffect ==
  ASSUME TypeOK, HandlerShape, NEW h \in Handlers, Handle(h)
  PROVE  /\ handlers' \in [Handlers -> Handler]
         /\ \A g \in Handlers \ {h} : handlers'[g] = handlers[g]
<1> USE GateAssumption DEF TypeOK
<1>0. handlers[h] \in Handler
  OBVIOUS
<1>1. CASE LoadCandidate(h)
  <2>1. PICK c \in Candidates, pc \in {"error", "not_found", "snapshot", "conflict"} :
          handlers' = [handlers EXCEPT ![h] = Loaded(c, pc)]
    BY <1>1, LoadEffect
  <2>2. Loaded(c, pc) \in Handler
    BY DEF Loaded, Handler, Candidate
  <2> QED BY <2>1, <2>2
<1>2. CASE GetLatestSnapshot(h)
  <2>1. \/ \E status \in {"approved", "rejected"}, id \in Evaluations \union {None} :
             handlers' = [handlers EXCEPT ![h].pc = "save", ![h].status = status,
                                          ![h].evidence = id]
        \/ handlers' = [handlers EXCEPT ![h].pc = "error"]
    BY <1>2 DEF GetLatestSnapshot, LatestSnapshots, Verdict, Snapshot
  <2> QED BY <1>0, <2>1 DEF Handler, Status
<1>3. CASE SavePromotionDecision(h)
  BY <1>0, <1>3 DEF SavePromotionDecision, Handler
<1>4. CASE ReloadDecided(h)
  <2>1. \/ \E status \in Status :
             handlers' = [handlers EXCEPT ![h].pc = "audit", ![h].status = status]
        \/ handlers' = [handlers EXCEPT ![h].pc = "error"]
    BY <1>4 DEF ReloadDecided, Candidate, HandlerShape, Deciding
  <2> QED BY <1>0, <2>1 DEF Handler, Status
<1>5. CASE AuditDecided(h)
  BY <1>0, <1>5 DEF AuditDecided, Handler
<1> QED BY <1>1, <1>2, <1>3, <1>4, <1>5 DEF Handle

(* Every step keeps the types.                                              *)
LEMMA TypeStep ==
  ASSUME TypeOK, SnapshotShape, CandidateShape, HandlerShape, [Next]_vars
  PROVE  TypeOK'
<1> USE GateAssumption DEF TypeOK
<1>1. ASSUME NEW e \in Evaluations, Evaluate(e) PROVE TypeOK'
  <2>0. evals[e] \in Evaluation
    OBVIOUS
  <2>1. CASE ReadService(e)
    BY <2>1 DEF ReadService, Evaluation
  <2>2. CASE StampEvaluation(e)
    <3>1. now + Skew[e] \in Int
      OBVIOUS
    <3> QED BY <2>0, <2>2, <3>1 DEF StampEvaluation, Evaluation
  <2>3. CASE SaveReadinessEvaluation(e)
    <3>1. evals' \in [Evaluations -> Evaluation]
      BY <2>0, <2>3 DEF SaveReadinessEvaluation, Evaluation
    <3>2. [id |-> e, service |-> evals[e].service, state |-> evals[e].state,
           evaluatedAt |-> evals[e].at] \in Snapshot
      BY <2>0, <2>3 DEF SaveReadinessEvaluation, Evaluation, Snapshot, SnapshotShape
    <3>3. snapshots' \in SUBSET Snapshot
      BY <2>3, <3>2 DEF SaveReadinessEvaluation
    <3> QED BY <2>3, <3>1, <3>3 DEF SaveReadinessEvaluation
  <2> QED BY <1>1, <2>1, <2>2, <2>3 DEF Evaluate
<1>2. ASSUME NEW c \in Candidates, Create(c) PROVE TypeOK'
  <2>1. CASE AdmitCandidate(c)
    BY <2>1 DEF AdmitCandidate
  <2>2. CASE InsertCandidate(c)
    BY <2>2 DEF InsertCandidate, Candidate, Status
  <2>3. CASE ReloadCreated(c)
    BY <2>3 DEF ReloadCreated
  <2>4. CASE AuditCreated(c)
    BY <2>4 DEF AuditCreated, Event
  <2> QED BY <1>2, <2>1, <2>2, <2>3, <2>4 DEF Create
<1>3. ASSUME NEW h \in Handlers, Handle(h) PROVE TypeOK'
  <2>0. handlers[h] \in Handler /\ handlers' \in [Handlers -> Handler]
    BY <1>3, HandlerEffect
  <2>1. CASE LoadCandidate(h) \/ GetLatestSnapshot(h) \/ ReloadDecided(h)
    BY <2>0, <2>1 DEF LoadCandidate, GetLatestSnapshot, ReloadDecided
  <2>2. CASE SavePromotionDecision(h)
    <3> DEFINE c == handlers[h].candidate
    <3>1. /\ c \in Candidates /\ handlers[h].status \in {"approved", "rejected"}
          /\ handlers[h].evidence \in Evaluations \union {None}
          /\ handlers[h].known \in SUBSET Snapshot
      BY <2>0, <2>2 DEF SavePromotionDecision, HandlerShape, Deciding, Rests, Verdict, Handler
    <3>2. candidates[c] \in Candidate
      BY <3>1
    <3>3. Decided(h) \in Candidate
      BY <3>1, <3>2 DEF Decided, Candidate, Status
    <3>4. [decision |-> handlers[h].status, snapshot |-> handlers[h].evidence] \in Decision
      BY <3>1 DEF Decision
    <3> QED BY <2>0, <2>2, <3>1, <3>3, <3>4 DEF SavePromotionDecision
  <2>3. CASE AuditDecided(h)
    <3>1. EvaluatedEvent(h) \in Event
      BY <2>0, <2>3 DEF AuditDecided, EvaluatedEvent, Event, Handler, HandlerShape, Deciding
    <3> QED BY <2>0, <2>3, <3>1 DEF AuditDecided
  <2> QED BY <1>3, <2>1, <2>2, <2>3 DEF Handle
<1>4. CASE Tick
  BY <1>4 DEF Tick
<1>5. CASE UNCHANGED vars
  BY <1>5 DEF vars
<1> QED BY <1>1, <1>2, <1>3, <1>4, <1>5 DEF Next

(* The parts of the invariant besides the types.                            *)
Safety ==
  /\ CandidateShape /\ DecisionRecorded
  /\ SnapshotShape /\ LatestExists /\ HandlerShape /\ DecisionRests
  /\ DecisionAudited /\ ReporterAlone

(* The tables of the gate stand while a worker takes a step.                *)
LEMMA EvaluateSafety ==
  ASSUME TypeOK, Safety, NEW e \in Evaluations, Evaluate(e)
  PROVE  Safety'
<1> USE GateAssumption DEF Safety
<1>1. UNCHANGED gate
  BY DEF Evaluate, ReadService, StampEvaluation, SaveReadinessEvaluation
<1>2. snapshots \subseteq snapshots'
  BY DEF Evaluate, ReadService, StampEvaluation, SaveReadinessEvaluation
<1>3. CandidateShape' /\ DecisionRecorded' /\ DecisionAudited' /\ ReporterAlone'
  BY <1>1 DEF CandidateShape, DecisionRecorded, DecisionAudited, ReporterAlone, EvaluatedEvent
<1>4. SnapshotShape'
  <2>0. evals[e] \in Evaluation /\ \A s \in snapshots : s.id \in Evaluations
    BY DEF TypeOK, Snapshot
  <2>1. CASE ReadService(e) \/ StampEvaluation(e)
    <3>1. \A s \in snapshots : s.id # e
      BY <2>1 DEF SnapshotShape, ReadService, StampEvaluation
    <3>2. /\ snapshots' = snapshots
          /\ \A d \in Evaluations \ {e} : evals'[d] = evals[d]
          /\ evals'[e].service \in Services /\ evals'[e].state \in States
      BY <2>0, <2>1 DEF ReadService, StampEvaluation, TypeOK, SnapshotShape, Evaluation
    <3> QED BY <2>0, <3>1, <3>2 DEF SnapshotShape
  <2>2. CASE SaveReadinessEvaluation(e)
    <3> DEFINE new == [id |-> e, service |-> evals[e].service, state |-> evals[e].state,
                       evaluatedAt |-> evals[e].at]
    <3>1. \A s \in snapshots : s.id # e
      BY <2>2 DEF SnapshotShape, SaveReadinessEvaluation
    <3>2. snapshots' = snapshots \/ snapshots' = snapshots \union {new}
      BY <2>2 DEF SaveReadinessEvaluation
    <3>3. /\ \A d \in Evaluations \ {e} : evals'[d] = evals[d]
          /\ evals'[e].pc = "done"
      BY <2>0, <2>2 DEF SaveReadinessEvaluation, TypeOK, Evaluation
    <3>4. new.id = e
      OBVIOUS
    <3> QED BY <2>0, <3>1, <3>2, <3>3, <3>4 DEF SnapshotShape
  <2> QED BY <2>1, <2>2 DEF Evaluate
<1>5. LatestExists'
  <2>1. CASE snapshots' = snapshots
    BY <2>1 DEF LatestExists, LatestSnapshots
  <2>2. CASE snapshots' # snapshots
    <3>1. PICK new : /\ snapshots' = snapshots \union {new}
                     /\ new \in Snapshot
      <4>1. snapshots' = snapshots \union {[id |-> e, service |-> evals[e].service,
                            state |-> evals[e].state, evaluatedAt |-> evals[e].at]}
        BY <2>2 DEF Evaluate, ReadService, StampEvaluation, SaveReadinessEvaluation
      <4> QED BY <2>2, <4>1, TypeStep DEF TypeOK, Next
    <3>2. \A s \in snapshots' : s.evaluatedAt \in Int
      BY <3>1 DEF TypeOK, Snapshot
    <3>3. LatestSnapshots(new.service)' # {}
      <4>1. CASE \E s \in snapshots : s.service = new.service
        <5>1. PICK t \in snapshots :
                /\ t.service = new.service
                /\ \A u \in snapshots : u.service = t.service => u.evaluatedAt <= t.evaluatedAt
          BY <4>1 DEF LatestExists, LatestSnapshots
        <5>2. CASE new.evaluatedAt <= t.evaluatedAt
          BY <3>1, <5>1, <5>2 DEF LatestSnapshots
        <5>3. CASE t.evaluatedAt < new.evaluatedAt
          <6>1. \A u \in snapshots' : u.service = new.service => u.evaluatedAt <= new.evaluatedAt
            BY <3>1, <3>2, <5>1, <5>3
          <6> QED BY <3>1, <6>1 DEF LatestSnapshots
        <5> QED BY <3>1, <3>2, <5>1, <5>2, <5>3
      <4>2. CASE \A s \in snapshots : s.service # new.service
        BY <3>1, <3>2, <4>2 DEF LatestSnapshots
      <4> QED BY <4>1, <4>2
    <3>4. ASSUME NEW s \in snapshots, s.service # new.service
          PROVE  LatestSnapshots(s.service)' # {}
      BY <3>1, <3>4 DEF LatestExists, LatestSnapshots
    <3> QED BY <3>1, <3>3, <3>4 DEF LatestExists
  <2> QED BY <2>1, <2>2
<1>6. HandlerShape'
  <2> SUFFICES ASSUME NEW h \in Handlers, handlers[h].pc = "save"
               PROVE  Rests(handlers[h].evidence, handlers[h].service, handlers[h].status,
                            handlers[h].known)'
    BY <1>1, <1>2 DEF HandlerShape
  <2>1. Rests(handlers[h].evidence, handlers[h].service, handlers[h].status, handlers[h].known)
    BY DEF HandlerShape
  <2> QED BY <1>1, <1>2, <2>1 DEF Rests
<1>7. DecisionRests'
  BY <1>1, <1>2 DEF DecisionRests, Rests
<1> QED BY <1>3, <1>4, <1>5, <1>6, <1>7

(* A creating request touches no candidate that anybody else knows of.      *)
LEMMA CreateSafety ==
  ASSUME TypeOK, Safety, NEW c \in Candidates, Create(c)
  PROVE  Safety'
<1> USE GateAssumption DEF Safety
<1>1. UNCHANGED <<evidence, decisions, handlers, basis>>
  BY DEF Create, AdmitCandidate, InsertCandidate, ReloadCreated, AuditCreated
<1>2. /\ \A d \in Candidates \ {c} : candidates'[d] = candidates[d] /\ creators'[d] = creators[d]
      /\ \/ candidates'[c] = candidates[c]
         \/ /\ candidates[c].status = "absent" /\ creators'[c] \in {"reload", "error"}
            /\ candidates'[c].status = "pending" /\ candidates'[c].service \in Services
            /\ candidates'[c].snapshot = None
      /\ creators'[c] \in {"new", "insert"} => creators[c] = "new" /\ candidates' = candidates
  <2>1. CASE AdmitCandidate(c)
    BY <2>1 DEF AdmitCandidate, TypeOK
  <2>2. CASE InsertCandidate(c)
    <3>1. candidates[c].status = "absent"
      BY <2>2 DEF InsertCandidate, CandidateShape
    <3> QED BY <2>2, <3>1 DEF InsertCandidate, TypeOK
  <2>3. CASE ReloadCreated(c) \/ AuditCreated(c)
    BY <2>3 DEF ReloadCreated, AuditCreated, TypeOK
  <2> QED BY <2>1, <2>2, <2>3 DEF Create
<1>3. \A x \in audit' : x.type = "evaluated" => x \in audit
  BY DEF Create, AdmitCandidate, InsertCandidate, ReloadCreated, AuditCreated
<1>4. audit \subseteq audit'
  BY DEF Create, AdmitCandidate, InsertCandidate, ReloadCreated, AuditCreated
<1>5. candidates[c].status = "absent" => decisions[c] = None
  BY DEF DecisionRecorded, TypeOK, Decision
<1>6. CandidateShape' /\ DecisionRecorded'
  <2>1. CandidateShape'
    BY <1>2 DEF CandidateShape
  <2>2. ASSUME NEW d \in Candidates, candidates'[d] = candidates[d]
        PROVE  IF decisions'[d] = None
               THEN candidates'[d].status \in {"absent", "pending"} /\ candidates'[d].snapshot = None
               ELSE /\ candidates'[d].status = decisions'[d].decision
                    /\ candidates'[d].snapshot = decisions'[d].snapshot
    BY <1>1, <2>2 DEF DecisionRecorded
  <2>3. \/ candidates'[c] = candidates[c]
        \/ /\ decisions'[c] = None
           /\ candidates'[c].status = "pending" /\ candidates'[c].snapshot = None
    BY <1>1, <1>2, <1>5
  <2> QED BY <1>2, <2>1, <2>2, <2>3 DEF DecisionRecorded
<1>7. SnapshotShape' /\ LatestExists' /\ HandlerShape' /\ DecisionRests'
  <2>1. SnapshotShape' /\ LatestExists'
    BY <1>1 DEF SnapshotShape, LatestExists, LatestSnapshots
  <2>2. \A d \in Candidates : candidates[d].status # "absent" => candidates'[d] = candidates[d]
    BY <1>2
  <2>3. HandlerShape'
    BY <1>1, <2>2 DEF HandlerShape, Deciding, Rests
  <2>4. \A d \in Candidates : decisions[d] # None => candidates'[d] = candidates[d]
    BY <1>5, <2>2, <1>2
  <2>5. DecisionRests'
    BY <1>1, <2>4 DEF DecisionRests, Rests
  <2> QED BY <2>1, <2>3, <2>5
<1>8. DecisionAudited'
  BY <1>1, <1>3, <1>4 DEF DecisionAudited, EvaluatedEvent
<1>9. ReporterAlone'
  BY <1>1, <1>3 DEF ReporterAlone
<1> QED BY <1>6, <1>7, <1>8, <1>9

(* The calls of an evaluate request that change nothing but its own record. *)
LEMMA ReadSafety ==
  ASSUME TypeOK, Safety, NEW h \in Handlers,
         LoadCandidate(h) \/ GetLatestSnapshot(h) \/ ReloadDecided(h)
  PROVE  Safety'
<1> USE GateAssumption DEF Safety
<1>1. UNCHANGED <<evidence, creators, candidates, decisions, audit, basis>>
  BY DEF LoadCandidate, GetLatestSnapshot, ReloadDecided
<1>2. /\ handlers[h] \in Handler
      /\ \A g \in Handlers \ {h} : handlers'[g] = handlers[g]
  BY HandlerEffect DEF Handle, TypeOK
<1>3. CandidateShape' /\ DecisionRecorded' /\ SnapshotShape' /\ LatestExists' /\ DecisionRests'
  BY <1>1 DEF CandidateShape, DecisionRecorded, SnapshotShape, LatestExists, LatestSnapshots,
              DecisionRests, Rests
<1>4. ASSUME handlers'[h].pc \notin {"ok", "reload", "audit"},
             handlers[h].pc \notin {"ok"}
      PROVE  DecisionAudited' /\ ReporterAlone'
  BY <1>1, <1>2, <1>4 DEF DecisionAudited, ReporterAlone, EvaluatedEvent, Reporting
<1>5. ASSUME handlers'[h].pc \in Deciding =>
               /\ handlers'[h].candidate \in Candidates
               /\ candidates[handlers'[h].candidate].status # "absent"
               /\ handlers'[h].service = candidates[handlers'[h].candidate].service,
             handlers'[h].pc \in {"snapshot", "save"} => handlers'[h].known \subseteq snapshots,
             handlers'[h].pc = "save" =>
               Rests(handlers'[h].evidence, handlers'[h].service, handlers'[h].status,
                     handlers'[h].known)
      PROVE  HandlerShape'
  BY <1>1, <1>2, <1>5 DEF HandlerShape, Rests
<1>6. CASE LoadCandidate(h)
  <2>1. PICK c \in Candidates, pc \in {"error", "not_found", "snapshot", "conflict"} :
          /\ handlers' = [handlers EXCEPT ![h] = Loaded(c, pc)]
          /\ pc = "snapshot" => candidates[c].status = "pending"
    BY <1>6, LoadEffect
  <2>2. handlers'[h] = Loaded(c, pc) /\ handlers[h].pc = "new"
    BY <1>6, <2>1 DEF TypeOK, LoadCandidate
  <2> QED BY <1>3, <1>4, <1>5, <2>1, <2>2 DEF Loaded, Deciding
<1>7. CASE GetLatestSnapshot(h)
  <2> DEFINE svc == handlers[h].service
  <2>1. /\ handlers[h].pc = "snapshot" /\ handlers'[h].pc \in {"save", "error"}
        /\ handlers'[h].candidate = handlers[h].candidate /\ handlers'[h].service = svc
        /\ handlers'[h].known = handlers[h].known
        /\ handlers'[h].pc = "save" =>
             \/ /\ LatestSnapshots(svc) = {}
                /\ handlers'[h].status = "rejected" /\ handlers'[h].evidence = None
             \/ \E s \in LatestSnapshots(svc) :
                  handlers'[h].status = Verdict(s.state) /\ handlers'[h].evidence = s.id
    <3> DEFINE save(status, id) == [handlers EXCEPT ![h].pc = "save", ![h].status = status,
                                                    ![h].evidence = id]
    <3>1. /\ handlers[h].pc = "snapshot"
          /\ \/ handlers' = [handlers EXCEPT ![h].pc = "error"]
             \/ LatestSnapshots(svc) = {} /\ handlers' = save("rejected", None)
             \/ \E s \in LatestSnapshots(svc) : handlers' = save(Verdict(s.state), s.id)
      BY <1>7 DEF GetLatestSnapshot
    <3>2. CASE handlers' = [handlers EXCEPT ![h].pc = "error"]
      BY <1>2, <3>1, <3>2 DEF TypeOK, Handler
    <3>3. ASSUME NEW status, NEW id, handlers' = save(status, id)
          PROVE  /\ handlers'[h].pc = "save" /\ handlers'[h].candidate = handlers[h].candidate
                 /\ handlers'[h].service = svc /\ handlers'[h].known = handlers[h].known
                 /\ handlers'[h].status = status /\ handlers'[h].evidence = id
      BY <1>2, <3>3 DEF TypeOK, Handler
    <3> HIDE DEF save
    <3>4. CASE LatestSnapshots(svc) = {} /\ handlers' = save("rejected", None)
      BY <3>1, <3>3, <3>4
    <3>5. ASSUME NEW s \in LatestSnapshots(svc), handlers' = save(Verdict(s.state), s.id)
          PROVE  /\ handlers'[h].pc = "save" /\ handlers'[h].candidate = handlers[h].candidate
                 /\ handlers'[h].service = svc /\ handlers'[h].known = handlers[h].known
                 /\ handlers'[h].status = Verdict(s.state) /\ handlers'[h].evidence = s.id
      BY <3>3, <3>5
    <3> QED BY <3>1, <3>2, <3>4, <3>5
  <2>2. handlers[h].known \subseteq snapshots
    BY <2>1 DEF HandlerShape
  <2>3. handlers'[h].pc = "save" =>
          Rests(handlers'[h].evidence, svc, handlers'[h].status, handlers[h].known)
    <3>1. CASE handlers'[h].pc = "save" /\ LatestSnapshots(svc) # {}
      BY <2>1, <2>2, <3>1 DEF Rests, LatestSnapshots
    <3>2. CASE LatestSnapshots(svc) = {}
      <4>1. \A s \in snapshots : s.service # svc
        BY <3>2 DEF LatestExists
      <4> QED BY <2>1, <2>2, <3>2, <4>1 DEF Rests
    <3> QED BY <3>1, <3>2
  <2> QED BY <1>3, <1>4, <1>5, <2>1, <2>2, <2>3 DEF HandlerShape, Deciding
<1>8. CASE ReloadDecided(h)
  <2>1. /\ handlers[h].pc = "reload"
        /\ handlers'[h].candidate = handlers[h].candidate
        /\ handlers'[h].service = handlers[h].service
        /\ \/ handlers'[h].pc = "error"
           \/ /\ handlers'[h].pc = "audit"
              /\ handlers'[h].status = candidates[handlers[h].candidate].status
    BY <1>2, <1>8 DEF ReloadDecided, TypeOK, Handler
  <2>2. HandlerShape'
    BY <1>5, <2>1 DEF HandlerShape, Deciding
  <2>3. DecisionAudited'
    BY <1>1, <1>2, <2>1 DEF DecisionAudited, EvaluatedEvent
  <2>4. handlers[h].candidate \in Candidates
    BY <2>1 DEF HandlerShape, Deciding
  <2>5. ReporterAlone'
    BY <1>1, <1>2, <2>1, <2>4 DEF ReporterAlone, Reporting, DecisionRecorded
  <2> QED BY <1>3, <2>2, <2>3, <2>5
<1> QED BY <1>6, <1>7, <1>8

(* What SavePromotionDecision does when its UPDATE finds the row pending:    *)
(* c's row and decision are written from the request's record.               *)
Decides(h, c) ==
  /\ StillPending(c) /\ decisions[c] = None
  /\ \A d \in Candidates \ {c} : /\ candidates'[d] = candidates[d]
                                /\ decisions'[d] = decisions[d] /\ basis'[d] = basis[d]
  /\ candidates'[c].status = handlers[h].status /\ candidates'[c].snapshot = handlers[h].evidence
  /\ candidates'[c].service = candidates[c].service
  /\ decisions'[c] # None /\ decisions'[c].decision = handlers[h].status
  /\ decisions'[c].snapshot = handlers[h].evidence /\ basis'[c] = handlers[h].known

(* SavePromotionDecision decides, or leaves the tables as they were.         *)
LEMMA SaveEffect ==
  ASSUME TypeOK, Safety, NEW h \in Handlers, SavePromotionDecision(h)
  PROVE  /\ handlers[h].pc = "save" /\ handlers[h].candidate \in Candidates
         /\ handlers[h].status \in {"approved", "rejected"}
         /\ UNCHANGED <<evidence, creators, audit>>
         /\ \A g \in Handlers \ {h} : handlers'[g] = handlers[g]
         /\ handlers'[h].candidate = handlers[h].candidate
         /\ handlers'[h].service = handlers[h].service
         /\ \/ /\ UNCHANGED <<candidates, decisions, basis>>
               /\ handlers'[h].pc \in {"error", "conflict"}
            \/ /\ Decides(h, handlers[h].candidate)
               /\ handlers'[h].pc \in {"error", "reload"}
<1> USE GateAssumption DEF TypeOK, Safety
<1> DEFINE c == handlers[h].candidate
<1>1. /\ handlers[h].pc = "save" /\ UNCHANGED <<evidence, creators, audit>>
  BY DEF SavePromotionDecision
<1>2. /\ c \in Candidates /\ handlers[h].status \in {"approved", "rejected"}
  BY <1>1 DEF HandlerShape, Deciding, Rests, Verdict
<1>3. handlers[h] \in Handler /\ \A g \in Handlers \ {h} : handlers'[g] = handlers[g]
  BY HandlerEffect DEF Handle
<1>4. /\ handlers'[h].candidate = c /\ handlers'[h].service = handlers[h].service
      /\ \/ handlers'[h].pc = "error"
         \/ handlers'[h].pc = "reload" /\ StillPending(c)
         \/ handlers'[h].pc = "conflict" /\ ~StillPending(c)
  BY <1>3 DEF SavePromotionDecision, Handler
<1>5. \/ UNCHANGED <<candidates, decisions, basis>> /\ handlers'[h].pc # "reload"
      \/ /\ StillPending(c)
         /\ candidates' = [candidates EXCEPT ![c] = Decided(h)]
         /\ decisions' = [decisions EXCEPT ![c] = [decision |-> handlers[h].status,
                                                   snapshot |-> handlers[h].evidence]]
         /\ basis' = [basis EXCEPT ![c] = handlers[h].known]
  BY <1>3 DEF SavePromotionDecision, Handler
<1>6. StillPending(c) => decisions[c] = None
  BY <1>2 DEF StillPending, DecisionRecorded, Decision
<1>7. CASE UNCHANGED <<candidates, decisions, basis>> /\ handlers'[h].pc # "reload"
  BY <1>1, <1>2, <1>3, <1>4, <1>7
<1>8. CASE /\ StillPending(c)
           /\ candidates' = [candidates EXCEPT ![c] = Decided(h)]
           /\ decisions' = [decisions EXCEPT ![c] = [decision |-> handlers[h].status,
                                                     snapshot |-> handlers[h].evidence]]
           /\ basis' = [basis EXCEPT ![c] = handlers[h].known]
  <2>1. candidates[c] \in Candidate
    BY <1>2
  <2>2. /\ Decided(h).status = handlers[h].status /\ Decided(h).snapshot = handlers[h].evidence
        /\ Decided(h).service = candidates[c].service
    BY <2>1 DEF Decided, Candidate
  <2>3. decisions'[c] = [decision |-> handlers[h].status, snapshot |-> handlers[h].evidence]
    BY <1>2, <1>8
  <2>4. decisions'[c] # None
    BY <1>2, <1>3, <2>3, NoneIsNoDecision DEF Decision, Handler
  <2>5. Decides(h, c)
    BY <1>2, <1>6, <1>8, <2>2, <2>3, <2>4 DEF Decides
  <2> QED BY <1>1, <1>2, <1>3, <1>4, <1>8, <2>5
<1> QED BY <1>5, <1>7, <1>8

(* Only a row that is still pending is decided, so a decision has one author,*)
(* and it is written as the request saw it.                                  *)
LEMMA SaveSafety ==
  ASSUME TypeOK, Safety, NEW h \in Handlers, SavePromotionDecision(h)
  PROVE  Safety'
<1> USE GateAssumption DEF Safety
<1> DEFINE c == handlers[h].candidate
<1>1. /\ handlers[h].pc = "save" /\ c \in Candidates
      /\ handlers[h].status \in {"approved", "rejected"}
      /\ UNCHANGED <<evidence, creators, audit>>
      /\ \A g \in Handlers \ {h} : handlers'[g] = handlers[g]
      /\ handlers'[h].candidate = c /\ handlers'[h].service = handlers[h].service
  BY SaveEffect
<1>2. SnapshotShape' /\ LatestExists'
  BY <1>1 DEF SnapshotShape, LatestExists, LatestSnapshots
<1>3. CASE /\ UNCHANGED <<candidates, decisions, basis>>
           /\ handlers'[h].pc \in {"error", "conflict"}
  <2>1. CandidateShape' /\ DecisionRecorded' /\ DecisionRests'
    BY <1>1, <1>3 DEF CandidateShape, DecisionRecorded, DecisionRests, Rests
  <2>2. HandlerShape'
    BY <1>1, <1>3 DEF HandlerShape, Deciding, Rests
  <2>3. DecisionAudited' /\ ReporterAlone'
    BY <1>1, <1>3 DEF DecisionAudited, ReporterAlone, EvaluatedEvent, Reporting
  <2> QED BY <1>2, <2>1, <2>2, <2>3
<1>4. CASE Decides(h, c) /\ handlers'[h].pc \in {"error", "reload"}
  <2> USE DEF Decides
  <2>0. candidates[c].status = "pending"
    BY <1>4 DEF StillPending
  <2>1. CandidateShape'
    BY <1>1, <1>4, <2>0 DEF CandidateShape
  <2>2. DecisionRecorded'
    BY <1>1, <1>4 DEF DecisionRecorded
  <2>3. /\ handlers[h].service = candidates[c].service
        /\ Rests(handlers[h].evidence, handlers[h].service, handlers[h].status, handlers[h].known)
    BY <1>1 DEF HandlerShape, Deciding
  <2>4. DecisionRests'
    BY <1>1, <1>4, <2>3 DEF DecisionRests, Rests
  <2>5. \A d \in Candidates : candidates'[d].service = candidates[d].service /\
          (candidates[d].status # "absent" => candidates'[d].status # "absent")
    BY <1>1, <1>4, <2>0
  <2>6. HandlerShape'
    BY <1>1, <1>4, <2>5 DEF HandlerShape, Deciding, Rests
  <2>7. /\ \A x \in audit : x.type = "evaluated" => x.candidate # c
        /\ \A g \in Handlers : handlers[g].pc \in Reporting => handlers[g].candidate # c
    BY <1>4 DEF DecisionAudited, ReporterAlone
  <2>8. \A x \in audit : x.candidate \in Candidates
    BY DEF TypeOK, Event
  <2>9. DecisionAudited'
    <3>1. \A x \in audit' : x.type = "evaluated" =>
            /\ decisions'[x.candidate] # None
            /\ x.decision = decisions'[x.candidate].decision
            /\ \A y \in audit' : y.type = "evaluated" /\ y.candidate = x.candidate => x = y
      BY <1>1, <1>4, <2>7, <2>8 DEF DecisionAudited
    <3>2. \A g \in Handlers : handlers'[g].pc = "ok" => EvaluatedEvent(g)' \in audit'
      BY <1>1, <1>4 DEF DecisionAudited, EvaluatedEvent
    <3> QED BY <3>1, <3>2 DEF DecisionAudited
  <2>10. ReporterAlone'
    <3>1. \A g \in Handlers : handlers[g].pc \in Reporting =>
            handlers[g].candidate \in Candidates
      BY DEF HandlerShape, Reporting, Deciding
    <3> QED BY <1>1, <1>4, <2>7, <3>1 DEF ReporterAlone, Reporting
  <2> QED BY <1>2, <2>1, <2>2, <2>4, <2>6, <2>9, <2>10
<1> QED BY <1>3, <1>4, SaveEffect

(* The reporter's event is the candidate's first.                           *)
LEMMA AuditSafety ==
  ASSUME TypeOK, Safety, NEW h \in Handlers, AuditDecided(h)
  PROVE  Safety'
<1> USE GateAssumption DEF Safety
<1>1. /\ handlers[h].pc = "audit" /\ UNCHANGED <<evidence, creators, candidates, decisions, basis>>
      /\ audit' = audit \/ audit' = audit \union {EvaluatedEvent(h)}
  BY DEF AuditDecided
<1>2. /\ handlers[h] \in Handler
      /\ \A g \in Handlers \ {h} : handlers'[g] = handlers[g]
  BY HandlerEffect DEF Handle, TypeOK
<1>3. /\ handlers'[h].pc \in {"ok", "error"}
      /\ handlers'[h].pc = "ok" => EvaluatedEvent(h) \in audit'
      /\ handlers'[h].candidate = handlers[h].candidate
      /\ handlers'[h].service = handlers[h].service
      /\ handlers'[h].status = handlers[h].status
  BY <1>2 DEF AuditDecided, TypeOK, Handler
<1>4. CandidateShape' /\ DecisionRecorded' /\ SnapshotShape' /\ LatestExists' /\ DecisionRests'
  BY <1>1 DEF CandidateShape, DecisionRecorded, SnapshotShape, LatestExists, LatestSnapshots,
              DecisionRests, Rests
<1>5. HandlerShape'
  BY <1>1, <1>2, <1>3 DEF HandlerShape, Deciding, Rests
<1>6. DecisionAudited'
  <2>1. \A g \in Handlers : EvaluatedEvent(g)' = EvaluatedEvent(g)
    BY <1>2, <1>3 DEF EvaluatedEvent
  <2>2. /\ decisions[EvaluatedEvent(h).candidate] # None
        /\ EvaluatedEvent(h).decision = decisions[EvaluatedEvent(h).candidate].decision
        /\ \A x \in audit : x.type = "evaluated" => x.candidate # EvaluatedEvent(h).candidate
    BY <1>1 DEF EvaluatedEvent, ReporterAlone, Reporting
  <2>3. \A x \in audit' : x.type = "evaluated" =>
          /\ decisions'[x.candidate] # None
          /\ x.decision = decisions'[x.candidate].decision
          /\ \A y \in audit' : y.type = "evaluated" /\ y.candidate = x.candidate => x = y
    BY <1>1, <2>2 DEF DecisionAudited
  <2>4. \A g \in Handlers : handlers'[g].pc = "ok" => EvaluatedEvent(g)' \in audit'
    BY <1>1, <1>2, <1>3, <2>1 DEF DecisionAudited
  <2> QED BY <2>3, <2>4 DEF DecisionAudited
<1>7. ReporterAlone'
  <2>1. EvaluatedEvent(h).candidate = handlers[h].candidate
    BY DEF EvaluatedEvent
  <2> QED BY <1>1, <1>2, <1>3, <2>1 DEF ReporterAlone, Reporting
<1> QED BY <1>4, <1>5, <1>6, <1>7

(* The gate's tables, the evidence under them and the audit trail fit        *)
(* together in every reachable state.                                        *)
THEOREM GateInductive == Spec => []Inductive
<1>1. Inductive /\ [Next]_vars => Inductive'
  <2> SUFFICES ASSUME TypeOK, Safety, [Next]_vars PROVE TypeOK' /\ Safety'
    BY DEF Inductive, Safety, Evidence
  <2>1. TypeOK'
    BY TypeStep DEF Safety
  <2>2. CASE Tick \/ UNCHANGED vars
    <3>1. UNCHANGED <<evals, snapshots, gate>>
      BY <2>2 DEF Tick, vars
    <3>2. CandidateShape' /\ DecisionRecorded' /\ SnapshotShape' /\ LatestExists'
      BY <3>1 DEF Safety, CandidateShape, DecisionRecorded, SnapshotShape, LatestExists,
                  LatestSnapshots
    <3>3. HandlerShape' /\ DecisionRests'
      BY <3>1 DEF Safety, HandlerShape, DecisionRests, Rests
    <3>4. DecisionAudited' /\ ReporterAlone'
      BY <3>1 DEF Safety, DecisionAudited, EvaluatedEvent, ReporterAlone
    <3> QED BY <2>1, <3>2, <3>3, <3>4 DEF Safety
  <2>3. Safety'
    BY <2>2, EvaluateSafety, CreateSafety, ReadSafety, SaveSafety, AuditSafety DEF Next, Handle
  <2> QED BY <2>1, <2>2, <2>3
<1> QED BY <1>1, InitInductive, PTL DEF Spec

(* Whichever calls of whichever requests fail, the two tables agree and a    *)
(* verdict rests on a stored snapshot of the candidate's own service.        *)
THEOREM DecisionsAreSound == Spec => []DecisionsSound
<1>1. Inductive => DecisionsSound
  <2> SUFFICES ASSUME Inductive PROVE VerdictHasEvidence
    BY DEF Inductive, DecisionsSound
  <2> SUFFICES ASSUME NEW c \in Candidates, decisions[c] # None
               PROVE  (decisions[c].decision = "approved") =
                        (\E s \in snapshots : /\ s.id = decisions[c].snapshot
                                              /\ s.service = candidates[c].service
                                              /\ s.state = "ready")
    BY DEF VerdictHasEvidence
  <2>1. Rests(decisions[c].snapshot, candidates[c].service, decisions[c].decision, basis[c])
    BY DEF Inductive, Evidence, DecisionRests
  <2>2. \A s, t \in snapshots : s.id = t.id => s = t
    BY DEF Inductive, Evidence, SnapshotShape
  <2>3. \A s \in snapshots : s.id # None
    BY GateAssumption DEF Inductive, TypeOK, Snapshot
  <2> QED BY <2>1, <2>2, <2>3 DEF Rests, Verdict
<1> QED BY <1>1, GateInductive, PTL

(* The trail has at most one evaluation per candidate and reports what is    *)
(* stored; a request answered 200 has left its event.                        *)
THEOREM DecisionsAreAudited == Spec => []DecisionAudited
<1>1. Inductive => DecisionAudited
  BY DEF Inductive
<1> QED BY <1>1, GateInductive, PTL

(* No evidence that was stored when the deciding request came is ignored.    *)
THEOREM DecisionsAreFresh == Spec => []FreshAsOfRequest
<1>1. Inductive => FreshAsOfRequest
  BY DEF Inductive, Evidence, DecisionRests, Rests, FreshAsOfRequest
<1> QED BY <1>1, GateInductive, PTL

(* Statuses move along CanTransitionTo and what is decided stays: of requests *)
(* that race on a candidate one decides, and none rewrites it.                *)
THEOREM DecidedAtMostOnce == Spec => DecidedOnce
<1> DEFINE Once == \A c \in Candidates :
      /\ candidates[c].status # "absent" /\ candidates'[c].status # candidates[c].status
           => CanTransitionTo(candidates[c].status, candidates'[c].status)
      /\ decisions[c] # None => decisions'[c] = decisions[c] /\ candidates'[c] = candidates[c]
<1>1. Inductive /\ [Next]_vars => [Once]_vars
  <2> SUFFICES ASSUME Inductive, [Next]_vars PROVE Once
    OBVIOUS
  <2>0. TypeOK /\ Safety
    BY DEF Inductive, Safety, Evidence
  <2>1. CASE UNCHANGED <<candidates, decisions>>
    BY <2>1
  <2>2. ASSUME NEW c \in Candidates, InsertCandidate(c) PROVE Once
    <3>1. candidates[c].status = "absent" /\ decisions[c] = None /\ decisions' = decisions
      BY <2>0, <2>2 DEF InsertCandidate, Safety, CandidateShape, DecisionRecorded, TypeOK, Decision
    <3>2. \A d \in Candidates \ {c} : candidates'[d] = candidates[d]
      BY <2>0, <2>2 DEF InsertCandidate, TypeOK
    <3> QED BY <3>1, <3>2
  <2>3. ASSUME NEW h \in Handlers, SavePromotionDecision(h) PROVE Once
    BY <2>0, <2>1, <2>3, SaveEffect, SMTT(30) DEF Decides, StillPending, CanTransitionTo
  <2> QED
    BY <2>1, <2>2, <2>3 DEF Next, Evaluate, Create, Handle, Tick, vars, ReadService,
       StampEvaluation, SaveReadinessEvaluation, AdmitCandidate, ReloadCreated, AuditCreated,
       LoadCandidate, GetLatestSnapshot, ReloadDecided, AuditDecided
<1> QED BY <1>1, GateInductive, PTL DEF Spec, DecidedOnce

----------------------------------------------------------------------------
(* The abstract counterpart of the tables.                                  *)
afacts == {[id |-> s.id, service |-> s.service, state |-> s.state] : s \in snapshots}
adocket == [c \in Candidates |->
              [status |-> candidates[c].status, service |-> candidates[c].service,
               evidence |-> IF decisions[c] = None THEN None ELSE decisions[c].snapshot]]

(* Empty tables are the abstract initial state.                             *)
LEMMA InitRefines == Init => Abstract!Init
  BY DEF Init, Abstract!Init, NoCandidate

(* Every step is an abstract step or leaves the abstract state alone.       *)
LEMMA NextRefines == Inductive /\ [Next]_vars => [Abstract!Next]_(Abstract!vars)
<1> SUFFICES ASSUME Inductive, [Next]_vars
             PROVE  Abstract!Next \/ UNCHANGED <<adocket, afacts>>
  BY DEF Abstract!vars, adocket, afacts
<1>0. TypeOK /\ Safety
  BY DEF Inductive, Safety, Evidence
<1>1. CASE UNCHANGED <<candidates, decisions, snapshots>>
  BY <1>1 DEF adocket, afacts
<1>2. ASSUME NEW e \in Evaluations, SaveReadinessEvaluation(e), snapshots' # snapshots
      PROVE  Abstract!Next
  <2> DEFINE new == [id |-> e, service |-> evals[e].service, state |-> evals[e].state]
             row == [id |-> e, service |-> evals[e].service, state |-> evals[e].state,
                     evaluatedAt |-> evals[e].at]
  <2>1. snapshots' = snapshots \union {row}
    BY <1>2 DEF SaveReadinessEvaluation
  <2>2. row.id = e /\ row.service = evals[e].service /\ row.state = evals[e].state
    OBVIOUS
  <2>3. afacts' = afacts \union {new}
    BY <2>1, <2>2 DEF afacts
  <2>4. new \in Abstract!Fact
    BY <1>0, <1>2 DEF Abstract!Fact, Abstract!States, States, Safety, SnapshotShape,
                      SaveReadinessEvaluation
  <2>5. \A g \in afacts : g.id # new.id
    BY <1>0, <1>2 DEF afacts, Safety, SnapshotShape, SaveReadinessEvaluation
  <2>6. adocket' = adocket
    BY <1>2 DEF adocket, SaveReadinessEvaluation
  <2>7. Abstract!Collect
    BY <2>3, <2>4, <2>5, <2>6 DEF Abstract!Collect, adocket, afacts
  <2> QED BY <2>7 DEF Abstract!Next
<1>3. ASSUME NEW c \in Candidates, InsertCandidate(c), candidates' # candidates
      PROVE  Abstract!Next
  <2>1. PICK s \in Services :
          candidates' = [candidates EXCEPT ![c] = [status |-> "pending", service |-> s,
                                                   snapshot |-> None]]
    BY <1>3 DEF InsertCandidate
  <2>2. candidates[c].status = "absent" /\ decisions[c] = None
    BY <1>0, <1>3 DEF InsertCandidate, Safety, CandidateShape, DecisionRecorded, TypeOK, Decision
  <2>3. decisions' = decisions /\ snapshots' = snapshots
    BY <1>3 DEF InsertCandidate
  <2>4. adocket' = [adocket EXCEPT ![c] = [status |-> "pending", service |-> s,
                                           evidence |-> None]]
    BY <1>0, <2>1, <2>2, <2>3 DEF adocket, TypeOK
  <2>5. adocket[c].status = "absent" /\ afacts' = afacts
    BY <2>2, <2>3 DEF adocket, afacts
  <2>6. Abstract!Submit(c)
    BY <2>4, <2>5 DEF Abstract!Submit, adocket, afacts
  <2> QED BY <2>6 DEF Abstract!Next
<1>4. ASSUME NEW h \in Handlers, SavePromotionDecision(h),
             ~UNCHANGED <<candidates, decisions, basis>>
      PROVE  Abstract!Next
  <2>0. PICK c \in Candidates : c = handlers[h].candidate
    BY <1>0, <1>4, SaveEffect
  <2>1. Decides(h, c) /\ handlers[h].pc = "save" /\ snapshots' = snapshots
    BY <1>0, <1>4, <2>0, SaveEffect
  <2>2. /\ handlers[h].service = candidates[c].service
        /\ Rests(handlers[h].evidence, candidates[c].service, handlers[h].status,
                 handlers[h].known)
    BY <1>0, <2>0, <2>1 DEF Safety, HandlerShape, Deciding
  <2>3. /\ adocket[c].status = "pending" /\ adocket[c].evidence = None
        /\ adocket[c].service = candidates[c].service /\ afacts' = afacts
    BY <2>1 DEF adocket, afacts, Decides, StillPending
  <2>4. /\ adocket[c] = [status |-> "pending", service |-> candidates[c].service,
                         evidence |-> None]
        /\ adocket' = [adocket EXCEPT ![c] = [status |-> handlers[h].status,
                         service |-> candidates[c].service, evidence |-> handlers[h].evidence]]
    <3> DEFINE ruled == [status |-> handlers[h].status, service |-> candidates[c].service,
                         evidence |-> handlers[h].evidence]
    <3>1. adocket'[c] = ruled
      BY <2>1 DEF adocket, Decides
    <3>2. \A d \in Candidates \ {c} : adocket'[d] = adocket[d]
      BY <2>1 DEF adocket, Decides
    <3>3. adocket[c] = [status |-> "pending", service |-> candidates[c].service,
                        evidence |-> None]
      BY <2>1 DEF adocket, Decides, StillPending
    <3>4. /\ adocket = [d \in Candidates |-> adocket[d]]
          /\ adocket' = [d \in Candidates |-> adocket'[d]]
      BY DEF adocket
    <3>5. adocket' = [adocket EXCEPT ![c] = ruled]
      <4> HIDE DEF ruled
      <4> QED BY <3>1, <3>2, <3>4
    <3> QED BY <3>3, <3>5
  <2>5. CASE handlers[h].evidence = None /\ handlers[h].status = "rejected"
    <3>1. adocket' = [adocket EXCEPT ![c].status = "rejected"]
      <4>1. [adocket[c] EXCEPT !.status = "rejected"]
              = [status |-> "rejected", service |-> candidates[c].service, evidence |-> None]
        BY <2>4
      <4> QED BY <2>4, <2>5, <4>1
    <3>2. Abstract!Rule(c)
      BY <2>3, <3>1 DEF Abstract!Rule, adocket, afacts
    <3> QED BY <2>1, <3>2 DEF Abstract!Next
  <2>6. ASSUME NEW t \in snapshots, t.id = handlers[h].evidence,
               t.service = candidates[c].service, handlers[h].status = Verdict(t.state)
        PROVE  Abstract!Next
    <3> DEFINE f == [id |-> t.id, service |-> t.service, state |-> t.state]
    <3>1. f \in afacts /\ f.service = adocket[c].service
      BY <2>3, <2>6 DEF afacts
    <3>2. adocket' = [adocket EXCEPT ![c].status = IF f.state = "ready" THEN "approved"
                                                   ELSE "rejected",
                                     ![c].evidence = f.id]
      <4> DEFINE verdict == IF f.state = "ready" THEN "approved" ELSE "rejected"
      <4>1. verdict = handlers[h].status /\ f.id = handlers[h].evidence
        BY <2>6 DEF Verdict
      <4>2. [adocket[c] EXCEPT !.status = handlers[h].status, !.evidence = handlers[h].evidence]
              = [status |-> handlers[h].status, service |-> candidates[c].service,
                 evidence |-> handlers[h].evidence]
        <5> DEFINE r == adocket[c]
                   st == handlers[h].status
                   sv == candidates[c].service
                   ev == handlers[h].evidence
        <5>1. r = [status |-> "pending", service |-> sv, evidence |-> None]
          BY <2>4
        <5> HIDE DEF r, st, sv, ev
        <5>2. [r EXCEPT !.status = st] = [status |-> st, service |-> sv, evidence |-> None]
          BY <5>1
        <5>3. [[status |-> st, service |-> sv, evidence |-> None] EXCEPT !.evidence = ev]
                = [status |-> st, service |-> sv, evidence |-> ev]
          OBVIOUS
        <5>4. [r EXCEPT !.status = st, !.evidence = ev]
                = [[r EXCEPT !.status = st] EXCEPT !.evidence = ev]
          OBVIOUS
        <5> QED BY <5>2, <5>3, <5>4 DEF r, st, sv, ev
      <4>3. adocket' = [adocket EXCEPT ![c].status = handlers[h].status,
                                       ![c].evidence = handlers[h].evidence]
        BY <2>4, <4>2
      <4> QED BY <4>1, <4>3
    <3>3. Abstract!Rule(c)
      BY <2>3, <3>1, <3>2 DEF Abstract!Rule, adocket, afacts
    <3> QED BY <2>1, <3>3 DEF Abstract!Next
  <2> QED BY <2>2, <2>5, <2>6 DEF Rests
<1> QED
  BY <1>1, <1>2, <1>3, <1>4 DEF Next, Evaluate, Create, Handle, Tick, vars, ReadService,
     StampEvaluation, SaveReadinessEvaluation, InsertCandidate, AdmitCandidate, ReloadCreated,
     AuditCreated, LoadCandidate, GetLatestSnapshot, SavePromotionDecision, ReloadDecided,
     AuditDecided

(* Seen through its tables the gate is that of Promotion: one ruling per     *)
(* candidate, as if in one act, on evidence that is stored and stays.        *)
THEOREM GateImplementsPromotion == Spec => ImplementsPromotion
  BY InitRefines, NextRefines, GateInductive, PTL DEF Spec, ImplementsPromotion, Abstract!Spec
============================================================================
