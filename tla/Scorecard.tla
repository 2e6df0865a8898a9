----------------------------- MODULE Scorecard -----------------------------
(***************************************************************************)
(* Readiness evidence from the worker that makes it to the scorecard that   *)
(* shows it: ProcessServiceEvaluationJob reads a service, stamps the        *)
(* evaluation with its own clock and stores a snapshot with ten check rows  *)
(* in one transaction; GET /v1/services/{id}/scorecard reads the service,   *)
(* the latest snapshot and that snapshot's rows in three statements with no *)
(* transaction around them.  The registry runs on all the while: services   *)
(* are registered and patched under both.                                   *)
(***************************************************************************)
EXTENDS ServiceRegistry, FiniteSets

CONSTANTS Evaluations,  \* evaluation attempts; each draws one snapshot id
          Readers,      \* scorecard requests
          Skew,         \* [Evaluations -> Int]: clock of the attempt's worker
          MaxTime       \* bound on the clock

ASSUME SkewAssumption == Skew \in [Evaluations -> Int]

ASSUME MaxTimeAssumption == MaxTime \in Nat

ASSUME NoneIsNoEvaluation == None \notin Evaluations

VARIABLES now,        \* the clock
          evals,      \* evaluation attempts in flight
          snapshots,  \* readiness_snapshots
          checks,     \* readiness_check_results
          cards       \* the scorecard requests

evidence == <<now, evals, snapshots, checks, cards>>

----------------------------------------------------------------------------
(* The ten rows of Evaluate, by check; passIf fails and warnIf warns.        *)
FailIf(bad) == IF bad THEN "fail" ELSE "pass"

(* Fault: the state of the service where the status of the check belongs.   *)
WarnAsState(bad) == IF bad THEN "degraded" ELSE "pass"

WarnIf(bad) == IF bad THEN "warn" ELSE "pass"

CheckResults(s) ==
  [owner_declared |-> FailIf(s.owner = "empty"),
   repository_connected |-> FailIf(s.repository = "empty"),
   runbook_present |-> WarnIf(s.runbook = "empty"),
   health_endpoint_present |-> FailIf(s.health = "empty"),
   observability_dashboard_present |-> WarnIf(s.observability = "empty"),
   ci_enabled |-> FailIf(~s.ci),
   tracing_enabled |-> WarnIf(~s.tracing),
   metrics_enabled |-> WarnIf(~s.metrics),
   deployment_pipeline_declared |-> FailIf(s.pipeline = "empty"),
   slo_policy_declared |-> WarnIf(s.slo.window = "empty" \/ s.slo.availability <= 0
                                  \/ s.slo.latency <= 0)]

Check == {"owner_declared", "repository_connected", "runbook_present",
          "health_endpoint_present", "observability_dashboard_present", "ci_enabled",
          "tracing_enabled", "metrics_enabled", "deployment_pipeline_declared",
          "slo_policy_declared"}

CheckRow == [snapshot : Evaluations, service : Ids, name : Check,
             status : {"pass", "warn", "fail"}]

(* version and readAt, the service's version and the time when the worker   *)
(* read it, are history.                                                    *)
Snapshot == [id : Evaluations, service : Ids, state : {"ready", "degraded", "blocked"},
             score : 0..100, evaluatedAt : Int, version : Nat, readAt : Nat]

Evaluation == [pc : {"new", "read", "stamped", "done"}, service : Ids \union {None},
               profile : Service \union {None}, version : Nat, readAt : Nat, at : Int]

Card == [pc : {"new", "snapshot", "checks", "ok", "not_found", "error"},
         service : Ids \union {None},
         snapshot : Snapshot \union {None}, checks : SUBSET CheckRow,
         known : SUBSET Snapshot]   \* history: snapshots stored when the request came

NewEvaluation == [pc |-> "new", service |-> None, profile |-> None, version |-> 0,
                  readAt |-> 0, at |-> 0]

NewCard == [pc |-> "new", service |-> None, snapshot |-> None, checks |-> {}, known |-> {}]

EvidenceTypeOK ==
  /\ TypeOK
  /\ now \in 0..MaxTime
  /\ evals \in [Evaluations -> Evaluation]
  /\ snapshots \in SUBSET Snapshot
  /\ checks \in SUBSET CheckRow
  /\ cards \in [Readers -> Card]

EvidenceInit ==
  /\ now = 0
  /\ evals = [e \in Evaluations |-> NewEvaluation]
  /\ snapshots = {}
  /\ checks = {}
  /\ cards = [r \in Readers |-> NewCard]

Tick ==
  /\ now < MaxTime
  /\ now' = now + 1
  /\ UNCHANGED <<evals, snapshots, checks, cards>>

----------------------------------------------------------------------------
(* The worker.                                                              *)

(* GetService of ProcessServiceEvaluationJob; the attempt ends when the     *)
(* read fails or finds no row.                                              *)
ReadService(e) ==
  /\ evals[e].pc = "new"
  /\ \/ \E i \in Ids :
          /\ Stored(i)
          /\ evals' = [evals EXCEPT ![e] = [pc |-> "read", service |-> i,
                                            profile |-> services[i], version |-> version[i],
                                            readAt |-> now, at |-> 0]]
     \/ evals' = [evals EXCEPT ![e].pc = "done"]
  /\ UNCHANGED <<now, snapshots, checks, cards>>

(* Fault: evaluated_at is a time from before the read, such as the job's.   *)
StampEarly(e) ==
  /\ evals[e].pc = "read"
  /\ evals' = [evals EXCEPT ![e].pc = "stamped", ![e].at = Skew[e]]
  /\ UNCHANGED <<now, snapshots, checks, cards>>

(* c.now(), read once the service has arrived.                              *)
StampEvaluation(e) ==
  /\ evals[e].pc = "read"
  /\ evals' = [evals EXCEPT ![e].pc = "stamped", ![e].at = now + Skew[e]]
  /\ UNCHANGED <<now, snapshots, checks, cards>>

(* Evaluate: the snapshot and its rows.                                     *)
SnapshotOf(e) ==
  LET v == evals[e] IN
  [id |-> e, service |-> v.service, state |-> State(v.profile), score |-> Score(v.profile),
   evaluatedAt |-> v.at, version |-> v.version, readAt |-> v.readAt]

RowsOf(e) ==
  {[snapshot |-> e, service |-> evals[e].service, name |-> c,
    status |-> CheckResults(evals[e].profile)[c]] : c \in Check}

(* Fault: the snapshot is stored in a statement of its own.                 *)
SaveInTwoSteps(e) ==
  /\ evals[e].pc = "stamped"
  /\ evals' = [evals EXCEPT ![e].pc = "done"]
  /\ snapshots' = snapshots \union {SnapshotOf(e)}
  /\ \E all \in BOOLEAN : checks' = IF all THEN checks \union RowsOf(e) ELSE checks
  /\ UNCHANGED <<now, cards>>

(* SaveReadinessEvaluation: snapshot and rows, both or neither.             *)
SaveReadinessEvaluation(e) ==
  /\ evals[e].pc = "stamped"
  /\ evals' = [evals EXCEPT ![e].pc = "done"]
  /\ \/ /\ snapshots' = snapshots \union {SnapshotOf(e)}
        /\ checks' = checks \union RowsOf(e)
     \/ UNCHANGED <<snapshots, checks>>
  /\ UNCHANGED <<now, cards>>

----------------------------------------------------------------------------
(* The scorecard request.                                                   *)

(* Any of the reads may fail: 500.                                          *)
FailCard(r) ==
  /\ cards[r].pc \in {"new", "snapshot", "checks"}
  /\ cards' = [cards EXCEPT ![r].pc = "error"]
  /\ UNCHANGED <<now, evals, snapshots, checks>>

GetService(r) ==
  /\ cards[r].pc = "new"
  /\ \E i \in Ids :
       \/ /\ Stored(i)
          /\ cards' = [cards EXCEPT ![r].pc = "snapshot", ![r].service = i,
                                    ![r].known = {n \in snapshots : n.service = i}]
       \/ ~Stored(i) /\ cards' = [cards EXCEPT ![r].pc = "not_found"]
  /\ UNCHANGED <<now, evals, snapshots, checks>>

(* Fault: ORDER BY evaluated_at without DESC.                               *)
EarliestSnapshots(s) ==
  {n \in snapshots : n.service = s
     /\ \A o \in snapshots : o.service = s => n.evaluatedAt <= o.evaluatedAt}

(* WHERE service_id = $1 ORDER BY evaluated_at DESC LIMIT 1; of equal times  *)
(* any may come first.                                                       *)
LatestSnapshots(s) ==
  {n \in snapshots : n.service = s
     /\ \A o \in snapshots : o.service = s => o.evaluatedAt <= n.evaluatedAt}

GetLatestSnapshot(r) ==
  /\ cards[r].pc = "snapshot"
  /\ \/ /\ LatestSnapshots(cards[r].service) = {}
        /\ cards' = [cards EXCEPT ![r].pc = "not_found"]
     \/ \E n \in LatestSnapshots(cards[r].service) :
          cards' = [cards EXCEPT ![r].pc = "checks", ![r].snapshot = n]
  /\ UNCHANGED <<now, evals, snapshots, checks>>

(* WHERE snapshot_id = $1.                                                  *)
RowsOfSnapshot(card) == {c \in checks : c.snapshot = card.snapshot.id}

GetChecks(r) ==
  /\ cards[r].pc = "checks"
  /\ cards' = [cards EXCEPT ![r].pc = "ok", ![r].checks = RowsOfSnapshot(cards[r])]
  /\ UNCHANGED <<now, evals, snapshots, checks>>

----------------------------------------------------------------------------
EvidenceStep ==
  \/ Tick
  \/ \E e \in Evaluations : ReadService(e) \/ StampEvaluation(e) \/ SaveReadinessEvaluation(e)
  \/ \E r \in Readers : GetService(r) \/ GetLatestSnapshot(r) \/ GetChecks(r) \/ FailCard(r)

EvidenceNext ==
  \/ Next /\ UNCHANGED evidence
  \/ EvidenceStep /\ UNCHANGED vars

EvidenceSpec == Init /\ EvidenceInit /\ [][EvidenceNext]_<<vars, evidence>>

----------------------------------------------------------------------------
Counting(rows, status) == Cardinality({c \in rows : c.status = status})

(* A scorecard adds up although it is put together from three reads: it has  *)
(* the ten rows of its snapshot, and state and score follow from them.       *)
CardAddsUp ==
  \A r \in Readers :
    cards[r].pc = "ok" =>
      LET rows == cards[r].checks
          fails == Counting(rows, "fail")
          warns == Counting(rows, "warn")
          score == 100 - 30 * fails - 10 * warns
      IN  /\ {c.name : c \in rows} = Check /\ Cardinality(rows) = 10
          /\ \A c \in rows : c.service = cards[r].service
          /\ cards[r].snapshot.score = IF score < 0 THEN 0 ELSE score
          /\ cards[r].snapshot.state = "ready" <=> fails + warns = 0
          /\ cards[r].snapshot.state = "blocked" <=> fails > 0

(* The evidence it shows is at least as late as any that was stored when the *)
(* request came.                                                             *)
CardIsLatest ==
  \A r \in Readers :
    cards[r].pc = "ok" =>
      \A n \in cards[r].known : n.evaluatedAt <= cards[r].snapshot.evaluatedAt

(* What a client may rely on: a scorecard that adds up, no older than its   *)
(* request.                                                                  *)
CardIsSound == CardAddsUp /\ CardIsLatest

(* Evidence of an older profile can come out later than evidence of a newer  *)
(* one, but only by as much as its own evaluation took and the clocks        *)
(* differ: a newer profile is never stamped, in true time, before the older  *)
(* one was read.                                                             *)
OldEvidenceIsBounded ==
  \A n, o \in snapshots :
    n.service = o.service /\ n.version < o.version =>
      o.evaluatedAt - Skew[o.id] >= n.readAt
============================================================================
