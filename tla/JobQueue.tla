------------------------------ MODULE JobQueue ------------------------------
(***************************************************************************)
(* The asynchronous evaluation path: API requests that enqueue jobs         *)
(* (QueueServiceEvaluation), the jobs table and its lease statements        *)
(* (ClaimJobs, MarkJobCompleted, MarkJobFailed), and the worker processes   *)
(* that drain it (Worker.Run, runOnce, ProcessServiceEvaluationJob).        *)
(*                                                                          *)
(* One action is one database call together with the code around it.  A     *)
(* call has one of three outcomes: it commits and is answered ("ok"), it    *)
(* commits and the answer never arrives ("lost": a broken connection or a   *)
(* cancelled context), or it does not commit ("err").  The caller cannot    *)
(* tell the last two apart.                                                 *)
(***************************************************************************)
EXTENDS Integers, FiniteSets

CONSTANTS Requests,    \* POST evaluation requests; each draws its own job uuid
          Services,    \* service ids a request may name
          Registered,  \* the ones that have a row in services
          Keys,        \* Idempotency-Key values a client may send
          Workers,     \* worker processes; a restarted one has a new id
          MaxAttempts, \* jobs.max_attempts
          BatchSize,   \* worker batch size
          Lease,       \* worker lease, in seconds
          Skew,        \* worker clock minus database clock, per worker
          MaxSkew,     \* a bound on Skew
          ApiSkew,     \* API clock minus database clock
          None         \* SQL NULL, the empty lock_owner, an absent header

ASSUME NamesAssumption ==
  /\ Registered \subseteq Services
  /\ Keys \intersect Requests = {}
  /\ None \notin Requests \union Services \union Keys \union Workers \union Int

ASSUME BoundsAssumption ==
  /\ MaxAttempts \in Nat \ {0}
  /\ BatchSize \in Nat \ {0}
  /\ Lease \in Nat \ {0}
  /\ IsFiniteSet(Requests)

ASSUME ClockAssumption ==
  /\ ApiSkew \in Int
  /\ MaxSkew \in Int
  /\ Skew \in [Workers -> Int]
  /\ \A w \in Workers : Skew[w] <= MaxSkew

VARIABLES jobs,       \* the jobs table: [JobIds -> Row], "absent" before INSERT
          now,        \* the database clock, NOW()
          pc,         \* [Workers -> WorkerPC]
          claims,     \* the rows a worker got from ClaimJobs and has not finished
          cur,        \* the claim a worker is processing
          req,        \* [Requests -> Request]: the handlers of the API
          snapshots,  \* the readiness_snapshots table
          audit       \* the audit_events table

vars == <<jobs, now, pc, claims, cur, req, snapshots, audit>>

----------------------------------------------------------------------------
(* Types.                                                                  *)

JobIds == Requests

\* A request without a key gets a generated one, which no other request has.
AllKeys == Keys \union Requests

Row == [status      : {"absent", "pending", "processing", "completed", "failed"},
        resource    : Services \union {None},
        key         : AllKeys \union {None},
        attempts    : 0..MaxAttempts,
        availableAt : Int,
        lockedAt    : Int \union {None},
        lockOwner   : Workers \union {None}]

NoRow == [status |-> "absent", resource |-> None, key |-> None, attempts |-> 0,
          availableAt |-> 0, lockedAt |-> None, lockOwner |-> None]

\* What a worker keeps of a claimed row (RETURNING ...).
Claim == [job : JobIds, service : Services, attempts : 1..MaxAttempts, lockedAt : Int]

WorkerPC == {"off", "idle", "next", "save", "audit", "complete", "fail", "dead"}

Request == [pc      : {"new", "enqueue", "audit", "accepted", "failed"},
            service : Services \union {None},
            key     : AllKeys \union {None},
            stamp   : Int,
            job     : JobIds \union {None}]

NoRequest == [pc |-> "new", service |-> None, key |-> None, stamp |-> 0, job |-> None]

\* job_id and service_id are columns; attempt and worker say which attempt's
\* fresh snapshot uuid this is.
Snapshot == [job : JobIds, service : Services, attempt : 1..MaxAttempts, worker : Workers]

\* request_id is the HTTP request's id or, for a worker, the job's; details
\* name the job or the snapshot.
Event == [type : {"service.evaluation_requested", "service.evaluated"},
          resource : Services, requestId : Requests, details : JobIds \union Snapshot]

TypeOK ==
  /\ jobs \in [JobIds -> Row]
  /\ now \in Nat
  /\ pc \in [Workers -> WorkerPC]
  /\ claims \in [Workers -> SUBSET Claim]
  /\ cur \in [Workers -> Claim \union {None}]
  /\ req \in [Requests -> Request]
  /\ snapshots \in SUBSET Snapshot
  /\ audit \in SUBSET Event

----------------------------------------------------------------------------
Outcomes == {"ok", "lost", "err"}
Commits(out) == out \in {"ok", "lost"}

Present(j) == jobs[j].status # "absent"

Init ==
  /\ jobs = [j \in JobIds |-> NoRow]
  /\ now = 0
  /\ pc = [w \in Workers |-> "off"]
  /\ claims = [w \in Workers |-> {}]
  /\ cur = [w \in Workers |-> None]
  /\ req = [r \in Requests |-> NoRequest]
  /\ snapshots = {}
  /\ audit = {}

----------------------------------------------------------------------------
(* API: POST /v1/services/{serviceID}/evaluations, QueueServiceEvaluation.  *)
(* A handler that dies or whose client goes away ends like a failed one.    *)

\* The row a request asks to insert: pending, untried, stamped by the API clock.
NewRow(r) ==
  [status |-> "pending", resource |-> req[r].service, key |-> req[r].key,
   attempts |-> 0, availableAt |-> req[r].stamp, lockedAt |-> None, lockOwner |-> None]

\* Faulty: finished rows free their key.
ConflictingUnfinished(r) ==
  {j \in JobIds : jobs[j].status \in {"pending", "processing"} /\ jobs[j].key = req[r].key}

\* Rows in conflict with a new one under UNIQUE (type, idempotency_key).  The
\* row of job r itself cannot be among them: its id is drawn by this request.
Conflicting(r) == {j \in JobIds : Present(j) /\ jobs[j].key = req[r].key}

(* GetService, then the clock reading and the key of the new job.          *)
LookUpService(r) ==
  /\ req[r].pc = "new"
  /\ \E s \in Services, k \in Keys \union {None}, out \in {"ok", "err"} :
       req' = [req EXCEPT ![r] =
                 IF out = "ok" /\ s \in Registered
                 THEN [pc |-> "enqueue", service |-> s,
                       key |-> IF k = None THEN r ELSE k,
                       stamp |-> now + ApiSkew, job |-> None]
                 ELSE [NoRequest EXCEPT !.pc = "failed"]]
  /\ UNCHANGED <<jobs, now, pc, claims, cur, snapshots, audit>>

(* EnqueueJob: insert, or find the row that already has the key; that row  *)
(* keeps everything but updated_at.                                        *)
EnqueueJob(r) ==
  /\ req[r].pc = "enqueue"
  /\ \E out \in Outcomes :
       \/ /\ Conflicting(r) = {}
          /\ jobs' = IF Commits(out) THEN [jobs EXCEPT ![r] = NewRow(r)] ELSE jobs
          /\ req' = [req EXCEPT ![r].pc = IF out = "ok" THEN "audit" ELSE "failed",
                                ![r].job = IF out = "ok" THEN r ELSE None]
       \/ /\ \E j \in Conflicting(r) :
               req' = [req EXCEPT ![r].pc = IF out = "ok" THEN "audit" ELSE "failed",
                                  ![r].job = IF out = "ok" THEN j ELSE None]
          /\ UNCHANGED jobs
  /\ UNCHANGED <<now, pc, claims, cur, snapshots, audit>>

RequestedEvent(r) ==
  [type |-> "service.evaluation_requested", resource |-> req[r].service,
   requestId |-> r, details |-> req[r].job]

(* InsertAuditEvent; the handler answers 202 only after it.                *)
AuditRequest(r) ==
  /\ req[r].pc = "audit"
  /\ \E out \in Outcomes :
       /\ audit' = IF Commits(out) THEN audit \union {RequestedEvent(r)} ELSE audit
       /\ req' = [req EXCEPT ![r].pc = IF out = "ok" THEN "accepted" ELSE "failed"]
  /\ UNCHANGED <<jobs, now, pc, claims, cur, snapshots>>

----------------------------------------------------------------------------
(* The jobs table's lease statements.                                      *)

\* Faulty: the lease is not subtracted.
ExpiredAtOnce(w) == now + Skew[w]

\* The worker passes time.Now() - lease, by its own clock.
ExpiredBefore(w) == now + Skew[w] - Lease

\* Faulty: leases never expire.
EligibleNoTakeover(w, j) ==
  /\ jobs[j].attempts < MaxAttempts
  /\ jobs[j].status \in {"pending", "failed"} /\ jobs[j].availableAt <= now

\* Faulty: every row that is not leased is taken, completed ones too.
EligibleNotLeased(w, j) ==
  /\ jobs[j].attempts < MaxAttempts
  /\ jobs[j].status \notin {"absent", "processing"} /\ jobs[j].availableAt <= now

\* The WHERE clause of ClaimJobs.
Eligible(w, j) ==
  /\ jobs[j].attempts < MaxAttempts
  /\ \/ jobs[j].status \in {"pending", "failed"} /\ jobs[j].availableAt <= now
     \/ /\ jobs[j].status = "processing"
        /\ jobs[j].lockedAt # None
        /\ jobs[j].lockedAt < ExpiredBefore(w)

\* Faulty: taking over an expired lease does not count as an attempt.
LeasedUncounted(w, j) ==
  [jobs[j] EXCEPT !.status = "processing", !.lockedAt = now, !.lockOwner = w,
                  !.attempts = IF jobs[j].status = "processing" THEN @ ELSE @ + 1]

\* The row ClaimJobs leaves behind.
Leased(w, j) ==
  [jobs[j] EXCEPT !.status = "processing", !.lockedAt = now, !.lockOwner = w,
                  !.attempts = @ + 1]

ClaimOf(row, j) ==
  [job |-> j, service |-> row.resource, attempts |-> row.attempts,
   lockedAt |-> row.lockedAt]

\* Faulty: any worker may mark a leased row.
HoldsAnyLease(w, j) == jobs[j].status = "processing"

\* Faulty: the row is marked by id alone.
HoldsRow(w, j) == Present(j)

\* The WHERE clause of MarkJobCompleted and MarkJobFailed.
HoldsLease(w, j) == jobs[j].status = "processing" /\ jobs[j].lockOwner = w

\* 1 << k seconds for k = 0..6.
Shift == <<1, 2, 4, 8, 16, 32, 64>>

\* min(1 << min(attempts, 6) seconds, 1 minute)
Backoff(n) ==
  LET seconds == Shift[(IF n < 6 THEN n ELSE 6) + 1]
  IN  IF seconds > 60 THEN 60 ELSE seconds

CompletedRow(w) ==
  [jobs[cur[w].job] EXCEPT !.status = "completed", !.lockedAt = None, !.lockOwner = None]

FailedRow(w) ==
  [jobs[cur[w].job] EXCEPT !.status = "failed", !.lockedAt = None, !.lockOwner = None,
                           !.availableAt = now + Skew[w] + Backoff(cur[w].attempts)]

----------------------------------------------------------------------------
(* Worker processes.                                                       *)

Start(w) ==
  /\ pc[w] = "off"
  /\ pc' = [pc EXCEPT ![w] = "idle"]
  /\ UNCHANGED <<jobs, now, claims, cur, req, snapshots, audit>>

\* Faulty: a worker tops up its batch before it has drained it.
ClaimJobsEagerly(w) ==
  /\ pc[w] \in {"idle", "next"}
  /\ \E batch \in SUBSET {j \in JobIds : Eligible(w, j)} :
       /\ Cardinality(batch) <= BatchSize
       /\ jobs' = [j \in JobIds |-> IF j \in batch THEN Leased(w, j) ELSE jobs[j]]
       /\ claims' = [claims EXCEPT ![w] = @ \union {ClaimOf(Leased(w, j), j) : j \in batch}]
       /\ pc' = [pc EXCEPT ![w] = IF claims[w] \union batch = {} THEN "idle" ELSE "next"]
  /\ UNCHANGED <<now, cur, req, snapshots, audit>>

(* ClaimJobs.  The statement orders by available_at and created_at but      *)
(* skips every row some concurrent statement has locked, so any set of      *)
(* eligible rows up to the batch size can come back; RETURNING gives them   *)
(* in no particular order.                                                  *)
ClaimJobs(w) ==
  /\ pc[w] = "idle"
  /\ \E batch \in SUBSET {j \in JobIds : Eligible(w, j)}, out \in Outcomes :
       /\ Cardinality(batch) <= BatchSize
       /\ jobs' = IF Commits(out)
                  THEN [j \in JobIds |-> IF j \in batch THEN Leased(w, j) ELSE jobs[j]]
                  ELSE jobs
       /\ claims' = [claims EXCEPT ![w] =
                       IF out = "ok" THEN {ClaimOf(Leased(w, j), j) : j \in batch} ELSE {}]
       /\ pc' = [pc EXCEPT ![w] = IF out = "ok" /\ batch # {} THEN "next" ELSE "idle"]
  /\ UNCHANGED <<now, cur, req, snapshots, audit>>

(* The head of runOnce's loop and GetService of processJob.                *)
ReadService(w) ==
  /\ pc[w] = "next"
  /\ \E c \in claims[w], out \in {"ok", "err"} :
       /\ cur' = [cur EXCEPT ![w] = c]
       /\ pc' = [pc EXCEPT ![w] =
                   IF out = "ok" /\ c.service \in Registered THEN "save" ELSE "fail"]
  /\ UNCHANGED <<jobs, now, claims, req, snapshots, audit>>

\* Evaluate draws a fresh snapshot id for this attempt.
SnapshotOf(w) ==
  [job |-> cur[w].job, service |-> cur[w].service, attempt |-> cur[w].attempts,
   worker |-> w]

\* Faulty: the error of the save is dropped.
SaveUnchecked(w) ==
  /\ pc[w] = "save"
  /\ \E out \in Outcomes :
       snapshots' = IF Commits(out) THEN snapshots \union {SnapshotOf(w)} ELSE snapshots
  /\ pc' = [pc EXCEPT ![w] = "audit"]
  /\ UNCHANGED <<jobs, now, claims, cur, req, audit>>

(* SaveReadinessEvaluation: one transaction, snapshot and check results.   *)
SaveReadinessEvaluation(w) ==
  /\ pc[w] = "save"
  /\ \E out \in Outcomes :
       /\ snapshots' = IF Commits(out) THEN snapshots \union {SnapshotOf(w)} ELSE snapshots
       /\ pc' = [pc EXCEPT ![w] = IF out = "ok" THEN "audit" ELSE "fail"]
  /\ UNCHANGED <<jobs, now, claims, cur, req, audit>>

EvaluatedEvent(s) ==
  [type |-> "service.evaluated", resource |-> s.service, requestId |-> s.job,
   details |-> s]

(* InsertAuditEvent at the end of ProcessServiceEvaluationJob.             *)
AuditEvaluation(w) ==
  /\ pc[w] = "audit"
  /\ \E out \in Outcomes :
       /\ audit' = IF Commits(out) THEN audit \union {EvaluatedEvent(SnapshotOf(w))} ELSE audit
       /\ pc' = [pc EXCEPT ![w] = IF out = "ok" THEN "complete" ELSE "fail"]
  /\ UNCHANGED <<jobs, now, claims, cur, req, snapshots>>

\* runOnce goes on with the next claimed job, or returns to Run.
NextOrIdle(rest) == IF rest = {} THEN "idle" ELSE "next"

(* The worker's side of a Mark statement that matched or missed its row:    *)
(* an error, or a count of rows other than 1, makes runOnce return and      *)
(* forget the rest of the batch.                                            *)
AfterMark(w, out) ==
  LET rest == IF out = "ok" /\ HoldsLease(w, cur[w].job) THEN claims[w] \ {cur[w]} ELSE {}
  IN  /\ claims' = [claims EXCEPT ![w] = rest]
      /\ pc' = [pc EXCEPT ![w] = NextOrIdle(rest)]
      /\ cur' = [cur EXCEPT ![w] = None]

MarkJobCompleted(w) ==
  /\ pc[w] = "complete"
  /\ \E out \in Outcomes :
       /\ jobs' = IF Commits(out) /\ HoldsLease(w, cur[w].job)
                  THEN [jobs EXCEPT ![cur[w].job] = CompletedRow(w)] ELSE jobs
       /\ AfterMark(w, out)
  /\ UNCHANGED <<now, req, snapshots, audit>>

MarkJobFailed(w) ==
  /\ pc[w] = "fail"
  /\ \E out \in Outcomes :
       /\ jobs' = IF Commits(out) /\ HoldsLease(w, cur[w].job)
                  THEN [jobs EXCEPT ![cur[w].job] = FailedRow(w)] ELSE jobs
       /\ AfterMark(w, out)
  /\ UNCHANGED <<now, req, snapshots, audit>>

(* The process is killed, or its context is cancelled and every further     *)
(* call, MarkJobFailed included, fails at once.  Its rows stay "processing" *)
(* under an id no later process has.  Some worker process remains.          *)
Stop(w) ==
  /\ pc[w] \notin {"off", "dead"}
  /\ \E v \in Workers \ {w} : pc[v] # "dead"
  /\ pc' = [pc EXCEPT ![w] = "dead"]
  /\ claims' = [claims EXCEPT ![w] = {}]
  /\ cur' = [cur EXCEPT ![w] = None]
  /\ UNCHANGED <<jobs, now, req, snapshots, audit>>

(* A second passes.  Time matters only to a row that may still be tried and *)
(* whose available_at or lease lies ahead, so it stands still when there is *)
(* none; this bounds the clock without a cap.                               *)
Waiting(w, j) ==
  /\ jobs[j].attempts < MaxAttempts
  /\ \/ jobs[j].status \in {"pending", "failed"} /\ jobs[j].availableAt > now
     \/ jobs[j].status = "processing" /\ jobs[j].lockedAt >= ExpiredBefore(w)

Tick ==
  /\ \E w \in Workers, j \in JobIds : Waiting(w, j)
  /\ now' = now + 1
  /\ UNCHANGED <<jobs, pc, claims, cur, req, snapshots, audit>>

----------------------------------------------------------------------------
RequestStep(r) == LookUpService(r) \/ EnqueueJob(r) \/ AuditRequest(r)

WorkerStep(w) ==
  \/ Start(w)
  \/ ClaimJobs(w)
  \/ ReadService(w)
  \/ SaveReadinessEvaluation(w)
  \/ AuditEvaluation(w)
  \/ MarkJobCompleted(w)
  \/ MarkJobFailed(w)

Next ==
  \/ \E r \in Requests : RequestStep(r)
  \/ \E w \in Workers : WorkerStep(w)
  \/ \E w \in Workers : Stop(w)
  \/ Tick

Spec == Init /\ [][Next]_vars

(* Run's loop never ends while its process lives, and processes are kept    *)
(* running; a claim that fails or finds nothing leaves every variable       *)
(* alone, so the fairness asks that claims do not fail for ever.            *)
Fairness ==
  /\ \A w \in Workers : WF_vars(WorkerStep(w))
  /\ WF_vars(Tick)

FairSpec == Spec /\ Fairness

----------------------------------------------------------------------------
(* Properties.                                                             *)

(* MarkJobCompleted and MarkJobFailed check lock_owner and not the attempt. *)
(* That is enough because a worker never holds a claim that is older than   *)
(* the lease its id has on the row: when the row carries its id, the claim  *)
(* in its hands is the one that put it there.                               *)
LeaseFencing ==
  \A w \in Workers : \A c \in claims[w] :
    HoldsLease(w, c.job) =>
      /\ jobs[c.job].attempts = c.attempts
      /\ jobs[c.job].lockedAt = c.lockedAt

(* Until a claim is older than the lease, allowing for the fastest worker   *)
(* clock, its holder and nobody else has the row: no other worker can have  *)
(* claimed, completed or failed the job (the predicate of ClaimJobs).       *)
LeaseProtects ==
  \A w \in Workers : \A c \in claims[w] :
    now + MaxSkew <= c.lockedAt + Lease =>
      HoldsLease(w, c.job) /\ jobs[c.job].attempts = c.attempts

(* One attempt of a job runs in one worker and leaves at most one snapshot, *)
(* however often leases expire, answers are lost or processes die.          *)
AttemptRunsOnce ==
  /\ \A v, w \in Workers : \A c \in claims[v], d \in claims[w] :
       c.job = d.job /\ c.attempts = d.attempts => v = w /\ c = d
  /\ \A s, t \in snapshots : s.job = t.job /\ s.attempt = t.attempt => s = t

(* A job is completed only by the attempt that evaluated it: the row's      *)
(* current attempt has stored its snapshot, for the service of the row, and *)
(* the "service.evaluated" event that names it.  A worker whose lease was   *)
(* taken over cannot complete the job in the name of its successor.         *)
CompletedHasEvidence ==
  \A j \in JobIds : jobs[j].status = "completed" =>
    \E s \in snapshots :
      /\ s.job = j /\ s.attempt = jobs[j].attempts /\ s.service = jobs[j].resource
      /\ EvaluatedEvent(s) \in audit

(* Nothing touches a completed row again: not a late MarkJobFailed of an    *)
(* overtaken worker, not a claim, not a request that repeats the key.       *)
CompletedIsFinal ==
  [][\A j \in JobIds : jobs[j].status = "completed" => jobs'[j] = jobs[j]]_vars

(* The Idempotency-Key header: a key has one job, whatever requests race or *)
(* are retried, and the job a request is told about is the one with its key.*)
OneJobPerKey ==
  /\ \A i, j \in JobIds :
       Present(i) /\ Present(j) /\ jobs[i].key = jobs[j].key => i = j
  /\ \A r \in Requests : req[r].job # None =>
       Present(req[r].job) /\ jobs[req[r].job].key = req[r].key

(* The audit trail reports no evaluation that is not stored, and none for a *)
(* service other than the job's.                                            *)
AuditedEvaluationsExist ==
  \A e \in audit : e.type = "service.evaluated" =>
    /\ e.details \in snapshots
    /\ e.resource = jobs[e.details.job].resource

(* A job that may be tried again is never forgotten, whatever worker had it *)
(* when its process died or its answer was lost: it is completed, or it     *)
(* uses up its attempts.                                                    *)
Settled(j) == jobs[j].status = "completed" \/ jobs[j].attempts = MaxAttempts

EveryJobSettles == \A j \in JobIds : Present(j) ~> Settled(j)

(* The queue implements the abstract job of module EvaluationJob.           *)
Phase(row) ==
  CASE row.status = "absent"    -> "none"
    [] row.status = "completed" -> "done"
    [] OTHER                    -> "open"

Abstract == INSTANCE EvaluationJob
  WITH Jobs <- JobIds, MaxTries <- MaxAttempts,
       phase <- [j \in JobIds |-> Phase(jobs[j])],
       tries <- [j \in JobIds |-> jobs[j].attempts],
       evidence <- {[job |-> s.job, try |-> s.attempt] : s \in snapshots}

(* Every step of requests and workers is a step of the abstract job or      *)
(* changes nothing of it: in particular no evidence is stored twice for a   *)
(* try and none for a try that never started.                               *)
ImplementsEvaluationJob == Abstract!ASpec

(* What the properties above rest on.  Rows: a row is leased exactly while  *)
(* it has an owner, and names its service and key from the INSERT on.       *)
RowShape ==
  \A j \in JobIds :
    /\ Present(j) => jobs[j].resource \in Services /\ jobs[j].key \in AllKeys
    /\ ~Present(j) => jobs[j].attempts = 0
    /\ jobs[j].status = "processing" <=> jobs[j].lockOwner # None
    /\ jobs[j].status = "processing" => jobs[j].lockedAt \in Int

(* Handlers: a handler's job row exists only once it has called EnqueueJob. *)
RequestShape ==
  \A r \in Requests :
    /\ req[r].pc \in {"enqueue", "audit", "accepted"} =>
         req[r].service \in Services /\ req[r].key \in AllKeys
    /\ req[r].pc \in {"new", "enqueue"} => ~Present(r)
    /\ req[r].pc \in {"audit", "accepted"} => req[r].job \in JobIds

(* Workers: claims exist only inside runOnce's loop.                       *)
WorkerShape ==
  \A w \in Workers :
    /\ pc[w] \in {"off", "idle", "dead"} => claims[w] = {}
    /\ pc[w] \in {"save", "audit", "complete", "fail"} => cur[w] \in claims[w]

(* Claims: the row of a claim exists and is at this attempt or a later one; *)
(* a worker has one claim per job, and no two workers have the same attempt.*)
ClaimShape ==
  \A w \in Workers : \A c \in claims[w] :
    /\ Present(c.job)
    /\ c.service = jobs[c.job].resource
    /\ c.attempts <= jobs[c.job].attempts
    /\ \A v \in Workers : \A d \in claims[v] :
         c.job = d.job /\ (v = w \/ c.attempts = d.attempts) => v = w /\ c = d

(* A claim is live, or its lease has run out by the fastest clock.         *)
LeaseCovers ==
  \A w \in Workers : \A c \in claims[w] :
    \/ /\ HoldsLease(w, c.job)
       /\ jobs[c.job].attempts = c.attempts
    \/ now + MaxSkew > c.lockedAt + Lease

(* Snapshots: they belong to attempts that were started, and the attempt of *)
(* a claim has none before its worker has called SaveReadinessEvaluation.   *)
SnapshotShape ==
  /\ \A s \in snapshots :
       /\ Present(s.job)
       /\ s.service = jobs[s.job].resource
       /\ s.attempt <= jobs[s.job].attempts
  /\ \A s, t \in snapshots : s.job = t.job /\ s.attempt = t.attempt => s = t
  /\ \A w \in Workers : \A c \in claims[w] :
       pc[w] \in {"next", "save"} \/ c # cur[w] =>
         \A s \in snapshots : ~(s.job = c.job /\ s.attempt = c.attempts)

(* A worker that goes on to mark the job completed has stored the evidence. *)
SavedEvidence ==
  \A w \in Workers :
    /\ pc[w] \in {"audit", "complete"} => SnapshotOf(w) \in snapshots
    /\ pc[w] = "complete" => EvaluatedEvent(SnapshotOf(w)) \in audit

(* The inductive invariant behind the theorems of JobQueueProofs: shapes of *)
(* rows, handlers, workers and claims, fencing, lease cover and evidence.   *)
Shapes == TypeOK /\ RowShape /\ RequestShape /\ WorkerShape
Leases == ClaimShape /\ LeaseFencing /\ LeaseCovers
Evidence == SnapshotShape /\ SavedEvidence /\ CompletedHasEvidence

Inductive == Shapes /\ Leases /\ Evidence

(* README.md:115 "evaluation requests are persisted": the job of a request  *)
(* that was answered 202 is a job for the service the request named.        *)
AcceptedMeansQueued ==
  \A r \in Requests : req[r].pc = "accepted" =>
    jobs[req[r].job].resource = req[r].service
============================================================================
