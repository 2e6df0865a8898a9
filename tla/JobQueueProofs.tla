--------------------------- MODULE JobQueueProofs ---------------------------
(***************************************************************************)
(* Theorems about JobQueue for every set of requests, services, keys and    *)
(* workers, every limit on attempts, batch size, lease and clock skew.      *)
(* The inductive invariant is JobQueue!Inductive, in three layers: Shapes   *)
(* stands alone, Leases needs Shapes, Evidence needs both.                  *)
(***************************************************************************)
EXTENDS JobQueue, TLAPS

USE DEF JobIds

(* The retry delay of MarkJobFailed is a number of seconds.                *)
LEMMA BackoffType == \A n \in 1..MaxAttempts : Backoff(n) \in Nat
  BY BoundsAssumption DEF Backoff, Shift

(* The empty tables satisfy the first layer.                               *)
LEMMA InitShapes == Init => Shapes
  BY NamesAssumption, BoundsAssumption
  DEF Init, Shapes, TypeOK, RowShape, RequestShape, WorkerShape, NoRow, NoRequest,
      Row, Request, Present, AllKeys, WorkerPC

(* The row a claim leaves is a row, and what the worker keeps is a claim.   *)
LEMMA LeasedType ==
  ASSUME TypeOK, RowShape, NEW w \in Workers, NEW j \in JobIds, Eligible(w, j)
  PROVE  /\ Leased(w, j) \in Row
         /\ Leased(w, j).status = "processing"
         /\ Leased(w, j).lockOwner = w
         /\ Leased(w, j).lockedAt = now
         /\ Leased(w, j).attempts = jobs[j].attempts + 1
         /\ Leased(w, j).resource = jobs[j].resource
         /\ Leased(w, j).key = jobs[j].key
         /\ Present(j)
         /\ ClaimOf(Leased(w, j), j) \in Claim
  <1>1. jobs[j] \in Row /\ now \in Int
    BY DEF TypeOK
  <1>2. jobs[j].attempts \in 0..MaxAttempts /\ jobs[j].attempts < MaxAttempts
    BY <1>1 DEF Row, Eligible
  <1>2a. jobs[j].attempts + 1 \in 1..MaxAttempts /\ jobs[j].attempts + 1 \in 0..MaxAttempts
    BY <1>2, BoundsAssumption
  <1>3. Present(j) /\ jobs[j].resource \in Services
    BY DEF Eligible, Present, RowShape
  <1>4. Leased(w, j) \in Row
    BY <1>1, <1>2a DEF Leased, Row
  <1>5. /\ Leased(w, j).status = "processing"
        /\ Leased(w, j).lockOwner = w
        /\ Leased(w, j).lockedAt = now
        /\ Leased(w, j).attempts = jobs[j].attempts + 1
        /\ Leased(w, j).resource = jobs[j].resource
        /\ Leased(w, j).key = jobs[j].key
    BY <1>1 DEF Leased, Row
  <1>6. ClaimOf(Leased(w, j), j) \in Claim
    BY <1>1, <1>2a, <1>3, <1>5 DEF ClaimOf, Claim
  <1> QED
    BY <1>3, <1>4, <1>5, <1>6

(* The rows the Mark statements leave.                                     *)
LEMMA MarkedType ==
  ASSUME TypeOK, NEW w \in Workers, cur[w] \in Claim
  PROVE  LET j == cur[w].job IN
         /\ j \in JobIds
         /\ CompletedRow(w) = [jobs[j] EXCEPT !.status = "completed", !.lockedAt = None,
                                              !.lockOwner = None]
         /\ CompletedRow(w) \in Row
         /\ FailedRow(w) \in Row
         /\ FailedRow(w).status = "failed"
         /\ FailedRow(w).lockOwner = None
         /\ FailedRow(w).attempts = jobs[j].attempts
         /\ FailedRow(w).resource = jobs[j].resource
         /\ FailedRow(w).key = jobs[j].key
         /\ CompletedRow(w).status = "completed"
         /\ CompletedRow(w).lockOwner = None
         /\ CompletedRow(w).attempts = jobs[j].attempts
         /\ CompletedRow(w).resource = jobs[j].resource
         /\ CompletedRow(w).key = jobs[j].key
  <1>1. cur[w].job \in JobIds /\ cur[w].attempts \in 1..MaxAttempts
    BY DEF Claim
  <1>2. jobs[cur[w].job] \in Row /\ now \in Int
    BY <1>1 DEF TypeOK
  <1>3. Backoff(cur[w].attempts) \in Nat /\ Skew[w] \in Int
    BY <1>1, BackoffType, ClockAssumption
  <1>4. now + Skew[w] + Backoff(cur[w].attempts) \in Int
    BY <1>2, <1>3
  <1> QED
    BY <1>1, <1>2, <1>4 DEF CompletedRow, FailedRow, Row

(***************************************************************************)
(* Layer 1: Shapes.                                                         *)
(***************************************************************************)

(* What AfterMark leaves of the worker's own state.                        *)
AfterMarkTyped(w) ==
  /\ pc' \in [Workers -> WorkerPC]
  /\ claims' \in [Workers -> SUBSET Claim]
  /\ cur' \in [Workers -> Claim \union {None}]
  /\ WorkerShape'

(* After a Mark statement the worker has fewer claims, and none when idle.  *)
LEMMA AfterMarkShape ==
  ASSUME TypeOK, WorkerShape, NEW w \in Workers, NEW out, AfterMark(w, out)
  PROVE  AfterMarkTyped(w)
  <1>1. PICK rest \in SUBSET claims[w] :
          /\ claims' = [claims EXCEPT ![w] = rest]
          /\ pc' = [pc EXCEPT ![w] = IF rest = {} THEN "idle" ELSE "next"]
          /\ cur' = [cur EXCEPT ![w] = None]
    BY DEF AfterMark, NextOrIdle
  <1> QED
    BY <1>1 DEF AfterMarkTyped, TypeOK, WorkerShape, WorkerPC

(* Every step keeps the types and the shapes of rows, handlers and workers. *)
LEMMA NextShapes == Shapes /\ [Next]_vars => Shapes'
  <1> SUFFICES ASSUME Shapes, [Next]_vars PROVE Shapes'
    OBVIOUS
  <1> USE DEF Shapes
  <1>t. TypeOK /\ RowShape /\ RequestShape /\ WorkerShape
    OBVIOUS
  <1>1. ASSUME NEW r \in Requests, LookUpService(r) PROVE Shapes'
    <2>1. PICK s \in Services, k \in Keys \union {None}, out \in {"ok", "err"} :
            req' = [req EXCEPT ![r] =
                 IF out = "ok" /\ s \in Registered
                 THEN [pc |-> "enqueue", service |-> s,
                       key |-> IF k = None THEN r ELSE k,
                       stamp |-> now + ApiSkew, job |-> None]
                 ELSE [NoRequest EXCEPT !.pc = "failed"]]
      BY <1>1 DEF LookUpService
    <2>2. now + ApiSkew \in Int
      BY ClockAssumption DEF TypeOK
    <2>3. /\ req'[r] \in Request
          /\ req'[r].pc \in {"enqueue", "failed"}
          /\ req'[r].pc = "enqueue" => req'[r].service \in Services /\ req'[r].key \in AllKeys
      BY <2>1, <2>2 DEF TypeOK, Request, NoRequest, AllKeys
    <2>4. \A q \in Requests \ {r} : req'[q] = req[q]
      BY <2>1 DEF TypeOK
    <2>5. req' \in [Requests -> Request]
      BY <2>1, <2>3, <2>4 DEF TypeOK
    <2>6. TypeOK'
      BY <1>1, <2>5 DEF TypeOK, LookUpService
    <2>7. RequestShape'
      BY <1>1, <2>3, <2>4 DEF RequestShape, LookUpService, Present
    <2> QED
      BY <1>1, <2>6, <2>7 DEF LookUpService, RowShape, WorkerShape, Present
  <1>2. ASSUME NEW r \in Requests, EnqueueJob(r) PROVE Shapes'
    <2>1. req[r].pc = "enqueue" /\ ~Present(r) /\ req[r] \in Request
          /\ req[r].service \in Services /\ req[r].key \in AllKeys
      BY <1>2 DEF EnqueueJob, RequestShape, TypeOK
    <2>2. NewRow(r) \in Row /\ NewRow(r).resource \in Services /\ NewRow(r).key \in AllKeys
          /\ NewRow(r).status = "pending" /\ NewRow(r).lockOwner = None
      BY <2>1, BoundsAssumption DEF NewRow, Row, Request
    <2>3. jobs' = jobs \/ jobs' = [jobs EXCEPT ![r] = NewRow(r)]
      BY <1>2 DEF EnqueueJob
    <2>4. PICK p \in {"audit", "failed"}, i \in JobIds \union {None} :
            /\ req' = [req EXCEPT ![r].pc = p, ![r].job = i]
            /\ p = "audit" => i \in JobIds
      BY <1>2 DEF EnqueueJob, Conflicting
    <2>4a. req'[r] = [req[r] EXCEPT !.pc = p, !.job = i]
          /\ \A q \in Requests \ {r} : req'[q] = req[q]
      BY <2>4 DEF TypeOK
    <2>4b. [req[r] EXCEPT !.pc = p, !.job = i] \in Request
      BY <2>1 DEF Request
    <2>5. /\ req'[r] \in Request
          /\ req'[r].pc \in {"audit", "failed"}
          /\ req'[r].service = req[r].service /\ req'[r].key = req[r].key
          /\ req'[r].pc = "audit" => req'[r].job \in JobIds
      BY <2>1, <2>4, <2>4a, <2>4b, ZenonT(30) DEF Request
    <2>5a. req' \in [Requests -> Request]
      BY <2>4, <2>5 DEF TypeOK
    <2>6. jobs' \in [JobIds -> Row] /\ \A j \in JobIds \ {r} : jobs'[j] = jobs[j]
      BY <2>2, <2>3 DEF TypeOK
    <2>7. TypeOK'
      BY <1>2, <2>5a, <2>6 DEF TypeOK, EnqueueJob
    <2>8. RowShape'
      BY <2>2, <2>3, <2>6 DEF RowShape, Present, TypeOK
    <2>9. RequestShape'
      BY <2>1, <2>4a, <2>5, <2>6 DEF RequestShape, Present
    <2> QED
      BY <1>2, <2>7, <2>8, <2>9 DEF WorkerShape, EnqueueJob
  <1>3. ASSUME NEW r \in Requests, AuditRequest(r) PROVE Shapes'
    <2>1. req[r].pc = "audit" /\ req[r] \in Request
          /\ req[r].service \in Services /\ req[r].job \in JobIds
      BY <1>3 DEF AuditRequest, RequestShape, TypeOK
    <2>2. RequestedEvent(r) \in Event
      BY <2>1 DEF RequestedEvent, Event
    <2>3. \E p \in {"accepted", "failed"} : req' = [req EXCEPT ![r].pc = p]
      BY <1>3 DEF AuditRequest
    <2>4. /\ req' \in [Requests -> Request]
          /\ req'[r] = [req[r] EXCEPT !.pc = req'[r].pc]
          /\ req'[r].pc \in {"accepted", "failed"}
          /\ \A q \in Requests \ {r} : req'[q] = req[q]
      BY <2>1, <2>3 DEF TypeOK, Request
    <2>5. TypeOK'
      BY <1>3, <2>2, <2>4 DEF TypeOK, AuditRequest
    <2>6. RequestShape'
      BY <1>3, <2>1, <2>4 DEF RequestShape, Present, AuditRequest, Request
    <2> QED
      BY <1>3, <2>5, <2>6 DEF AuditRequest, RowShape, WorkerShape, Present
  <1>4. ASSUME NEW w \in Workers, Start(w) PROVE Shapes'
    BY <1>4 DEF Start, TypeOK, RowShape, RequestShape, WorkerShape, Present, WorkerPC
  <1>5. ASSUME NEW w \in Workers, ClaimJobs(w) PROVE Shapes'
    <2>1. PICK batch \in SUBSET {j \in JobIds : Eligible(w, j)}, out \in Outcomes :
            /\ jobs' = IF Commits(out)
                       THEN [j \in JobIds |-> IF j \in batch THEN Leased(w, j) ELSE jobs[j]]
                       ELSE jobs
            /\ claims' = [claims EXCEPT ![w] =
                            IF out = "ok" THEN {ClaimOf(Leased(w, j), j) : j \in batch} ELSE {}]
            /\ pc' = [pc EXCEPT ![w] = IF out = "ok" /\ batch # {} THEN "next" ELSE "idle"]
      BY <1>5 DEF ClaimJobs
    <2>2. \A j \in batch : Eligible(w, j) /\ j \in JobIds
      OBVIOUS
    <2>3. \A j \in JobIds : jobs'[j] = jobs[j] \/ (j \in batch /\ jobs'[j] = Leased(w, j))
      <3>0. jobs' = IF Commits(out)
                    THEN [j \in JobIds |-> IF j \in batch THEN Leased(w, j) ELSE jobs[j]]
                    ELSE jobs
        BY <2>1
      <3>1. CASE Commits(out)
        BY <3>0, <3>1
      <3>2. CASE ~Commits(out)
        BY <3>0, <3>2
      <3> QED
        BY <3>1, <3>2
    <2>4. jobs' \in [JobIds -> Row]
      BY <2>1, <2>2, <1>t, LeasedType DEF TypeOK
    <2>5. claims'[w] \subseteq Claim
      BY <2>1, <2>2, <1>t, LeasedType DEF TypeOK
    <2>6. TypeOK'
      BY <1>5, <2>1, <2>4, <2>5 DEF TypeOK, ClaimJobs, WorkerPC
    <2>7. None \notin Workers /\ now \in Int
      BY NamesAssumption DEF TypeOK
    <2>8. RowShape'
      <3> SUFFICES ASSUME NEW j \in JobIds PROVE RowShape!(j)'
        BY DEF RowShape
      <3>1. CASE jobs'[j] = jobs[j]
        BY <3>1 DEF RowShape, Present
      <3>2. CASE j \in batch /\ jobs'[j] = Leased(w, j)
        BY <3>2, <2>2, <2>7, <1>t, LeasedType DEF RowShape, Present
      <3> QED
        BY <2>3, <3>1, <3>2
    <2>9. RequestShape'
      BY <1>5, <2>2, <2>3, <1>t, LeasedType DEF RequestShape, Present, ClaimJobs
    <2>10. WorkerShape'
      BY <1>5, <2>1 DEF WorkerShape, ClaimJobs, TypeOK
    <2> QED
      BY <2>6, <2>8, <2>9, <2>10
  <1>6. ASSUME NEW w \in Workers, ReadService(w) PROVE Shapes'
    <2>1. TypeOK'
      BY <1>6 DEF ReadService, TypeOK, WorkerPC
    <2>2. WorkerShape'
      BY <1>6 DEF ReadService, TypeOK, WorkerShape
    <2> QED
      BY <1>6, <2>1, <2>2 DEF ReadService, RowShape, RequestShape, Present
  <1>7. ASSUME NEW w \in Workers, SaveReadinessEvaluation(w) PROVE Shapes'
    <2>1. cur[w] \in Claim
      BY <1>7 DEF SaveReadinessEvaluation, WorkerShape, TypeOK
    <2>2. SnapshotOf(w) \in Snapshot
      BY <2>1 DEF SnapshotOf, Snapshot, Claim
    <2>3. TypeOK'
      BY <1>7, <2>2 DEF SaveReadinessEvaluation, TypeOK, WorkerPC
    <2>4. WorkerShape'
      BY <1>7 DEF SaveReadinessEvaluation, TypeOK, WorkerShape
    <2> QED
      BY <1>7, <2>3, <2>4 DEF SaveReadinessEvaluation, RowShape, RequestShape, Present
  <1>8. ASSUME NEW w \in Workers, AuditEvaluation(w) PROVE Shapes'
    <2>1. cur[w] \in Claim
      BY <1>8 DEF AuditEvaluation, WorkerShape, TypeOK
    <2>2. SnapshotOf(w) \in Snapshot
      BY <2>1 DEF SnapshotOf, Snapshot, Claim
    <2>3. EvaluatedEvent(SnapshotOf(w)) \in Event
      BY <2>2 DEF EvaluatedEvent, Event, Snapshot
    <2>4. TypeOK'
      BY <1>8, <2>3 DEF AuditEvaluation, TypeOK, WorkerPC
    <2>5. WorkerShape'
      BY <1>8 DEF AuditEvaluation, TypeOK, WorkerShape
    <2> QED
      BY <1>8, <2>4, <2>5 DEF AuditEvaluation, RowShape, RequestShape, Present
  <1>9. ASSUME NEW w \in Workers, MarkJobCompleted(w) PROVE Shapes'
    <2>1. cur[w] \in Claim
      BY <1>9 DEF MarkJobCompleted, WorkerShape, TypeOK
    <2>2. PICK out \in Outcomes :
            /\ jobs' = IF Commits(out) /\ HoldsLease(w, cur[w].job)
                       THEN [jobs EXCEPT ![cur[w].job] = CompletedRow(w)] ELSE jobs
            /\ AfterMark(w, out)
      BY <1>9 DEF MarkJobCompleted
    <2>3. AfterMarkTyped(w)
      BY <2>2, <1>t, AfterMarkShape
    <2>4. \A j \in JobIds : \/ jobs'[j] = jobs[j]
                            \/ Present(j) /\ jobs'[j] = CompletedRow(w) /\ j = cur[w].job
      BY <2>1, <2>2 DEF TypeOK, HoldsLease, Present
    <2>5. jobs' \in [JobIds -> Row]
      BY <2>1, <2>2, <1>t, MarkedType DEF TypeOK
    <2>6. TypeOK'
      BY <1>9, <2>3, <2>5 DEF TypeOK, MarkJobCompleted, AfterMarkTyped
    <2>7. RowShape'
      <3> SUFFICES ASSUME NEW j \in JobIds PROVE RowShape!(j)'
        BY DEF RowShape
      <3>1. CASE jobs'[j] = jobs[j]
        BY <3>1, SMTT(30) DEF RowShape, Present
      <3>2. CASE Present(j) /\ jobs'[j] # jobs[j]
        BY <3>2, <2>1, <2>4, <1>t, MarkedType, ZenonT(30) DEF RowShape, Present
      <3> QED
        BY <2>4, <3>1, <3>2
    <2>8. RequestShape'
      BY <1>9, <2>1, <2>4, <1>t, MarkedType DEF RequestShape, Present, MarkJobCompleted
    <2> QED
      BY <2>3, <2>6, <2>7, <2>8 DEF AfterMarkTyped
  <1>10. ASSUME NEW w \in Workers, MarkJobFailed(w) PROVE Shapes'
    <2>1. cur[w] \in Claim
      BY <1>10 DEF MarkJobFailed, WorkerShape, TypeOK
    <2>2. PICK out \in Outcomes :
            /\ jobs' = IF Commits(out) /\ HoldsLease(w, cur[w].job)
                       THEN [jobs EXCEPT ![cur[w].job] = FailedRow(w)] ELSE jobs
            /\ AfterMark(w, out)
      BY <1>10 DEF MarkJobFailed
    <2>3. AfterMarkTyped(w)
      BY <2>2, <1>t, AfterMarkShape
    <2>4. \A j \in JobIds : \/ jobs'[j] = jobs[j]
                            \/ Present(j) /\ jobs'[j] = FailedRow(w) /\ j = cur[w].job
      BY <2>1, <2>2 DEF TypeOK, HoldsLease, Present
    <2>5. jobs' \in [JobIds -> Row]
      BY <2>1, <2>2, <1>t, MarkedType DEF TypeOK
    <2>6. TypeOK'
      BY <1>10, <2>3, <2>5, SMTT(30) DEF TypeOK, MarkJobFailed, AfterMarkTyped
    <2>7. RowShape'
      <3> SUFFICES ASSUME NEW j \in JobIds PROVE RowShape!(j)'
        BY DEF RowShape
      <3>1. CASE jobs'[j] = jobs[j]
        BY <3>1, SMTT(30) DEF RowShape, Present
      <3>2. CASE Present(j) /\ jobs'[j] # jobs[j]
        BY <3>2, <2>1, <2>4, <1>t, MarkedType, ZenonT(30) DEF RowShape, Present
      <3> QED
        BY <2>4, <3>1, <3>2
    <2>8. RequestShape'
      BY <1>10, <2>1, <2>4, <1>t, MarkedType, ZenonT(30) DEF RequestShape, Present, MarkJobFailed
    <2> QED
      BY <2>3, <2>6, <2>7, <2>8 DEF AfterMarkTyped
  <1>11. ASSUME NEW w \in Workers, Stop(w) PROVE Shapes'
    BY <1>11 DEF Stop, TypeOK, RowShape, RequestShape, WorkerShape, Present, WorkerPC
  <1>12. CASE Tick
    BY <1>12 DEF Tick, TypeOK, RowShape, RequestShape, WorkerShape, Present
  <1>13. CASE UNCHANGED vars
    BY <1>13 DEF vars, TypeOK, RowShape, RequestShape, WorkerShape, Present
  <1> QED
    BY <1>1, <1>2, <1>3, <1>4, <1>5, <1>6, <1>7, <1>8, <1>9, <1>10, <1>11, <1>12, <1>13
    DEF Next, RequestStep, WorkerStep

(***************************************************************************)
(* What the steps do to rows and claims, for the layers above.              *)
(***************************************************************************)

(* The rows of a batch are leased to w and its claims are for these rows.   *)
LeasesBatch(w, batch) ==
  /\ \A j \in batch : Eligible(w, j) /\ jobs'[j] = Leased(w, j)
  /\ \A j \in JobIds \ batch : jobs'[j] = jobs[j]
  /\ \A c \in claims'[w] : \E j \in batch : c = ClaimOf(Leased(w, j), j)
  /\ \A v \in Workers \ {w} : claims'[v] = claims[v]

(* ClaimJobs leases the rows of a batch; the worker had no claim before and *)
(* gets those of the batch, or none when the answer is lost.                *)
LEMMA ClaimJobsEffect ==
  ASSUME Shapes, NEW w \in Workers, ClaimJobs(w)
  PROVE  /\ claims[w] = {}
         /\ \E batch \in SUBSET JobIds : LeasesBatch(w, batch)
  <1>1. PICK b \in SUBSET {j \in JobIds : Eligible(w, j)}, out \in Outcomes :
          /\ jobs' = IF Commits(out)
                     THEN [j \in JobIds |-> IF j \in b THEN Leased(w, j) ELSE jobs[j]]
                     ELSE jobs
          /\ claims' = [claims EXCEPT ![w] =
                          IF out = "ok" THEN {ClaimOf(Leased(w, j), j) : j \in b} ELSE {}]
    BY DEF ClaimJobs
  <1>2. claims[w] = {}
    BY DEF ClaimJobs, Shapes, WorkerShape
  <1>3. \A v \in Workers \ {w} : claims'[v] = claims[v]
    BY <1>1 DEF Shapes, TypeOK
  <1>4. claims'[w] = IF out = "ok" THEN {ClaimOf(Leased(w, j), j) : j \in b} ELSE {}
    BY <1>1 DEF Shapes, TypeOK
  <1>5. CASE Commits(out)
    <2>1. \A j \in b : jobs'[j] = Leased(w, j)
      BY <1>1, <1>5
    <2>2. \A j \in JobIds \ b : jobs'[j] = jobs[j]
      BY <1>1, <1>5
    <2>3. \A c \in claims'[w] : \E j \in b : c = ClaimOf(Leased(w, j), j)
      BY <1>4
    <2>4. b \in SUBSET JobIds /\ \A j \in b : Eligible(w, j)
      OBVIOUS
    <2> QED
      BY <1>2, <1>3, <2>1, <2>2, <2>3, <2>4 DEF LeasesBatch
  <1>6. CASE ~Commits(out)
    <2>1. claims'[w] = {} /\ jobs' = jobs
      BY <1>1, <1>4, <1>6 DEF Commits
    <2>2. LeasesBatch(w, {})
      BY <1>3, <2>1 DEF LeasesBatch
    <2> QED
      BY <1>2, <2>2
  <1> QED
    BY <1>5, <1>6

(* A Mark statement changes at most the row of the worker's current claim,  *)
(* and that only while the row is leased to the worker; the claim is gone.  *)
LEMMA MarkEffect ==
  ASSUME Shapes, NEW w \in Workers, MarkJobCompleted(w) \/ MarkJobFailed(w)
  PROVE  /\ cur[w] \in claims[w]
         /\ cur[w] \in Claim
         /\ claims'[w] \subseteq claims[w] \ {cur[w]}
         /\ \A v \in Workers \ {w} : claims'[v] = claims[v]
         /\ \A j \in JobIds :
              \/ jobs'[j] = jobs[j]
              \/ /\ j = cur[w].job
                 /\ HoldsLease(w, j)
                 /\ jobs'[j].status \in {"completed", "failed"}
                 /\ jobs'[j].status = "completed" => pc[w] = "complete"
                 /\ jobs'[j].lockOwner = None
                 /\ jobs'[j].attempts = jobs[j].attempts
                 /\ jobs'[j].resource = jobs[j].resource
                 /\ jobs'[j].key = jobs[j].key
  <1>1. cur[w] \in claims[w] /\ cur[w] \in Claim
    BY DEF MarkJobCompleted, MarkJobFailed, Shapes, WorkerShape, TypeOK
  <1>2. PICK row \in {CompletedRow(w), FailedRow(w)}, out \in Outcomes :
          /\ jobs' = IF Commits(out) /\ HoldsLease(w, cur[w].job)
                     THEN [jobs EXCEPT ![cur[w].job] = row] ELSE jobs
          /\ row = CompletedRow(w) \/ row = FailedRow(w)
          /\ row = CompletedRow(w) => pc[w] = "complete" \/ FailedRow(w) = CompletedRow(w)
          /\ AfterMark(w, out)
    BY DEF MarkJobCompleted, MarkJobFailed
  <1>3. /\ row.status \in {"completed", "failed"}
        /\ row.status = "completed" => pc[w] = "complete"
        /\ row.lockOwner = None
        /\ row.attempts = jobs[cur[w].job].attempts
        /\ row.resource = jobs[cur[w].job].resource
        /\ row.key = jobs[cur[w].job].key
    BY <1>1, <1>2, MarkedType DEF Shapes
  <1>4. \A j \in JobIds :
          jobs'[j] = jobs[j] \/ (j = cur[w].job /\ HoldsLease(w, j) /\ jobs'[j] = row)
    BY <1>1, <1>2 DEF Shapes, TypeOK
  <1>5. /\ claims'[w] \subseteq claims[w] \ {cur[w]}
        /\ \A v \in Workers \ {w} : claims'[v] = claims[v]
    BY <1>2 DEF AfterMark, Shapes, TypeOK
  <1> QED
    BY <1>1, <1>3, <1>4, <1>5

(* EnqueueJob changes no row that exists; a new row has its request's key.  *)
LEMMA EnqueueEffect ==
  ASSUME Shapes, NEW r \in Requests, EnqueueJob(r)
  PROVE  /\ ~Present(r)
         /\ \A j \in JobIds \ {r} : jobs'[j] = jobs[j]
         /\ \/ jobs'[r] = jobs[r]
            \/ /\ Conflicting(r) = {}
               /\ jobs'[r].status = "pending"
               /\ jobs'[r].attempts = 0
               /\ jobs'[r].key = req[r].key
               /\ jobs'[r].lockOwner = None
  <1>1. ~Present(r)
    BY DEF EnqueueJob, Shapes, RequestShape
  <1>2. jobs' = jobs \/ (Conflicting(r) = {} /\ jobs' = [jobs EXCEPT ![r] = NewRow(r)])
    BY DEF EnqueueJob
  <1> QED
    BY <1>1, <1>2 DEF Shapes, TypeOK, NewRow

(***************************************************************************)
(* Layer 2: Leases.                                                         *)
(***************************************************************************)

(* No claims, nothing to show.                                             *)
LEMMA InitLeases == Init => Leases
  BY DEF Init, Leases, ClaimShape, LeaseFencing, LeaseCovers

(* Steps that leave rows, clock and claims alone, or only drop claims.      *)
LEMMA DropClaims ==
  ASSUME Shapes, Leases, UNCHANGED <<jobs, now>>,
         \A w \in Workers : claims'[w] \subseteq claims[w]
  PROVE  Leases'
  BY DEF Leases, ClaimShape, LeaseFencing, LeaseCovers, HoldsLease, Present

(* Every step keeps claims in step with the rows they came from.           *)
LEMMA NextLeases == Shapes /\ Leases /\ [Next]_vars => Leases'
  <1> SUFFICES ASSUME Shapes, Leases, [Next]_vars PROVE Leases'
    OBVIOUS
  <1>t. /\ \A w \in Workers : \A c \in claims[w] :
             /\ c.job \in JobIds
             /\ c.attempts \in Int /\ c.lockedAt \in Int
             /\ jobs[c.job].attempts \in Int
        /\ now \in Int /\ MaxSkew \in Int /\ Lease \in Int
    BY ClockAssumption, BoundsAssumption DEF Shapes, TypeOK, Claim, Row
  <1>1. ASSUME NEW r \in Requests, LookUpService(r) PROVE Leases'
    BY <1>1, DropClaims DEF LookUpService
  <1>2. ASSUME NEW r \in Requests, EnqueueJob(r) PROVE Leases'
    <2>1. /\ ~Present(r)
          /\ \A j \in JobIds \ {r} : jobs'[j] = jobs[j]
          /\ now' = now /\ claims' = claims
      BY <1>2, EnqueueEffect DEF EnqueueJob
    <2>2. \A w \in Workers : \A c \in claims[w] : c.job # r /\ jobs'[c.job] = jobs[c.job]
      BY <1>t, <2>1 DEF Leases, ClaimShape
    <2> QED
      BY <2>1, <2>2 DEF Leases, ClaimShape, LeaseFencing, LeaseCovers, HoldsLease, Present
  <1>3. ASSUME NEW r \in Requests, AuditRequest(r) PROVE Leases'
    BY <1>3, DropClaims DEF AuditRequest
  <1>4. ASSUME NEW w \in Workers, Start(w) PROVE Leases'
    BY <1>4, DropClaims DEF Start
  <1>5. ASSUME NEW w \in Workers, ClaimJobs(w) PROVE Leases'
    <2>1. claims[w] = {} /\ now' = now
      BY <1>5, ClaimJobsEffect DEF ClaimJobs
    <2>2. PICK batch \in SUBSET JobIds : LeasesBatch(w, batch)
      BY <1>5, ClaimJobsEffect
    <2>3. \A j \in batch :
            /\ Present(j) /\ jobs'[j].status = "processing"
            /\ jobs'[j].lockOwner = w /\ jobs'[j].lockedAt = now
            /\ jobs'[j].attempts = jobs[j].attempts + 1
            /\ jobs[j].attempts \in Int
            /\ jobs'[j].resource = jobs[j].resource
      BY <2>2, LeasedType DEF Shapes, LeasesBatch, TypeOK, Row
    <2>4. \A c \in claims'[w] : \E j \in batch :
            /\ c.job = j /\ c.service = jobs'[j].resource
            /\ c.attempts = jobs'[j].attempts /\ c.lockedAt = jobs'[j].lockedAt
            /\ c = ClaimOf(jobs'[j], j)
      BY <2>2 DEF LeasesBatch, ClaimOf
    <2>5. \A v \in Workers \ {w} : claims'[v] = claims[v]
      BY <2>2 DEF LeasesBatch
    <2>6. \A j \in JobIds : j \notin batch => jobs'[j] = jobs[j]
      BY <2>2 DEF LeasesBatch
    <2>7. ClaimShape'
      <3>1. ASSUME NEW v \in Workers, NEW c \in claims'[v]
            PROVE  /\ Present(c.job)'
                   /\ c.service = jobs'[c.job].resource
                   /\ c.attempts <= jobs'[c.job].attempts
        <4>1. CASE v = w
          BY <2>3, <2>4, <3>1, <4>1 DEF Present
        <4>2. CASE v # w
          BY <1>t, <2>3, <2>5, <2>6, <3>1, <4>2 DEF Leases, ClaimShape, Present
        <4> QED
          BY <4>1, <4>2
      <3>2. ASSUME NEW v \in Workers \ {w}, NEW c \in claims'[v], NEW d \in claims'[w],
                   c.job = d.job
            PROVE  c.attempts < d.attempts
        BY <1>t, <2>3, <2>4, <2>5, <3>2 DEF Leases, ClaimShape
      <3>3. ASSUME NEW v \in Workers, NEW u \in Workers,
                   NEW c \in claims'[v], NEW d \in claims'[u],
                   c.job = d.job, u = v \/ c.attempts = d.attempts
            PROVE  u = v /\ c = d
        <4>0. c.attempts \in Int /\ d.attempts \in Int
          BY <1>t, <2>3, <2>4, <2>5
        <4>1. CASE u = w /\ v = w
          BY <2>4, <3>3, <4>1
        <4>2. CASE u = w /\ v # w
          BY <3>2, <3>3, <4>0, <4>2
        <4>3. CASE u # w /\ v = w
          BY <3>2, <3>3, <4>0, <4>3
        <4>4. CASE u # w /\ v # w
          BY <2>5, <3>3, <4>4 DEF Leases, ClaimShape
        <4> QED
          BY <4>1, <4>2, <4>3, <4>4
      <3> QED
        BY <3>1, <3>3 DEF ClaimShape
    <2>8. LeaseFencing'
      <3> SUFFICES ASSUME NEW v \in Workers, NEW c \in claims'[v], HoldsLease(v, c.job)'
                   PROVE  jobs'[c.job].attempts = c.attempts /\ jobs'[c.job].lockedAt = c.lockedAt
        BY DEF LeaseFencing
      <3>1. CASE v = w
        BY <2>4, <3>1
      <3>2. CASE v # w
        BY <1>t, <2>3, <2>5, <2>6, <3>2 DEF Leases, LeaseFencing, HoldsLease
      <3> QED
        BY <3>1, <3>2
    <2>9. LeaseCovers'
      <3> SUFFICES ASSUME NEW v \in Workers, NEW c \in claims'[v]
                   PROVE  \/ HoldsLease(v, c.job)' /\ jobs'[c.job].attempts = c.attempts
                          \/ now' + MaxSkew > c.lockedAt + Lease
        BY DEF LeaseCovers
      <3>1. CASE v = w
        BY <2>3, <2>4, <3>1 DEF HoldsLease
      <3>2. CASE v # w /\ c.job \notin batch
        BY <1>t, <2>1, <2>5, <2>6, <3>2 DEF Leases, LeaseCovers, HoldsLease
      <3>3. CASE v # w /\ c.job \in batch
        <4>1. c \in claims[v] /\ Eligible(w, c.job)
          BY <2>2, <2>5, <3>3 DEF LeasesBatch
        <4>2. CASE HoldsLease(v, c.job)
          <5>1. jobs[c.job].lockedAt = c.lockedAt
            BY <4>1, <4>2 DEF Leases, LeaseFencing
          <5>2. c.lockedAt < now + Skew[w] - Lease
            BY <4>1, <4>2, <5>1 DEF Eligible, HoldsLease, ExpiredBefore
          <5> QED
            BY <1>t, <2>1, <4>1, <5>2, ClockAssumption
        <4>3. CASE ~HoldsLease(v, c.job)
          BY <2>1, <4>1, <4>3 DEF Leases, LeaseCovers
        <4> QED
          BY <4>2, <4>3
      <3> QED
        BY <3>1, <3>2, <3>3
    <2> QED
      BY <2>7, <2>8, <2>9 DEF Leases
  <1>6. ASSUME NEW w \in Workers, ReadService(w) PROVE Leases'
    BY <1>6, DropClaims DEF ReadService
  <1>7. ASSUME NEW w \in Workers, SaveReadinessEvaluation(w) PROVE Leases'
    BY <1>7, DropClaims DEF SaveReadinessEvaluation
  <1>8. ASSUME NEW w \in Workers, AuditEvaluation(w) PROVE Leases'
    BY <1>8, DropClaims DEF AuditEvaluation
  <1>9. ASSUME NEW w \in Workers, MarkJobCompleted(w) \/ MarkJobFailed(w) PROVE Leases'
    <2>1. now' = now /\ \A v \in Workers : claims'[v] \subseteq claims[v]
      BY <1>9, MarkEffect DEF MarkJobCompleted, MarkJobFailed
    <2>2. \A j \in JobIds :
            /\ jobs'[j].attempts = jobs[j].attempts /\ jobs'[j].resource = jobs[j].resource
            /\ Present(j) => Present(j)'
      BY <1>9, MarkEffect DEF Present
    <2>3. \A v \in Workers : \A c \in claims'[v] : jobs'[c.job] = jobs[c.job] \/ ~HoldsLease(v, c.job)
      <3> SUFFICES ASSUME NEW v \in Workers, NEW c \in claims'[v], HoldsLease(v, c.job),
                          jobs'[c.job] # jobs[c.job]
                   PROVE  FALSE
        OBVIOUS
      <3>1. c \in claims[v] /\ c.job \in JobIds
        BY <1>t, <2>1
      <3>2. c.job = cur[w].job /\ HoldsLease(w, c.job) /\ cur[w] \in claims[w]
        BY <1>9, <3>1, MarkEffect
      <3>3. v = w
        BY <3>2 DEF HoldsLease
      <3>4. c = cur[w]
        BY <3>1, <3>2, <3>3 DEF Leases, ClaimShape
      <3> QED
        BY <1>9, <3>3, <3>4, MarkEffect
    <2>4. \A v \in Workers : \A c \in claims'[v] :
            jobs'[c.job] = jobs[c.job] \/ ~HoldsLease(v, c.job)'
      <3> SUFFICES ASSUME NEW v \in Workers, NEW c \in claims'[v], jobs'[c.job] # jobs[c.job]
                   PROVE  ~HoldsLease(v, c.job)'
        OBVIOUS
      <3>1. c.job \in JobIds
        BY <1>t, <2>1
      <3> QED
        BY <1>9, <3>1, MarkEffect DEF HoldsLease
    <2>5. ClaimShape'
      BY <1>t, <2>1, <2>2 DEF Leases, ClaimShape
    <2>6. LeaseFencing'
      BY <1>t, <2>1, <2>4 DEF Leases, LeaseFencing, HoldsLease
    <2>7. LeaseCovers'
      BY <1>t, <2>1, <2>3 DEF Leases, LeaseCovers, HoldsLease
    <2> QED
      BY <2>5, <2>6, <2>7 DEF Leases
  <1>10. ASSUME NEW w \in Workers, Stop(w) PROVE Leases'
    <2>1. \A v \in Workers : claims'[v] \subseteq claims[v]
      BY <1>10 DEF Stop, Shapes, TypeOK
    <2> QED
      BY <1>10, <2>1, DropClaims DEF Stop
  <1>11. CASE Tick
    <2>1. now' = now + 1 /\ jobs' = jobs /\ claims' = claims
      BY <1>11 DEF Tick
    <2> QED
      BY <1>t, <2>1 DEF Leases, ClaimShape, LeaseFencing, LeaseCovers, HoldsLease, Present
  <1>12. CASE UNCHANGED vars
    BY <1>12, DropClaims DEF vars
  <1> QED
    BY <1>1, <1>2, <1>3, <1>4, <1>5, <1>6, <1>7, <1>8, <1>9, <1>10, <1>11, <1>12
    DEF Next, RequestStep, WorkerStep

(***************************************************************************)
(* Layer 3: Evidence.                                                       *)
(***************************************************************************)

(* No rows, no snapshots, no workers.                                      *)
LEMMA InitEvidence == Init => Evidence
  BY DEF Init, Evidence, SnapshotShape, SavedEvidence, CompletedHasEvidence, NoRow

(* Steps of handlers: no row that exists changes, workers stand still.     *)
LEMMA HandlerEvidence ==
  ASSUME Shapes, Evidence, UNCHANGED <<pc, claims, cur, snapshots>>, audit \subseteq audit',
         \A j \in JobIds : Present(j) => jobs'[j] = jobs[j],
         \A j \in JobIds : ~Present(j) => jobs'[j].status # "completed"
  PROVE  Evidence'
  <1>1. \A s \in snapshots : s.job \in JobIds
    BY DEF Shapes, TypeOK, Snapshot
  <1>2. SnapshotShape'
    BY <1>1 DEF Evidence, SnapshotShape, Present
  <1>3. SavedEvidence'
    BY DEF Evidence, SavedEvidence, SnapshotOf
  <1>4. CompletedHasEvidence'
    BY DEF Evidence, CompletedHasEvidence, Present
  <1> QED
    BY <1>2, <1>3, <1>4 DEF Evidence

(* Every step keeps the evidence behind claims and completed rows.         *)
LEMMA NextEvidence == Shapes /\ Leases /\ Evidence /\ [Next]_vars => Evidence'
  <1> SUFFICES ASSUME Shapes, Leases, Evidence, [Next]_vars PROVE Evidence'
    OBVIOUS
  <1>t. /\ \A w \in Workers : claims[w] \subseteq Claim
        /\ \A c \in Claim : c.job \in JobIds /\ c.attempts \in Int
        /\ \A s \in snapshots : s.job \in JobIds /\ s.attempt \in Int
        /\ \A j \in JobIds : jobs[j].attempts \in Int
    BY DEF Shapes, TypeOK, Claim, Snapshot, Row
  <1>1. ASSUME NEW r \in Requests, LookUpService(r) PROVE Evidence'
    BY <1>1, HandlerEvidence DEF LookUpService, Present
  <1>2. ASSUME NEW r \in Requests, EnqueueJob(r) PROVE Evidence'
    BY <1>2, EnqueueEffect, HandlerEvidence DEF EnqueueJob, Present
  <1>3. ASSUME NEW r \in Requests, AuditRequest(r) PROVE Evidence'
    BY <1>3, HandlerEvidence DEF AuditRequest, Present
  <1>4. ASSUME NEW w \in Workers, Start(w) PROVE Evidence'
    <2>1. pc[w] = "off" /\ claims[w] = {} /\ pc' = [pc EXCEPT ![w] = "idle"]
      BY <1>4 DEF Start, Shapes, WorkerShape
    <2>2. \A v \in Workers : pc'[v] = IF v = w THEN "idle" ELSE pc[v]
      BY <2>1 DEF Shapes, TypeOK
    <2> QED
      BY <1>4, <2>1, <2>2
      DEF Start, Evidence, SnapshotShape, SavedEvidence, CompletedHasEvidence, Present,
          SnapshotOf
  <1>5. ASSUME NEW w \in Workers, ClaimJobs(w) PROVE Evidence'
    <2>1. claims[w] = {} /\ UNCHANGED <<cur, snapshots, audit>>
      BY <1>5, ClaimJobsEffect DEF ClaimJobs
    <2>2. PICK batch \in SUBSET JobIds : LeasesBatch(w, batch)
      BY <1>5, ClaimJobsEffect
    <2>3. \A v \in Workers : pc'[v] = pc[v] \/ (v = w /\ pc'[v] \in {"idle", "next"})
      BY <1>5 DEF ClaimJobs, Shapes, TypeOK
    <2>4. \A j \in batch :
            /\ Present(j) /\ jobs[j].status # "completed" /\ jobs'[j].status = "processing"
            /\ jobs'[j].attempts = jobs[j].attempts + 1
            /\ jobs'[j].resource = jobs[j].resource
      BY <2>2, LeasedType DEF Shapes, LeasesBatch, Eligible
    <2>5. \A j \in JobIds : j \notin batch => jobs'[j] = jobs[j]
      BY <2>2 DEF LeasesBatch
    <2>6. \A c \in claims'[w] : c.job \in batch /\ c.attempts = jobs[c.job].attempts + 1
      <3> SUFFICES ASSUME NEW c \in claims'[w]
                   PROVE  c.job \in batch /\ c.attempts = jobs[c.job].attempts + 1
        OBVIOUS
      <3>1. PICK j \in batch : c = ClaimOf(jobs'[j], j)
        BY <2>2 DEF LeasesBatch
      <3> QED
        BY <2>4, <3>1 DEF ClaimOf
    <2>7. SnapshotShape'
      <3>1. \A s \in snapshots : /\ Present(s.job)'
                                 /\ s.service = jobs'[s.job].resource
                                 /\ s.attempt <= jobs'[s.job].attempts
        BY <1>t, <2>4, <2>5 DEF Evidence, SnapshotShape, Present
      <3>2. \A c \in claims'[w] : \A s \in snapshots :
               ~(s.job = c.job /\ s.attempt = c.attempts)
        BY <1>t, <2>6 DEF Evidence, SnapshotShape
      <3>3. \A v \in Workers \ {w} : claims'[v] = claims[v] /\ pc'[v] = pc[v]
        BY <2>2, <2>3 DEF LeasesBatch
      <3> QED
        BY <2>1, <3>1, <3>2, <3>3 DEF Evidence, SnapshotShape
    <2>8. SavedEvidence'
      BY <2>1, <2>3 DEF Evidence, SavedEvidence, SnapshotOf
    <2>9. CompletedHasEvidence'
      BY <2>1, <2>4, <2>5 DEF Evidence, CompletedHasEvidence
    <2> QED
      BY <2>7, <2>8, <2>9 DEF Evidence
  <1>6. ASSUME NEW w \in Workers, ReadService(w) PROVE Evidence'
    <2>1. /\ UNCHANGED <<jobs, claims, snapshots, audit>>
          /\ pc[w] = "next"
          /\ \A v \in Workers \ {w} : pc'[v] = pc[v] /\ cur'[v] = cur[v]
          /\ pc'[w] \in {"save", "fail"}
      BY <1>6 DEF ReadService, Shapes, TypeOK
    <2>2. SnapshotShape'
      BY <2>1 DEF Evidence, SnapshotShape, Present
    <2>3. SavedEvidence'
      BY <2>1 DEF Evidence, SavedEvidence, SnapshotOf
    <2> QED
      BY <2>1, <2>2, <2>3 DEF Evidence, CompletedHasEvidence
  <1>7. ASSUME NEW w \in Workers, SaveReadinessEvaluation(w) PROVE Evidence'
    <2>1. /\ UNCHANGED <<jobs, claims, cur, audit>>
          /\ pc[w] = "save" /\ cur[w] \in claims[w]
          /\ \A v \in Workers \ {w} : pc'[v] = pc[v]
          /\ pc'[w] \in {"audit", "fail"}
          /\ snapshots' = snapshots \/ snapshots' = snapshots \union {SnapshotOf(w)}
          /\ pc'[w] = "audit" => SnapshotOf(w) \in snapshots'
      BY <1>7 DEF SaveReadinessEvaluation, Shapes, TypeOK, WorkerShape, Commits
    <2>2. /\ SnapshotOf(w).job = cur[w].job /\ SnapshotOf(w).attempt = cur[w].attempts
          /\ SnapshotOf(w).service = cur[w].service
          /\ SnapshotOf(w)' = SnapshotOf(w)
      BY <2>1 DEF SnapshotOf
    <2>3. SnapshotShape'
      <3>1. CASE snapshots' = snapshots
        BY <2>1, <3>1 DEF Evidence, SnapshotShape, Present
      <3>2. CASE snapshots' = snapshots \union {SnapshotOf(w)}
        <4>1. \A s \in snapshots : ~(s.job = cur[w].job /\ s.attempt = cur[w].attempts)
          BY <2>1 DEF Evidence, SnapshotShape
        <4>2. \A s \in snapshots' : /\ Present(s.job)'
                                    /\ s.service = jobs'[s.job].resource
                                    /\ s.attempt <= jobs'[s.job].attempts
          BY <2>1, <2>2, <3>2 DEF Evidence, SnapshotShape, Leases, ClaimShape, Present
        <4>3. \A s, t \in snapshots' : s.job = t.job /\ s.attempt = t.attempt => s = t
          BY <2>2, <3>2, <4>1 DEF Evidence, SnapshotShape
        <4>4. \A v \in Workers : \A c \in claims[v] :
                c.job = cur[w].job /\ c.attempts = cur[w].attempts => v = w /\ c = cur[w]
          BY <2>1 DEF Leases, ClaimShape
        <4>5. \A v \in Workers : \A c \in claims'[v] :
                pc'[v] \in {"next", "save"} \/ c # cur'[v] =>
                  \A s \in snapshots' : ~(s.job = c.job /\ s.attempt = c.attempts)
          BY <2>1, <2>2, <3>2, <4>4 DEF Evidence, SnapshotShape
        <4> QED
          BY <4>2, <4>3, <4>5 DEF SnapshotShape
      <3> QED
        BY <2>1, <3>1, <3>2
    <2>4. SavedEvidence'
      BY <2>1, <2>2 DEF Evidence, SavedEvidence, SnapshotOf
    <2>5. CompletedHasEvidence'
      BY <2>1 DEF Evidence, CompletedHasEvidence
    <2> QED
      BY <2>3, <2>4, <2>5 DEF Evidence
  <1>8. ASSUME NEW w \in Workers, AuditEvaluation(w) PROVE Evidence'
    <2>1. /\ UNCHANGED <<jobs, claims, cur, snapshots>>
          /\ pc[w] = "audit"
          /\ \A v \in Workers \ {w} : pc'[v] = pc[v]
          /\ pc'[w] \in {"complete", "fail"}
          /\ audit \subseteq audit'
          /\ pc'[w] = "complete" => EvaluatedEvent(SnapshotOf(w)) \in audit'
      BY <1>8 DEF AuditEvaluation, Shapes, TypeOK, Commits
    <2>2. SnapshotShape'
      BY <2>1 DEF Evidence, SnapshotShape, Present
    <2>3. SavedEvidence'
      BY <2>1 DEF Evidence, SavedEvidence, SnapshotOf
    <2>4. CompletedHasEvidence'
      BY <2>1 DEF Evidence, CompletedHasEvidence
    <2> QED
      BY <2>2, <2>3, <2>4 DEF Evidence
  <1>9. ASSUME NEW w \in Workers, MarkJobCompleted(w) \/ MarkJobFailed(w) PROVE Evidence'
    <2>1. UNCHANGED <<snapshots, audit>>
      BY <1>9 DEF MarkJobCompleted, MarkJobFailed
    <2>2. /\ \A v \in Workers : claims'[v] \subseteq claims[v]
          /\ cur[w] \in claims[w] /\ cur[w] \notin claims'[w]
          /\ \A j \in JobIds :
               /\ jobs'[j].attempts = jobs[j].attempts /\ jobs'[j].resource = jobs[j].resource
               /\ Present(j) => Present(j)'
      BY <1>9, MarkEffect DEF Present
    <2>3. /\ \A v \in Workers \ {w} : pc'[v] = pc[v] /\ cur'[v] = cur[v]
          /\ pc'[w] \in {"idle", "next"}
      BY <1>9 DEF MarkJobCompleted, MarkJobFailed, AfterMark, NextOrIdle, Shapes, TypeOK
    <2>4. SnapshotShape'
      <3>1. \A v \in Workers : \A c \in claims'[v] :
              pc'[v] \in {"next", "save"} \/ c # cur'[v] =>
                pc[v] \in {"next", "save"} \/ c # cur[v]
        BY <2>2, <2>3
      <3> QED
        BY <1>t, <2>1, <2>2, <3>1 DEF Evidence, SnapshotShape
    <2>5. SavedEvidence'
      BY <2>1, <2>3 DEF Evidence, SavedEvidence, SnapshotOf
    <2>6. CompletedHasEvidence'
      <3> SUFFICES ASSUME NEW j \in JobIds, jobs'[j].status = "completed"
                   PROVE  CompletedHasEvidence!(j)'
        BY DEF CompletedHasEvidence
      <3>1. CASE jobs'[j] = jobs[j]
        BY <2>1, <3>1 DEF Evidence, CompletedHasEvidence
      <3>2. CASE jobs'[j] # jobs[j]
        <4>1. j = cur[w].job /\ HoldsLease(w, j) /\ pc[w] = "complete"
          BY <1>9, <3>2, MarkEffect
        <4>2. /\ SnapshotOf(w) \in snapshots
              /\ EvaluatedEvent(SnapshotOf(w)) \in audit
          BY <4>1 DEF Evidence, SavedEvidence
        <4>3. jobs[j].attempts = cur[w].attempts /\ jobs[j].resource = cur[w].service
          BY <2>2, <4>1 DEF Leases, LeaseFencing, ClaimShape
        <4>4. /\ SnapshotOf(w).job = j /\ SnapshotOf(w).attempt = jobs'[j].attempts
              /\ SnapshotOf(w).service = jobs'[j].resource
          BY <2>2, <4>1, <4>3 DEF SnapshotOf
        <4> QED
          BY <2>1, <4>2, <4>4
      <3> QED
        BY <3>1, <3>2
    <2> QED
      BY <2>4, <2>5, <2>6 DEF Evidence
  <1>10. ASSUME NEW w \in Workers, Stop(w) PROVE Evidence'
    <2>1. /\ UNCHANGED <<jobs, snapshots, audit>>
          /\ \A v \in Workers \ {w} : pc'[v] = pc[v] /\ cur'[v] = cur[v] /\ claims'[v] = claims[v]
          /\ pc'[w] = "dead" /\ claims'[w] = {}
      BY <1>10 DEF Stop, Shapes, TypeOK
    <2>2. SnapshotShape'
      BY <2>1 DEF Evidence, SnapshotShape, Present
    <2>3. SavedEvidence'
      BY <2>1 DEF Evidence, SavedEvidence, SnapshotOf
    <2> QED
      BY <2>1, <2>2, <2>3 DEF Evidence, CompletedHasEvidence
  <1>11. CASE Tick
    BY <1>11, HandlerEvidence DEF Tick, Present
  <1>12. CASE UNCHANGED vars
    BY <1>12, HandlerEvidence DEF vars, Present
  <1> QED
    BY <1>1, <1>2, <1>3, <1>4, <1>5, <1>6, <1>7, <1>8, <1>9, <1>10, <1>11, <1>12
    DEF Next, RequestStep, WorkerStep

(***************************************************************************)
(* The theorems.                                                            *)
(***************************************************************************)

(* The three layers hold in every reachable state.                         *)
THEOREM InductiveInvariant == Spec => []Inductive
  <1>1. Init => Inductive
    BY InitShapes, InitLeases, InitEvidence DEF Inductive
  <1>2. Inductive /\ [Next]_vars => Inductive'
    BY NextShapes, NextLeases, NextEvidence DEF Inductive
  <1> QED
    BY <1>1, <1>2, PTL DEF Spec

(* Every variable keeps its type.                                          *)
THEOREM TypeCorrect == Spec => []TypeOK
  <1>1. Inductive => TypeOK
    BY DEF Inductive, Shapes
  <1> QED
    BY <1>1, InductiveInvariant, PTL

(* The lock_owner check of the Mark statements fences stale claims.        *)
THEOREM Fencing == Spec => []LeaseFencing
  <1>1. Inductive => LeaseFencing
    BY DEF Inductive, Leases
  <1> QED
    BY <1>1, InductiveInvariant, PTL

(* Until its lease has run out by the fastest clock, a claim is exclusive.  *)
THEOREM LeaseExclusion == Spec => []LeaseProtects
  <1>1. Inductive => LeaseProtects
    <2> SUFFICES ASSUME Inductive, NEW w \in Workers, NEW c \in claims[w],
                        now + MaxSkew <= c.lockedAt + Lease
                 PROVE  HoldsLease(w, c.job) /\ jobs[c.job].attempts = c.attempts
      BY DEF LeaseProtects
    <2>1. now \in Int /\ MaxSkew \in Int /\ Lease \in Int /\ c.lockedAt \in Int
      BY ClockAssumption, BoundsAssumption DEF Inductive, Shapes, TypeOK, Claim
    <2> QED
      BY <2>1 DEF Inductive, Leases, LeaseCovers
  <1> QED
    BY <1>1, InductiveInvariant, PTL

(* An attempt runs in one worker and stores at most one snapshot.          *)
THEOREM OneRunPerAttempt == Spec => []AttemptRunsOnce
  <1>1. Inductive => AttemptRunsOnce
    BY DEF Inductive, Leases, ClaimShape, Evidence, SnapshotShape, AttemptRunsOnce
  <1> QED
    BY <1>1, InductiveInvariant, PTL

(* A completed row has the snapshot and the event of its own last attempt.  *)
THEOREM CompletionEvidence == Spec => []CompletedHasEvidence
  <1>1. Inductive => CompletedHasEvidence
    BY DEF Inductive, Evidence
  <1> QED
    BY <1>1, InductiveInvariant, PTL

(* No step changes a completed row.                                        *)
THEOREM CompletionFinal == Spec => CompletedIsFinal
  <1> DEFINE Final == \A j \in JobIds : jobs[j].status = "completed" => jobs'[j] = jobs[j]
  <1>1. Inductive /\ [Next]_vars => [Final]_vars
    <2> SUFFICES ASSUME Inductive, Next PROVE Final
      OBVIOUS
    <2>0. Shapes
      BY DEF Inductive
    <2>1. ASSUME NEW r \in Requests, EnqueueJob(r) PROVE Final
      BY <2>0, <2>1, EnqueueEffect DEF Present
    <2>2. ASSUME NEW w \in Workers, ClaimJobs(w) PROVE Final
      <3>1. PICK batch \in SUBSET JobIds : LeasesBatch(w, batch)
        BY <2>0, <2>2, ClaimJobsEffect
      <3> QED
        BY <3>1 DEF LeasesBatch, Eligible
    <2>3. ASSUME NEW w \in Workers, MarkJobCompleted(w) \/ MarkJobFailed(w) PROVE Final
      <3>1. \A j \in JobIds : jobs'[j] = jobs[j] \/ HoldsLease(w, j)
        BY <2>0, <2>3, MarkEffect
      <3> QED
        BY <3>1 DEF HoldsLease
    <2>4. ASSUME UNCHANGED jobs PROVE Final
      BY <2>4
    <2> QED
      BY <2>1, <2>2, <2>3, <2>4
      DEF Next, RequestStep, WorkerStep, LookUpService, AuditRequest, Start, ReadService,
          SaveReadinessEvaluation, AuditEvaluation, Stop, Tick
  <1> QED
    BY <1>1, InductiveInvariant, PTL DEF Spec, CompletedIsFinal

(* A key has one job, and it is the job its requests are told about.        *)
THEOREM KeysIdentifyJobs == Spec => []OneJobPerKey
  <1>1. Init => OneJobPerKey
    BY DEF Init, OneJobPerKey, Present, NoRow, NoRequest
  <1>2. Shapes /\ OneJobPerKey /\ [Next]_vars => OneJobPerKey'
    <2> SUFFICES ASSUME Shapes, OneJobPerKey, [Next]_vars PROVE OneJobPerKey'
      OBVIOUS
    <2>t. \A r \in Requests : req[r].job # None => req[r].job \in JobIds
      BY DEF Shapes, TypeOK, Request
    <2>1. ASSUME \A r \in Requests : req'[r].key = req[r].key /\ req'[r].job = req[r].job,
                 \A j \in JobIds : /\ jobs'[j].key = jobs[j].key
                                   /\ Present(j)' <=> Present(j)
          PROVE  OneJobPerKey'
      BY <2>t, <2>1 DEF OneJobPerKey
    <2>2. ASSUME UNCHANGED <<jobs, req>> PROVE OneJobPerKey'
      BY <2>2 DEF OneJobPerKey, Present
    <2>3. ASSUME NEW r \in Requests, LookUpService(r) PROVE OneJobPerKey'
      <3>1. jobs' = jobs /\ req'[r].job = None /\ \A q \in Requests \ {r} : req'[q] = req[q]
        BY <2>3 DEF LookUpService, Shapes, TypeOK, NoRequest
      <3> QED
        BY <3>1 DEF OneJobPerKey, Present
    <2>4. ASSUME NEW r \in Requests, EnqueueJob(r) PROVE OneJobPerKey'
      <3>1. /\ req'[r].key = req[r].key
            /\ \A q \in Requests \ {r} : req'[q] = req[q]
            /\ \/ req'[r].job = None
               \/ req'[r].job = r /\ Conflicting(r) = {} /\ jobs'[r] = NewRow(r)
               \/ req'[r].job \in Conflicting(r)
        BY <2>4 DEF EnqueueJob, Shapes, TypeOK, Request, Commits
      <3>2. /\ ~Present(r)
            /\ \A j \in JobIds \ {r} : jobs'[j] = jobs[j]
            /\ \/ jobs'[r] = jobs[r]
               \/ Conflicting(r) = {} /\ jobs'[r].key = req[r].key
        BY <2>4, EnqueueEffect
      <3>3. \A i, j \in JobIds :
              Present(i)' /\ Present(j)' /\ jobs'[i].key = jobs'[j].key => i = j
        BY <3>2 DEF OneJobPerKey, Present, Conflicting
      <3>4. \A q \in Requests \ {r} : req'[q].job # None =>
              jobs'[req'[q].job].status # "absent" /\ jobs'[req'[q].job].key = req'[q].key
        BY <2>t, <3>1, <3>2 DEF OneJobPerKey, Present
      <3>5. req'[r].job # None =>
              jobs'[req'[r].job].status # "absent" /\ jobs'[req'[r].job].key = req'[r].key
        <4>1. CASE req'[r].job = r /\ Conflicting(r) = {} /\ jobs'[r] = NewRow(r)
          BY <3>1, <4>1 DEF NewRow, Present
        <4>2. CASE req'[r].job \in Conflicting(r)
          BY <3>1, <3>2, <4>2 DEF Conflicting, Present
        <4> QED
          BY <3>1, <4>1, <4>2
      <3> QED
        BY <3>3, <3>4, <3>5 DEF OneJobPerKey, Present
    <2>5. ASSUME NEW r \in Requests, AuditRequest(r) PROVE OneJobPerKey'
      <3>1. /\ jobs' = jobs
            /\ \A q \in Requests : req'[q].key = req[q].key /\ req'[q].job = req[q].job
        BY <2>5 DEF AuditRequest, Shapes, TypeOK, Request
      <3> QED
        BY <2>1, <3>1 DEF Present
    <2>6. ASSUME NEW w \in Workers, ClaimJobs(w) PROVE OneJobPerKey'
      <3>1. PICK batch \in SUBSET JobIds : LeasesBatch(w, batch)
        BY <2>6, ClaimJobsEffect
      <3>2. \A j \in JobIds : jobs'[j].key = jobs[j].key /\ (Present(j)' <=> Present(j))
        BY <3>1, LeasedType DEF LeasesBatch, Shapes, Present
      <3> QED
        BY <2>1, <2>6, <3>2 DEF ClaimJobs
    <2>7. ASSUME NEW w \in Workers, MarkJobCompleted(w) \/ MarkJobFailed(w) PROVE OneJobPerKey'
      <3>1. \A j \in JobIds : jobs'[j].key = jobs[j].key /\ (Present(j)' <=> Present(j))
        BY <2>7, MarkEffect DEF Present, HoldsLease
      <3> QED
        BY <2>1, <2>7, <3>1 DEF MarkJobCompleted, MarkJobFailed
    <2> QED
      BY <2>2, <2>3, <2>4, <2>5, <2>6, <2>7
      DEF Next, RequestStep, WorkerStep, Start, ReadService, SaveReadinessEvaluation,
          AuditEvaluation, Stop, Tick, vars
  <1>3. Inductive => Shapes
    BY DEF Inductive
  <1> QED
    BY <1>1, <1>2, <1>3, InductiveInvariant, PTL DEF Spec

(* What the trail reports is stored, and under the service it reports.       *)
Reported ==
  \A e \in audit : e.type = "service.evaluated" =>
    e.details \in snapshots /\ e.resource = e.details.service

(* The trail reports no evaluation that is not stored, and none for another *)
(* service than the job's: the event is written after the snapshot, and     *)
(* snapshots stay.                                                          *)
THEOREM AuditedAreStored == Spec => []AuditedEvaluationsExist
  <1>1. Init => Reported
    BY DEF Init, Reported
  <1>2. Inductive /\ Reported /\ [Next]_vars => Reported'
    <2> SUFFICES ASSUME Inductive, Reported, [Next]_vars PROVE Reported'
      OBVIOUS
    <2>1. CASE audit' = audit /\ snapshots \subseteq snapshots'
      BY <2>1 DEF Reported
    <2>2. ASSUME NEW r \in Requests, AuditRequest(r) PROVE Reported'
      <3>1. snapshots' = snapshots /\ audit' \subseteq audit \union {RequestedEvent(r)}
        BY <2>2 DEF AuditRequest
      <3>2. RequestedEvent(r).type # "service.evaluated"
        BY DEF RequestedEvent
      <3> QED BY <3>1, <3>2 DEF Reported
    <2>3. ASSUME NEW w \in Workers, AuditEvaluation(w) PROVE Reported'
      <3>1. snapshots' = snapshots /\ audit' \subseteq audit \union {EvaluatedEvent(SnapshotOf(w))}
        BY <2>3 DEF AuditEvaluation
      <3>2. SnapshotOf(w) \in snapshots
        BY <2>3 DEF AuditEvaluation, Inductive, Evidence, SavedEvidence
      <3>3. /\ EvaluatedEvent(SnapshotOf(w)).details = SnapshotOf(w)
            /\ EvaluatedEvent(SnapshotOf(w)).resource = SnapshotOf(w).service
        BY DEF EvaluatedEvent
      <3> QED BY <3>1, <3>2, <3>3 DEF Reported
    <2>4. ASSUME NEW w \in Workers, SaveReadinessEvaluation(w) PROVE Reported'
      BY <2>1, <2>4 DEF SaveReadinessEvaluation
    <2> QED
      BY <2>1, <2>2, <2>3, <2>4 DEF Next, vars, RequestStep, WorkerStep, LookUpService, EnqueueJob,
         Start, ClaimJobs, ReadService, MarkJobCompleted, MarkJobFailed, Stop, Tick
  <1>3. Inductive /\ Reported => AuditedEvaluationsExist
    BY DEF Inductive, Evidence, SnapshotShape, Reported, AuditedEvaluationsExist
  <1> QED BY <1>1, <1>2, <1>3, InductiveInvariant, PTL DEF Spec

(***************************************************************************)
(* The queue implements EvaluationJob.                                      *)
(***************************************************************************)

(* The abstract counterpart of the tables.                                 *)
aphase == [j \in JobIds |-> Phase(jobs[j])]
atries == [j \in JobIds |-> jobs[j].attempts]
aevidence == {[job |-> s.job, try |-> s.attempt] : s \in snapshots}

(* Empty tables are the abstract initial state.                            *)
LEMMA InitRefines == Init => Abstract!AInit
  BY DEF Init, Abstract!AInit, Phase, NoRow

(* Every step is an abstract step or leaves the abstract state alone.      *)
LEMMA NextRefines == Inductive /\ [Next]_vars => [Abstract!ANext]_(Abstract!avars)
  <1> SUFFICES ASSUME Inductive, [Next]_vars
               PROVE  Abstract!ANext \/ UNCHANGED <<aphase, atries, aevidence>>
    BY DEF Abstract!avars, aphase, atries, aevidence
  <1>0. Shapes /\ Leases /\ Evidence
    BY DEF Inductive
  <1>1. ASSUME UNCHANGED <<jobs, snapshots>>
        PROVE  UNCHANGED <<aphase, atries, aevidence>>
    BY <1>1 DEF aphase, atries, aevidence
  <1>2. ASSUME NEW r \in Requests, EnqueueJob(r)
        PROVE  Abstract!ANext \/ UNCHANGED <<aphase, atries, aevidence>>
    <2>1. /\ ~Present(r) /\ snapshots' = snapshots
          /\ \A j \in JobIds \ {r} : jobs'[j] = jobs[j]
          /\ \/ jobs'[r] = jobs[r]
             \/ jobs'[r].status = "pending" /\ jobs'[r].attempts = 0
      BY <1>0, <1>2, EnqueueEffect DEF EnqueueJob
    <2>2. atries' = atries /\ aevidence' = aevidence
      BY <1>0, <2>1 DEF atries, aevidence, Shapes, RowShape
    <2>3. CASE jobs'[r] = jobs[r]
      BY <2>1, <2>2, <2>3 DEF aphase
    <2>4. CASE jobs'[r].status = "pending"
      <3>1. aphase[r] = "none"
        BY <2>1 DEF aphase, Phase, Present
      <3>2. aphase' = [aphase EXCEPT ![r] = "open"]
        BY <2>1, <2>4 DEF aphase, Phase
      <3>3. Abstract!Submit(r)
        BY <2>2, <3>1, <3>2 DEF Abstract!Submit, aphase, atries, aevidence
      <3> QED
        BY <3>3 DEF Abstract!ANext
    <2> QED
      BY <2>1, <2>3, <2>4
  <1>3. ASSUME NEW w \in Workers, ClaimJobs(w)
        PROVE  Abstract!ANext \/ UNCHANGED <<aphase, atries, aevidence>>
    <2>1. PICK batch \in SUBSET JobIds : LeasesBatch(w, batch)
      BY <1>0, <1>3, ClaimJobsEffect
    <2>2. \A j \in batch :
            /\ jobs[j].status \in {"pending", "failed", "processing"}
            /\ jobs[j].attempts < MaxAttempts
            /\ jobs'[j].status = "processing"
            /\ jobs'[j].attempts = jobs[j].attempts + 1
      BY <1>0, <2>1, LeasedType DEF LeasesBatch, Shapes, Eligible
    <2>3. \A j \in JobIds : j \notin batch => jobs'[j] = jobs[j]
      BY <2>1 DEF LeasesBatch
    <2>4. \A j \in batch : aphase[j] = "open" /\ atries[j] < MaxAttempts
      BY <2>2 DEF aphase, atries, Phase
    <2>5. aphase' = aphase
      <3>1. \A j \in JobIds : Phase(jobs'[j]) = Phase(jobs[j])
        BY <2>2, <2>3 DEF Phase
      <3> QED
        BY <3>1 DEF aphase
    <2>6. atries' = [j \in JobIds |-> IF j \in batch THEN atries[j] + 1 ELSE atries[j]]
      BY <2>2, <2>3 DEF atries
    <2>7. aevidence' = aevidence
      BY <1>3 DEF ClaimJobs, aevidence
    <2>8. Abstract!Try(batch)
      BY <2>4, <2>5, <2>6, <2>7 DEF Abstract!Try, aphase, atries, aevidence
    <2> QED
      BY <2>8 DEF Abstract!ANext
  <1>4. ASSUME NEW w \in Workers, SaveReadinessEvaluation(w)
        PROVE  Abstract!ANext \/ UNCHANGED <<aphase, atries, aevidence>>
    <2>1. jobs' = jobs /\ pc[w] = "save" /\ cur[w] \in claims[w] /\ cur[w] \in Claim
          /\ (snapshots' = snapshots \/ snapshots' = snapshots \union {SnapshotOf(w)})
      BY <1>0, <1>4 DEF SaveReadinessEvaluation, Shapes, TypeOK, WorkerShape
    <2>2. CASE snapshots' = snapshots
      BY <1>1, <2>1, <2>2
    <2>3. CASE snapshots' = snapshots \union {SnapshotOf(w)}
      <3> DEFINE new == [job |-> cur[w].job, try |-> cur[w].attempts]
      <3>1. aphase' = aphase /\ atries' = atries
        BY <2>1 DEF aphase, atries
      <3>2. aevidence' = aevidence \union {new}
        <4>1. SnapshotOf(w).job = cur[w].job /\ SnapshotOf(w).attempt = cur[w].attempts
          BY DEF SnapshotOf
        <4>2. aevidence' = {[job |-> s.job, try |-> s.attempt] :
                              s \in snapshots \union {SnapshotOf(w)}}
          BY <2>3 DEF aevidence
        <4> QED
          BY <4>1, <4>2 DEF aevidence
      <3>3. \A s \in snapshots : ~(s.job = cur[w].job /\ s.attempt = cur[w].attempts)
        BY <1>0, <2>1 DEF Evidence, SnapshotShape
      <3>4. new \notin aevidence
        BY <3>3 DEF aevidence
      <3>5. cur[w].job \in JobIds /\ cur[w].attempts \in 1..atries[cur[w].job]
        BY <1>0, <2>1 DEF Leases, ClaimShape, Claim, atries, Shapes, TypeOK, Row
      <3>6. \E j \in JobIds : \E t \in 1..atries[j] :
              /\ j = cur[w].job /\ t = cur[w].attempts
        BY <3>5
      <3>7. \E j \in JobIds : \E t \in 1..atries[j] :
              /\ [job |-> j, try |-> t] \notin aevidence
              /\ aevidence' = aevidence \union {[job |-> j, try |-> t]}
        BY <3>2, <3>4, <3>6
      <3> QED
        BY <3>1, <3>7 DEF Abstract!ANext, Abstract!Record, aphase, atries, aevidence
    <2> QED
      BY <2>1, <2>2, <2>3
  <1>5. ASSUME NEW w \in Workers, MarkJobCompleted(w) \/ MarkJobFailed(w)
        PROVE  Abstract!ANext \/ UNCHANGED <<aphase, atries, aevidence>>
    <2> DEFINE i == cur[w].job
    <2>1. snapshots' = snapshots
      BY <1>5 DEF MarkJobCompleted, MarkJobFailed
    <2>2. /\ i \in JobIds /\ cur[w] \in claims[w]
          /\ \A j \in JobIds \ {i} : jobs'[j] = jobs[j]
          /\ \A j \in JobIds : jobs'[j].attempts = jobs[j].attempts
          /\ \/ jobs'[i] = jobs[i]
             \/ HoldsLease(w, i) /\ jobs'[i].status = "failed"
             \/ HoldsLease(w, i) /\ jobs'[i].status = "completed" /\ pc[w] = "complete"
      BY <1>0, <1>5, MarkEffect DEF Claim
    <2>3. atries' = atries /\ aevidence' = aevidence
      BY <2>1, <2>2 DEF atries, aevidence
    <2>4. CASE jobs'[i] = jobs[i]
      BY <2>2, <2>3, <2>4 DEF aphase
    <2>5. CASE HoldsLease(w, i) /\ jobs'[i].status = "failed"
      <3>1. \A j \in JobIds : Phase(jobs'[j]) = Phase(jobs[j])
        BY <2>2, <2>5 DEF Phase, HoldsLease
      <3> QED
        BY <2>3, <3>1 DEF aphase
    <2>6. CASE HoldsLease(w, i) /\ jobs'[i].status = "completed" /\ pc[w] = "complete"
      <3>1. aphase[i] = "open"
        BY <2>2, <2>6 DEF aphase, Phase, HoldsLease
      <3>2. aphase' = [aphase EXCEPT ![i] = "done"]
        BY <2>2, <2>6 DEF aphase, Phase
      <3>3. SnapshotOf(w) \in snapshots /\ jobs[i].attempts = cur[w].attempts
        BY <1>0, <2>2, <2>6 DEF Evidence, SavedEvidence, Leases, LeaseFencing
      <3>4. SnapshotOf(w).job = i /\ SnapshotOf(w).attempt = atries[i]
        BY <2>2, <3>3 DEF SnapshotOf, atries
      <3>5. [job |-> i, try |-> atries[i]] \in aevidence
        BY <3>3, <3>4 DEF aevidence
      <3>6. Abstract!Finish(i)
        BY <2>3, <3>1, <3>2, <3>5 DEF Abstract!Finish, aphase, atries, aevidence
      <3> QED
        BY <2>2, <3>6 DEF Abstract!ANext
    <2> QED
      BY <2>2, <2>4, <2>5, <2>6
  <1> QED
    BY <1>1, <1>2, <1>3, <1>4, <1>5
    DEF Next, RequestStep, WorkerStep, LookUpService, AuditRequest, Start, ReadService,
        AuditEvaluation, Stop, Tick, vars

(* Seen through its tables, the queue is the job of EvaluationJob: bounded  *)
(* tries, one piece of evidence per try, done only with the last try's.     *)
THEOREM QueueImplementsJob == Spec => ImplementsEvaluationJob
  BY InitRefines, NextRefines, InductiveInvariant, PTL
  DEF Spec, ImplementsEvaluationJob, Abstract!ASpec
============================================================================
