--------------------------- MODULE EvaluationJob ---------------------------
(***************************************************************************)
(* What the evaluation queue promises to the callers of                     *)
(* POST /v1/services/{id}/evaluations, without workers, leases or clocks: a *)
(* submitted job is tried a bounded number of times, every try leaves at    *)
(* most one piece of readiness evidence, and the job is done only when the  *)
(* last try that was started has left its evidence.  Evidence may arrive    *)
(* late: a try that was given up on may still record its snapshot.          *)
(* JobQueue implements this specification.                                  *)
(***************************************************************************)
EXTENDS Naturals

CONSTANTS Jobs,       \* identities of the jobs that may be submitted
          MaxTries    \* tries a job is given

VARIABLES phase,      \* [Jobs -> Phases]
          tries,      \* [Jobs -> Nat], tries started so far
          evidence    \* set of [job, try]: tries whose snapshot is stored

avars == <<phase, tries, evidence>>

Phases == {"none", "open", "done"}

AInit ==
  /\ phase = [j \in Jobs |-> "none"]
  /\ tries = [j \in Jobs |-> 0]
  /\ evidence = {}

(* A request makes a job row: the job is open and untried.                 *)
Submit(j) ==
  /\ phase[j] = "none"
  /\ phase' = [phase EXCEPT ![j] = "open"]
  /\ UNCHANGED <<tries, evidence>>

(* One claim statement starts a new try of every job of a batch.           *)
Try(batch) ==
  /\ \A j \in batch : phase[j] = "open" /\ tries[j] < MaxTries
  /\ tries' = [j \in Jobs |-> IF j \in batch THEN tries[j] + 1 ELSE tries[j]]
  /\ UNCHANGED <<phase, evidence>>

(* A started try, current or overtaken, stores its one snapshot.           *)
Record(j, t) ==
  /\ t \in 1..tries[j]
  /\ [job |-> j, try |-> t] \notin evidence
  /\ evidence' = evidence \union {[job |-> j, try |-> t]}
  /\ UNCHANGED <<phase, tries>>

(* Only the current try may finish the job, and only with its evidence.    *)
Finish(j) ==
  /\ phase[j] = "open"
  /\ [job |-> j, try |-> tries[j]] \in evidence
  /\ phase' = [phase EXCEPT ![j] = "done"]
  /\ UNCHANGED <<tries, evidence>>

ANext ==
  \/ \E j \in Jobs : Submit(j) \/ Finish(j)
  \/ \E batch \in SUBSET Jobs : Try(batch)
  \/ \E j \in Jobs : \E t \in 1..tries[j] : Record(j, t)

ASpec == AInit /\ [][ANext]_avars
============================================================================
