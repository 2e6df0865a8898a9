--------------------------- MODULE ScorecardProofs ---------------------------
(***************************************************************************)
(* Theorems about Scorecard, for any number of services, evaluations and    *)
(* scorecard requests and any clocks of the workers.                        *)
(***************************************************************************)
EXTENDS Scorecard, ServiceRegistryProofs, FiniteSetTheorems

(* What a worker has read of a service stays with its attempt: a profile, a  *)
(* version no later than the row's and a time that has been.  Its stamp is   *)
(* no earlier than its read.                                                 *)
ReadsSound ==
  \A e \in Evaluations : LET v == evals[e] IN
    /\ v.pc = "new" => v.service = None
    /\ v.pc \in {"read", "stamped"} => v.service # None
    /\ v.service # None => /\ v.service \in Ids /\ v.profile \in Service /\ v.readAt <= now
                           /\ v.version <= version[v.service]
                           /\ v.pc \in {"stamped", "done"} => v.at - Skew[e] >= v.readAt

(* Of two reads of a service, the one of the older version was no later.     *)
ReadsInOrder ==
  \A d, e \in Evaluations :
    /\ evals[d].service # None /\ evals[d].service = evals[e].service
    /\ evals[d].version < evals[e].version
    => evals[d].readAt <= evals[e].readAt

(* A snapshot and its rows are those of an attempt that is over, complete.   *)
SnapshotsComplete ==
  /\ \A n \in snapshots :
       /\ evals[n.id].pc = "done" /\ evals[n.id].service # None
       /\ n = SnapshotOf(n.id)
       /\ {c \in checks : c.snapshot = n.id} = RowsOf(n.id)
  /\ \A c \in checks : evals[c.snapshot].pc = "done"

(* What a scorecard request has read is of its service, stored, and as late  *)
(* as what it could know of.                                                 *)
CardsSound ==
  \A r \in Readers : LET card == cards[r] IN
    /\ card.pc \in {"snapshot", "checks", "ok"} => card.service \in Ids
    /\ card.pc = "snapshot" => \A n \in card.known : n \in snapshots /\ n.service = card.service
    /\ card.pc \in {"checks", "ok"} =>
         /\ card.snapshot \in snapshots /\ card.snapshot.service = card.service
         /\ \A n \in card.known : n.evaluatedAt <= card.snapshot.evaluatedAt
    /\ card.pc = "ok" => card.checks = RowsOfSnapshot(card)

Complete == ReadsSound /\ ReadsInOrder /\ SnapshotsComplete /\ CardsSound

Inductive == EvidenceTypeOK /\ ValidWrites /\ Complete

----------------------------------------------------------------------------
(* Counting rows                                                             *)

One(x, F) == IF x \in F THEN 1 ELSE 0

(* Counting goes on by one element.                                          *)
LEMMA CountNext ==
  ASSUME NEW F, NEW P, NEW x, x \notin P, IsFiniteSet(F \cap P)
  PROVE  /\ IsFiniteSet(F \cap (P \cup {x}))
         /\ Cardinality(F \cap (P \cup {x})) = Cardinality(F \cap P) + One(x, F)
  <1>1. CASE x \in F
    <2>1. F \cap (P \cup {x}) = (F \cap P) \cup {x} /\ x \notin F \cap P
      BY <1>1
    <2>2. /\ IsFiniteSet((F \cap P) \cup {x})
          /\ Cardinality((F \cap P) \cup {x}) = Cardinality(F \cap P) + 1
      BY <2>1, FS_AddElement
    <2> QED BY <1>1, <2>1, <2>2 DEF One
  <1>2. CASE x \notin F
    <2>1. F \cap (P \cup {x}) = F \cap P
      BY <1>2
    <2>2. Cardinality(F \cap P) \in Nat
      BY FS_CardinalityType
    <2>3. One(x, F) = 0
      BY <1>2 DEF One
    <2>4. /\ IsFiniteSet(F \cap (P \cup {x}))
          /\ Cardinality(F \cap (P \cup {x})) = Cardinality(F \cap P)
      BY <2>1
    <2> QED BY <2>2, <2>3, <2>4
  <1> QED BY <1>1, <1>2

(* Some of five different elements.                                          *)
LEMMA CountFive ==
  ASSUME NEW a, NEW b, NEW c, NEW d, NEW e,
         a \notin {b, c, d, e}, b \notin {c, d, e}, c \notin {d, e}, d # e,
         NEW F \in SUBSET {a, b, c, d, e}
  PROVE  /\ IsFiniteSet(F)
         /\ Cardinality(F) = One(a, F) + One(b, F) + One(c, F) + One(d, F) + One(e, F)
  <1>1. IsFiniteSet(F \cap {}) /\ Cardinality(F \cap {}) = 0
    BY FS_EmptySet
  <1>2. IsFiniteSet(F \cap {a}) /\ Cardinality(F \cap {a}) = One(a, F)
    <2>1. /\ IsFiniteSet(F \cap ({} \cup {a}))
          /\ Cardinality(F \cap ({} \cup {a})) = Cardinality(F \cap {}) + One(a, F)
      BY <1>1, CountNext
    <2> QED BY <1>1, <2>1 DEF One
  <1>3. IsFiniteSet(F \cap {a, b}) /\ Cardinality(F \cap {a, b}) = One(a, F) + One(b, F)
    <2>1. {a, b} = {a} \cup {b}
      OBVIOUS
    <2> QED BY <1>2, <2>1, CountNext
  <1>4. /\ IsFiniteSet(F \cap {a, b, c})
        /\ Cardinality(F \cap {a, b, c}) = One(a, F) + One(b, F) + One(c, F)
    <2>1. {a, b, c} = {a, b} \cup {c} /\ c \notin {a, b}
      OBVIOUS
    <2> QED BY <1>3, <2>1, CountNext
  <1>5. /\ IsFiniteSet(F \cap {a, b, c, d})
        /\ Cardinality(F \cap {a, b, c, d}) = One(a, F) + One(b, F) + One(c, F) + One(d, F)
    <2>1. {a, b, c, d} = {a, b, c} \cup {d} /\ d \notin {a, b, c}
      OBVIOUS
    <2> QED BY <1>4, <2>1, CountNext
  <1>6. /\ IsFiniteSet(F \cap {a, b, c, d, e})
        /\ Cardinality(F \cap {a, b, c, d, e})
             = One(a, F) + One(b, F) + One(c, F) + One(d, F) + One(e, F)
    <2>1. {a, b, c, d, e} = {a, b, c, d} \cup {e} /\ e \notin {a, b, c, d}
      OBVIOUS
    <2> QED BY <1>5, <2>1, CountNext
  <1>7. F \cap {a, b, c, d, e} = F
    OBVIOUS
  <1> QED BY <1>6, <1>7

(* The row of one check.                                                     *)
Row(e, n) == [snapshot |-> e, service |-> evals[e].service, name |-> n,
              status |-> CheckResults(evals[e].profile)[n]]

FailChecks == {"owner_declared", "repository_connected", "health_endpoint_present", "ci_enabled",
               "deployment_pipeline_declared"}

WarnChecks == {"runbook_present", "observability_dashboard_present", "tracing_enabled",
               "metrics_enabled", "slo_policy_declared"}

(* What the ten results are.                                                 *)
LEMMA ResultsOf ==
  ASSUME NEW s \in Service
  PROVE  LET c == CheckResults(s) IN
         /\ \A n \in FailChecks : c[n] \in {"pass", "fail"}
         /\ \A n \in WarnChecks : c[n] \in {"pass", "warn"}
         /\ c["owner_declared"] = "fail" <=> s.owner = "empty"
         /\ c["repository_connected"] = "fail" <=> s.repository = "empty"
         /\ c["health_endpoint_present"] = "fail" <=> s.health = "empty"
         /\ c["ci_enabled"] = "fail" <=> ~s.ci
         /\ c["deployment_pipeline_declared"] = "fail" <=> s.pipeline = "empty"
         /\ c["runbook_present"] = "warn" <=> s.runbook = "empty"
         /\ c["observability_dashboard_present"] = "warn" <=> s.observability = "empty"
         /\ c["tracing_enabled"] = "warn" <=> ~s.tracing
         /\ c["metrics_enabled"] = "warn" <=> ~s.metrics
         /\ c["slo_policy_declared"] = "warn" <=>
              s.slo.window = "empty" \/ s.slo.availability <= 0 \/ s.slo.latency <= 0
  BY DEF CheckResults, FailIf, WarnIf, FailChecks, WarnChecks

(* The rows of an attempt, counted by status, are the counts of Evaluate.    *)
LEMMA RowsCount ==
  ASSUME NEW e \in Evaluations, evals[e].profile \in Service
  PROVE  /\ Counting(RowsOf(e), "fail") = Failures(evals[e].profile)
         /\ Counting(RowsOf(e), "warn") = Warnings(evals[e].profile)
         /\ Cardinality(RowsOf(e)) = 10
         /\ {c.name : c \in RowsOf(e)} = Check
         /\ \A c \in RowsOf(e) : c.service = evals[e].service
  <1> DEFINE s == evals[e].profile
             rows == RowsOf(e)
             fails == {c \in rows : c.status = "fail"}
             warns == {c \in rows : c.status = "warn"}
             failable == {Row(e, n) : n \in FailChecks}
             warnable == {Row(e, n) : n \in WarnChecks}
  <1>1. rows = {Row(e, n) : n \in Check}
    BY DEF RowsOf, Row
  <1>2. Check = FailChecks \cup WarnChecks /\ FailChecks \cap WarnChecks = {}
    BY DEF Check, FailChecks, WarnChecks
  <1>3. \A n : Row(e, n).name = n /\ Row(e, n).status = CheckResults(s)[n]
               /\ Row(e, n).service = evals[e].service
    BY DEF Row
  <1>4. /\ \A n \in FailChecks : CheckResults(s)[n] \in {"pass", "fail"}
        /\ \A n \in WarnChecks : CheckResults(s)[n] \in {"pass", "warn"}
    BY ResultsOf
  <1>5. /\ CheckResults(s)["owner_declared"] = "fail" <=> s.owner = "empty"
        /\ CheckResults(s)["repository_connected"] = "fail" <=> s.repository = "empty"
        /\ CheckResults(s)["health_endpoint_present"] = "fail" <=> s.health = "empty"
        /\ CheckResults(s)["ci_enabled"] = "fail" <=> ~s.ci
        /\ CheckResults(s)["deployment_pipeline_declared"] = "fail" <=> s.pipeline = "empty"
    BY ResultsOf
  <1>6. /\ CheckResults(s)["runbook_present"] = "warn" <=> s.runbook = "empty"
        /\ CheckResults(s)["observability_dashboard_present"] = "warn" <=> s.observability = "empty"
        /\ CheckResults(s)["tracing_enabled"] = "warn" <=> ~s.tracing
        /\ CheckResults(s)["metrics_enabled"] = "warn" <=> ~s.metrics
        /\ CheckResults(s)["slo_policy_declared"] = "warn" <=>
             s.slo.window = "empty" \/ s.slo.availability <= 0 \/ s.slo.latency <= 0
    BY ResultsOf
  <1>7. s.slo.availability \in Int /\ s.slo.latency \in Int
    BY DEF Service, SLOPolicy
  <1> HIDE DEF s, rows
  <1>8. \A n, m : Row(e, n) = Row(e, m) => n = m
    BY <1>3
  <1>9. \A n \in FailChecks : Row(e, n) \in fails <=> CheckResults(s)[n] = "fail"
    BY <1>1, <1>2, <1>3
  <1>10. \A n \in WarnChecks : Row(e, n) \in warns <=> CheckResults(s)[n] = "warn"
    BY <1>1, <1>2, <1>3
  <1>11. fails \subseteq failable /\ warns \subseteq warnable
    BY <1>1, <1>2, <1>3, <1>4
  <1>12. /\ failable = {Row(e, "owner_declared"), Row(e, "repository_connected"),
                        Row(e, "health_endpoint_present"), Row(e, "ci_enabled"),
                        Row(e, "deployment_pipeline_declared")}
         /\ warnable = {Row(e, "runbook_present"), Row(e, "observability_dashboard_present"),
                        Row(e, "tracing_enabled"), Row(e, "metrics_enabled"),
                        Row(e, "slo_policy_declared")}
    BY DEF FailChecks, WarnChecks
  <1> HIDE DEF fails, warns, failable, warnable
  <1>13. ASSUME NEW F \in SUBSET failable
         PROVE  /\ IsFiniteSet(F)
                /\ Cardinality(F) = One(Row(e, "owner_declared"), F)
                     + One(Row(e, "repository_connected"), F)
                     + One(Row(e, "health_endpoint_present"), F) + One(Row(e, "ci_enabled"), F)
                     + One(Row(e, "deployment_pipeline_declared"), F)
    <2> DEFINE x1 == Row(e, "owner_declared")
               x2 == Row(e, "repository_connected")
               x3 == Row(e, "health_endpoint_present")
               x4 == Row(e, "ci_enabled")
               x5 == Row(e, "deployment_pipeline_declared")
    <2>1. /\ x1 \notin {x2, x3, x4, x5} /\ x2 \notin {x3, x4, x5} /\ x3 \notin {x4, x5} /\ x4 # x5
      BY <1>8
    <2>2. F \in SUBSET {x1, x2, x3, x4, x5}
      BY <1>12
    <2> HIDE DEF x1, x2, x3, x4, x5
    <2>3. /\ IsFiniteSet(F)
          /\ Cardinality(F) = One(x1, F) + One(x2, F) + One(x3, F) + One(x4, F) + One(x5, F)
      BY <2>1, <2>2, CountFive
    <2> QED BY <2>3 DEF x1, x2, x3, x4, x5
  <1>14. ASSUME NEW F \in SUBSET warnable
         PROVE  /\ IsFiniteSet(F)
                /\ Cardinality(F) = One(Row(e, "runbook_present"), F)
                     + One(Row(e, "observability_dashboard_present"), F)
                     + One(Row(e, "tracing_enabled"), F) + One(Row(e, "metrics_enabled"), F)
                     + One(Row(e, "slo_policy_declared"), F)
    <2> DEFINE x1 == Row(e, "runbook_present")
               x2 == Row(e, "observability_dashboard_present")
               x3 == Row(e, "tracing_enabled")
               x4 == Row(e, "metrics_enabled")
               x5 == Row(e, "slo_policy_declared")
    <2>1. /\ x1 \notin {x2, x3, x4, x5} /\ x2 \notin {x3, x4, x5} /\ x3 \notin {x4, x5} /\ x4 # x5
      BY <1>8
    <2>2. F \in SUBSET {x1, x2, x3, x4, x5}
      BY <1>12
    <2> HIDE DEF x1, x2, x3, x4, x5
    <2>3. /\ IsFiniteSet(F)
          /\ Cardinality(F) = One(x1, F) + One(x2, F) + One(x3, F) + One(x4, F) + One(x5, F)
      BY <2>1, <2>2, CountFive
    <2> QED BY <2>3 DEF x1, x2, x3, x4, x5
  <1>15. Cardinality(fails) = Failures(s)
    <2>1. /\ One(Row(e, "owner_declared"), fails) = Missing(s.owner # "empty")
          /\ One(Row(e, "repository_connected"), fails) = Missing(s.repository # "empty")
          /\ One(Row(e, "health_endpoint_present"), fails) = Missing(s.health # "empty")
          /\ One(Row(e, "ci_enabled"), fails) = Missing(s.ci)
          /\ One(Row(e, "deployment_pipeline_declared"), fails) = Missing(s.pipeline # "empty")
      BY <1>5, <1>9 DEF One, Missing, FailChecks
    <2> QED BY <1>11, <1>13, <2>1 DEF Failures
  <1>16. Cardinality(warns) = Warnings(s)
    <2>1. /\ One(Row(e, "runbook_present"), warns) = Missing(s.runbook # "empty")
          /\ One(Row(e, "observability_dashboard_present"), warns)
               = Missing(s.observability # "empty")
          /\ One(Row(e, "tracing_enabled"), warns) = Missing(s.tracing)
          /\ One(Row(e, "metrics_enabled"), warns) = Missing(s.metrics)
      BY <1>6, <1>10 DEF One, Missing, WarnChecks
    <2>2. One(Row(e, "slo_policy_declared"), warns)
            = Missing(s.slo.window # "empty" /\ s.slo.availability > 0 /\ s.slo.latency > 0)
      BY <1>6, <1>7, <1>10 DEF One, Missing, WarnChecks
    <2> QED BY <1>11, <1>14, <2>1, <2>2 DEF Warnings
  <1>17. Cardinality(rows) = 10
    <2>1. IsFiniteSet(failable) /\ Cardinality(failable) = 5
      BY <1>12, <1>13 DEF One
    <2>2. IsFiniteSet(warnable) /\ Cardinality(warnable) = 5
      BY <1>12, <1>14 DEF One
    <2>3. rows = failable \cup warnable /\ failable \cap warnable = {}
      BY <1>1, <1>2, <1>8 DEF failable, warnable
    <2>4. Cardinality(failable \cup warnable)
            = Cardinality(failable) + Cardinality(warnable) - Cardinality(failable \cap warnable)
      BY <2>1, <2>2, FS_Union
    <2>5. Cardinality(failable \cap warnable) = 0
      BY <2>3, FS_EmptySet
    <2> QED BY <2>1, <2>2, <2>3, <2>4, <2>5
  <1>18. {c.name : c \in rows} = Check /\ \A c \in rows : c.service = evals[e].service
    BY <1>1, <1>3
  <1> QED BY <1>15, <1>16, <1>17, <1>18 DEF Counting, fails, warns, rows, s

----------------------------------------------------------------------------
(* The steps                                                                 *)

(* Init satisfies the invariant.                                             *)
LEMMA EvidenceInitInductive == Init /\ EvidenceInit => Inductive
  <1> SUFFICES ASSUME Init, EvidenceInit PROVE Inductive
    OBVIOUS
  <1>1. ValidWrites
    BY InitValid
  <1>2. NewEvaluation \in Evaluation /\ NewCard \in Card
    BY DEF NewEvaluation, Evaluation, NewCard, Card
  <1>3. EvidenceTypeOK
    BY <1>1, <1>2, MaxTimeAssumption DEF ValidWrites, EvidenceInit, EvidenceTypeOK
  <1>4. Complete
    BY DEF EvidenceInit, NewEvaluation, NewCard, Complete, ReadsSound, ReadsInOrder,
           SnapshotsComplete, CardsSound
  <1> QED BY <1>1, <1>3, <1>4 DEF Inductive

(* Versions of rows only grow.                                               *)
LEMMA VersionsGrow ==
  ASSUME ValidWrites, [Next]_vars, NEW i \in Ids
  PROVE  version[i] \in Nat /\ version'[i] \in Nat /\ version[i] <= version'[i]
  <1>1. version \in [Ids -> Nat]
    BY DEF ValidWrites, TypeOK
  <1>2. ASSUME NEW u \in Updates, WriteService(u)
        PROVE  version'[i] \in Nat /\ version[i] <= version'[i]
    <2>1. UNCHANGED version \/ version' = [version EXCEPT ![updates[u].id] = @ + 1]
      BY <1>2 DEF WriteService
    <2> QED BY <1>1, <2>1
  <1>3. UNCHANGED version => version'[i] \in Nat /\ version[i] <= version'[i]
    BY <1>1
  <1> QED
    BY <1>1, <1>2, <1>3 DEF Next, Register, UpdateService, vars, ValidateInput, CreateService,
       ReloadCreated, AuditRegistered, ValidateUpdate, ReadAndPatch, ReloadUpdated, AuditUpdated

(* The registry's steps leave all evidence as it is.                         *)
LEMMA RegistryKeeps ==
  ASSUME Inductive, [Next]_vars, UNCHANGED evidence
  PROVE  Inductive'
  <1>1. ValidWrites'
    BY NextValid DEF Inductive
  <1>2. UNCHANGED <<now, evals, snapshots, checks, cards>>
    BY DEF evidence
  <1>3. EvidenceTypeOK'
    BY <1>1, <1>2 DEF Inductive, EvidenceTypeOK, ValidWrites
  <1>4. ReadsSound'
    <2> SUFFICES ASSUME NEW e \in Evaluations, evals[e].service # None
                 PROVE  evals[e].version <= version'[evals[e].service]
      BY <1>2 DEF Inductive, Complete, ReadsSound
    <2>1. /\ evals[e].service \in Ids /\ evals[e].version <= version[evals[e].service]
          /\ evals[e].version \in Nat
      BY DEF Inductive, Complete, ReadsSound, EvidenceTypeOK, Evaluation
    <2>2. /\ version[evals[e].service] \in Nat /\ version'[evals[e].service] \in Nat
          /\ version[evals[e].service] <= version'[evals[e].service]
      BY <2>1, VersionsGrow DEF Inductive
    <2> QED BY <2>1, <2>2
  <1>5. ReadsInOrder' /\ SnapshotsComplete' /\ CardsSound'
    BY <1>2 DEF Inductive, Complete, ReadsInOrder, SnapshotsComplete, CardsSound, SnapshotOf,
                RowsOf, RowsOfSnapshot
  <1> QED BY <1>1, <1>3, <1>4, <1>5 DEF Inductive, Complete

(* What is known of the registry while the evidence moves.                   *)
LEMMA RegistryStays ==
  ASSUME Inductive, UNCHANGED vars
  PROVE  /\ ValidWrites' /\ TypeOK' /\ TypeOK
         /\ UNCHANGED <<services, version>>
  <1>1. UNCHANGED <<services, version>>
    BY DEF vars
  <1>2. ValidWrites'
    BY NextValid DEF Inductive
  <1> QED BY <1>1, <1>2 DEF Inductive, ValidWrites

(* The clock ticks.                                                          *)
LEMMA TickKeeps ==
  ASSUME Inductive, Tick, UNCHANGED vars
  PROVE  Inductive'
  <1>1. /\ ValidWrites' /\ TypeOK' /\ UNCHANGED <<services, version>>
    BY RegistryStays
  <1>2. UNCHANGED <<evals, snapshots, checks, cards>> /\ now' = now + 1 /\ now < MaxTime
        /\ now \in 0 .. MaxTime
    BY DEF Tick, Inductive, EvidenceTypeOK
  <1>3. now' \in 0 .. MaxTime /\ now \in Nat
    BY <1>2, MaxTimeAssumption
  <1>4. EvidenceTypeOK'
    BY <1>1, <1>2, <1>3 DEF Inductive, EvidenceTypeOK
  <1>5. ReadsSound'
    <2> SUFFICES ASSUME NEW e \in Evaluations, evals[e].service # None
                 PROVE  evals[e].readAt <= now'
      BY <1>1, <1>2 DEF Inductive, Complete, ReadsSound
    <2>1. evals[e].readAt \in Nat /\ evals[e].readAt <= now
      BY DEF Inductive, Complete, ReadsSound, EvidenceTypeOK, Evaluation
    <2> QED BY <1>2, <1>3, <2>1
  <1>6. ReadsInOrder' /\ SnapshotsComplete' /\ CardsSound'
    BY <1>2 DEF Inductive, Complete, ReadsInOrder, SnapshotsComplete, CardsSound, SnapshotOf,
                RowsOf, RowsOfSnapshot
  <1> QED BY <1>1, <1>4, <1>5, <1>6 DEF Inductive, Complete

(* What one attempt may become, whatever the others have read.                *)
ReadSound(e, v) ==
  /\ v.pc = "new" => v.service = None
  /\ v.pc \in {"read", "stamped"} => v.service # None
  /\ v.service # None => /\ v.service \in Ids /\ v.profile \in Service /\ v.readAt <= now
                         /\ v.version <= version[v.service]
                         /\ v.pc \in {"stamped", "done"} => v.at - Skew[e] >= v.readAt
  /\ \A d \in Evaluations \ {e} :
       v.service # None /\ evals[d].service = v.service =>
         /\ evals[d].version < v.version => evals[d].readAt <= v.readAt
         /\ v.version < evals[d].version => v.readAt <= evals[d].readAt

(* One attempt moves on.                                                     *)
LEMMA AttemptMoves ==
  ASSUME Inductive, UNCHANGED vars, UNCHANGED now, NEW e \in Evaluations, NEW v \in Evaluation,
         evals' = [evals EXCEPT ![e] = v], ReadSound(e, v)
  PROVE  evals' \in [Evaluations -> Evaluation] /\ ReadsSound' /\ ReadsInOrder'
  <1>1. UNCHANGED version
    BY RegistryStays
  <1>2. evals \in [Evaluations -> Evaluation]
    BY DEF Inductive, EvidenceTypeOK
  <1>3. evals' \in [Evaluations -> Evaluation]
    BY <1>2
  <1>4. evals'[e] = v /\ \A d \in Evaluations \ {e} : evals'[d] = evals[d]
    BY <1>2
  <1>5. ReadsSound'
    <2> SUFFICES ASSUME NEW d \in Evaluations
                 PROVE  LET w == evals'[d] IN
                   /\ w.pc = "new" => w.service = None
                   /\ w.pc \in {"read", "stamped"} => w.service # None
                   /\ w.service # None =>
                        /\ w.service \in Ids /\ w.profile \in Service /\ w.readAt <= now
                        /\ w.version <= version[w.service]
                        /\ w.pc \in {"stamped", "done"} => w.at - Skew[d] >= w.readAt
      BY <1>1 DEF ReadsSound
    <2>1. CASE d = e
      BY <1>4, <2>1 DEF ReadSound
    <2>2. CASE d # e
      BY <1>4, <2>2 DEF Inductive, Complete, ReadsSound
    <2> QED BY <2>1, <2>2
  <1>6. ReadsInOrder'
    <2> SUFFICES ASSUME NEW c \in Evaluations, NEW d \in Evaluations, evals'[c].service # None,
                        evals'[c].service = evals'[d].service,
                        evals'[c].version < evals'[d].version
                 PROVE  evals'[c].readAt <= evals'[d].readAt
      BY DEF ReadsInOrder
    <2>1. CASE c = e /\ d = e
      <3>1. v.version < v.version /\ v.version \in Nat
        BY <1>4, <2>1 DEF Evaluation
      <3> QED BY <3>1
    <2>2. CASE c = e /\ d # e
      BY <1>4, <2>2 DEF ReadSound
    <2>3. CASE c # e /\ d = e
      BY <1>4, <2>3 DEF ReadSound
    <2>4. CASE c # e /\ d # e
      BY <1>4, <2>4 DEF Inductive, Complete, ReadsInOrder
    <2> QED BY <2>1, <2>2, <2>3, <2>4
  <1> QED BY <1>3, <1>5, <1>6

(* An attempt that is not over moves on and stores nothing.                  *)
LEMMA AttemptKeeps ==
  ASSUME Inductive, UNCHANGED vars, UNCHANGED <<now, snapshots, checks, cards>>,
         NEW e \in Evaluations, NEW v \in Evaluation, evals[e].pc # "done",
         evals' = [evals EXCEPT ![e] = v], ReadSound(e, v)
  PROVE  Inductive'
  <1>1. ValidWrites' /\ TypeOK' /\ TypeOK
    BY RegistryStays
  <1>2. evals' \in [Evaluations -> Evaluation] /\ ReadsSound' /\ ReadsInOrder'
    BY AttemptMoves
  <1>3. EvidenceTypeOK'
    BY <1>1, <1>2 DEF Inductive, EvidenceTypeOK
  <1>4. \A d \in Evaluations \ {e} : evals'[d] = evals[d]
    BY DEF Inductive, EvidenceTypeOK
  <1>5. \A n \in snapshots : n.id \in Evaluations \ {e}
    BY DEF Inductive, EvidenceTypeOK, Snapshot, Complete, SnapshotsComplete
  <1>6. \A c \in checks : c.snapshot \in Evaluations \ {e}
    BY DEF Inductive, EvidenceTypeOK, CheckRow, Complete, SnapshotsComplete
  <1>7. SnapshotsComplete'
    <2>1. ASSUME NEW n \in snapshots
          PROVE  /\ evals'[n.id].pc = "done" /\ evals'[n.id].service # None
                 /\ n = SnapshotOf(n.id)'
                 /\ {c \in checks : c.snapshot = n.id} = RowsOf(n.id)'
      <3>1. evals'[n.id] = evals[n.id]
        BY <1>4, <1>5
      <3>2. SnapshotOf(n.id)' = SnapshotOf(n.id) /\ RowsOf(n.id)' = RowsOf(n.id)
        BY <3>1 DEF SnapshotOf, RowsOf
      <3> QED BY <3>1, <3>2 DEF Inductive, Complete, SnapshotsComplete
    <2>2. \A c \in checks : evals'[c.snapshot].pc = "done"
      BY <1>4, <1>6 DEF Inductive, Complete, SnapshotsComplete
    <2> QED BY <2>1, <2>2 DEF SnapshotsComplete
  <1>8. CardsSound'
    BY DEF Inductive, Complete, CardsSound, RowsOfSnapshot
  <1> QED BY <1>1, <1>2, <1>3, <1>7, <1>8 DEF Inductive, Complete

(* The worker reads the service.                                             *)
LEMMA ReadServiceKeeps ==
  ASSUME Inductive, UNCHANGED vars, NEW e \in Evaluations, ReadService(e)
  PROVE  Inductive'
  <1>1. /\ evals[e].pc = "new" /\ UNCHANGED <<now, snapshots, checks, cards>>
        /\ evals[e] \in Evaluation /\ now \in Nat
    BY MaxTimeAssumption DEF ReadService, Inductive, EvidenceTypeOK
  <1>2. ASSUME NEW i \in Ids, Stored(i),
               evals' = [evals EXCEPT ![e] = [pc |-> "read", service |-> i,
                                              profile |-> services[i], version |-> version[i],
                                              readAt |-> now, at |-> 0]]
        PROVE  Inductive'
    <2> DEFINE v == [pc |-> "read", service |-> i, profile |-> services[i],
                     version |-> version[i], readAt |-> now, at |-> 0]
    <2>1. services[i] \in Service /\ version[i] \in Nat /\ i # None
      <3>1. services[i] \in Service \union {None} /\ version[i] \in Nat
        BY DEF Inductive, EvidenceTypeOK, TypeOK
      <3>2. i # None
        BY NoneAssumption DEF Ids
      <3> QED BY <1>2, <3>1, <3>2 DEF Stored
    <2>2. v \in Evaluation
      BY <1>1, <2>1 DEF Evaluation
    <2>3. ReadSound(e, v)
      <3>1. ASSUME NEW d \in Evaluations \ {e}, evals[d].service = i
            PROVE  /\ evals[d].version < version[i] => evals[d].readAt <= now
                   /\ ~(version[i] < evals[d].version)
        <4>1. evals[d].readAt <= now /\ evals[d].version <= version[i]
              /\ evals[d].version \in Nat
          BY <2>1, <3>1 DEF Inductive, Complete, ReadsSound, EvidenceTypeOK, Evaluation
        <4> QED BY <2>1, <4>1
      <3>2. now <= now /\ version[i] <= version[i]
        BY <1>1, <2>1
      <3> QED BY <2>1, <3>1, <3>2 DEF ReadSound
    <2> HIDE DEF v
    <2>4. evals' = [evals EXCEPT ![e] = v]
      BY <1>2 DEF v
    <2> QED BY <1>1, <2>2, <2>3, <2>4, AttemptKeeps
  <1>3. CASE evals' = [evals EXCEPT ![e].pc = "done"]
    <2> DEFINE v == [evals[e] EXCEPT !.pc = "done"]
    <2>1. evals[e].service = None
      BY <1>1 DEF Inductive, Complete, ReadsSound
    <2>2. v \in Evaluation /\ v.service = None /\ v.pc = "done"
      BY <1>1, <2>1 DEF Evaluation
    <2>3. ReadSound(e, v)
      BY <2>2 DEF ReadSound
    <2>4. evals' = [evals EXCEPT ![e] = v]
      BY <1>3
    <2> HIDE DEF v
    <2> QED BY <1>1, <2>2, <2>3, <2>4, AttemptKeeps
  <1> QED BY <1>2, <1>3 DEF ReadService

(* The worker stamps the evaluation.                                         *)
LEMMA StampEvaluationKeeps ==
  ASSUME Inductive, UNCHANGED vars, NEW e \in Evaluations, StampEvaluation(e)
  PROVE  Inductive'
  <1> DEFINE w == evals[e]
             at == now + Skew[e]
             u == [w EXCEPT !.pc = "stamped"]
             v == [u EXCEPT !.at = at]
  <1>1. /\ w.pc = "read" /\ UNCHANGED <<now, snapshots, checks, cards>>
        /\ w \in Evaluation /\ now \in Nat
    BY MaxTimeAssumption DEF StampEvaluation, Inductive, EvidenceTypeOK
  <1>2. Skew[e] \in Int /\ at \in Int
    BY <1>1, SkewAssumption
  <1>3. /\ w.service \in Ids /\ w.service # None /\ w.profile \in Service /\ w.readAt <= now
        /\ w.version <= version[w.service]
    BY <1>1 DEF Inductive, Complete, ReadsSound
  <1>4. w.readAt \in Nat /\ at - Skew[e] >= w.readAt
    <2>1. w.readAt \in Nat
      BY <1>1 DEF Evaluation
    <2> QED BY <1>1, <1>2, <1>3, <2>1
  <1>5. ASSUME NEW d \in Evaluations \ {e}, evals[d].service = w.service
        PROVE  /\ evals[d].version < w.version => evals[d].readAt <= w.readAt
               /\ w.version < evals[d].version => w.readAt <= evals[d].readAt
    BY <1>3, <1>5 DEF Inductive, Complete, ReadsInOrder
  <1>6. evals' = [evals EXCEPT ![e] = v]
    BY DEF StampEvaluation
  <1> HIDE DEF at, w
  <1>7. u \in Evaluation /\ u.pc = "stamped" /\ u.service = w.service /\ u.profile = w.profile
        /\ u.version = w.version /\ u.readAt = w.readAt
    BY <1>1 DEF Evaluation
  <1> HIDE DEF u
  <1>8. v \in Evaluation /\ v.pc = "stamped" /\ v.service = w.service /\ v.profile = w.profile
        /\ v.version = w.version /\ v.readAt = w.readAt /\ v.at = at
    BY <1>2, <1>7 DEF Evaluation
  <1> HIDE DEF v
  <1>9. ReadSound(e, v)
    BY <1>3, <1>4, <1>5, <1>8 DEF ReadSound
  <1>10. evals[e].pc # "done"
    BY <1>1 DEF w
  <1> QED BY <1>1, <1>6, <1>8, <1>9, <1>10, AttemptKeeps

(* What is stored is well-formed.                                            *)
LEMMA StoredTypes ==
  ASSUME Inductive, NEW e \in Evaluations, evals[e].service # None
  PROVE  SnapshotOf(e) \in Snapshot /\ RowsOf(e) \subseteq CheckRow
  <1> DEFINE v == evals[e]
  <1>1. v \in Evaluation /\ v.service \in Ids /\ v.profile \in Service
    BY DEF Inductive, EvidenceTypeOK, Complete, ReadsSound
  <1>2. v.at \in Int /\ v.version \in Nat /\ v.readAt \in Nat
    BY <1>1 DEF Evaluation
  <1>3. Score(v.profile) \in 0 .. 100 /\ State(v.profile) \in {"ready", "degraded", "blocked"}
    <2>1. State(v.profile) \in {"ready", "degraded", "blocked"}
      BY DEF State
    <2> QED BY <1>1, <2>1, ScoreRange
  <1>4. \A n \in Check : CheckResults(v.profile)[n] \in {"pass", "warn", "fail"}
    <2>1. /\ \A n \in FailChecks : CheckResults(v.profile)[n] \in {"pass", "fail"}
          /\ \A n \in WarnChecks : CheckResults(v.profile)[n] \in {"pass", "warn"}
      BY <1>1, ResultsOf
    <2>2. Check = FailChecks \cup WarnChecks
      BY DEF Check, FailChecks, WarnChecks
    <2> QED BY <2>1, <2>2
  <1>5. SnapshotOf(e) \in Snapshot
    BY <1>1, <1>2, <1>3 DEF SnapshotOf, Snapshot
  <1>6. RowsOf(e) \subseteq CheckRow
    BY <1>1, <1>4 DEF RowsOf, CheckRow
  <1> QED BY <1>5, <1>6

(* Snapshot and rows are stored together, or the attempt ends with neither.  *)
LEMMA SaveKeeps ==
  ASSUME Inductive, UNCHANGED vars, NEW e \in Evaluations, SaveReadinessEvaluation(e)
  PROVE  Inductive'
  <1> DEFINE w == evals[e]
             v == [w EXCEPT !.pc = "done"]
  <1>1. /\ w.pc = "stamped" /\ UNCHANGED <<now, cards>> /\ w \in Evaluation
        /\ evals' = [evals EXCEPT ![e] = v]
    BY DEF SaveReadinessEvaluation, Inductive, EvidenceTypeOK
  <1>2. /\ v \in Evaluation /\ v.pc = "done" /\ v.service = w.service /\ v.profile = w.profile
        /\ v.version = w.version /\ v.readAt = w.readAt /\ v.at = w.at
    BY <1>1 DEF Evaluation
  <1>3. w.service # None
    BY <1>1 DEF Inductive, Complete, ReadsSound
  <1> HIDE DEF v
  <1>4. ReadSound(e, v)
    BY <1>1, <1>2, <1>3 DEF ReadSound, Inductive, Complete, ReadsSound, ReadsInOrder
  <1>5. CASE UNCHANGED <<snapshots, checks>>
    <2>1. evals[e].pc # "done" /\ UNCHANGED <<now, snapshots, checks, cards>>
      BY <1>1, <1>5
    <2> QED BY <1>1, <1>2, <1>4, <2>1, AttemptKeeps
  <1>6. CASE /\ snapshots' = snapshots \union {SnapshotOf(e)}
             /\ checks' = checks \union RowsOf(e)
    <2>1. ValidWrites' /\ TypeOK'
      BY RegistryStays
    <2>2. evals' \in [Evaluations -> Evaluation] /\ ReadsSound' /\ ReadsInOrder'
      BY <1>1, <1>2, <1>4, AttemptMoves
    <2>3. SnapshotOf(e) \in Snapshot /\ RowsOf(e) \subseteq CheckRow
      BY <1>3, StoredTypes
    <2>4. EvidenceTypeOK'
      BY <1>1, <1>6, <2>1, <2>2, <2>3 DEF Inductive, EvidenceTypeOK
    <2>5. evals'[e] = v /\ \A d \in Evaluations \ {e} : evals'[d] = evals[d]
      BY <1>1 DEF Inductive, EvidenceTypeOK
    <2>6. \A n \in snapshots : n.id \in Evaluations \ {e}
      BY <1>1 DEF Inductive, EvidenceTypeOK, Snapshot, Complete, SnapshotsComplete
    <2>7. \A c \in checks : c.snapshot \in Evaluations \ {e}
      BY <1>1 DEF Inductive, EvidenceTypeOK, CheckRow, Complete, SnapshotsComplete
    <2>8. SnapshotOf(e).id = e /\ \A c \in RowsOf(e) : c.snapshot = e
      BY DEF SnapshotOf, RowsOf
    <2>9. SnapshotOf(e)' = SnapshotOf(e) /\ RowsOf(e)' = RowsOf(e)
      BY <1>2, <2>5 DEF SnapshotOf, RowsOf
    <2>10. /\ {c \in checks' : c.snapshot = e} = RowsOf(e)
           /\ \A d \in Evaluations \ {e} :
                {c \in checks' : c.snapshot = d} = {c \in checks : c.snapshot = d}
      BY <1>6, <2>7, <2>8
    <2>11. SnapshotsComplete'
      <3>1. ASSUME NEW n \in snapshots
            PROVE  /\ evals'[n.id].pc = "done" /\ evals'[n.id].service # None
                   /\ n = SnapshotOf(n.id)'
                   /\ {c \in checks' : c.snapshot = n.id} = RowsOf(n.id)'
        <4>1. evals'[n.id] = evals[n.id] /\ n.id \in Evaluations \ {e}
          BY <2>5, <2>6
        <4>2. SnapshotOf(n.id)' = SnapshotOf(n.id) /\ RowsOf(n.id)' = RowsOf(n.id)
          BY <4>1 DEF SnapshotOf, RowsOf
        <4>3. {c \in checks' : c.snapshot = n.id} = {c \in checks : c.snapshot = n.id}
          BY <2>10, <4>1
        <4> QED BY <4>1, <4>2, <4>3 DEF Inductive, Complete, SnapshotsComplete
      <3>2. evals'[e].pc = "done" /\ evals'[e].service # None
        BY <1>2, <1>3, <2>5
      <3>3. \A c \in checks' : evals'[c.snapshot].pc = "done"
        <4>1. \A c \in checks : evals'[c.snapshot].pc = "done"
          BY <2>5, <2>7 DEF Inductive, Complete, SnapshotsComplete
        <4>2. \A c \in RowsOf(e) : evals'[c.snapshot].pc = "done"
          BY <1>2, <2>5, <2>8
        <4> QED BY <1>6, <4>1, <4>2
      <3>4. ASSUME NEW n \in snapshots'
            PROVE  /\ evals'[n.id].pc = "done" /\ evals'[n.id].service # None
                   /\ n = SnapshotOf(n.id)'
                   /\ {c \in checks' : c.snapshot = n.id} = RowsOf(n.id)'
        <4>1. CASE n \in snapshots
          BY <3>1, <4>1
        <4>2. CASE n = SnapshotOf(e)
          <5>1. n.id = e
            BY <2>8, <4>2
          <5> QED BY <2>9, <2>10, <3>2, <4>2, <5>1
        <4> QED BY <1>6, <4>1, <4>2
      <3> QED BY <3>3, <3>4 DEF SnapshotsComplete
    <2>12. CardsSound'
      <3>1. ASSUME NEW r \in Readers, cards[r].pc = "ok"
            PROVE  cards[r].checks = {c \in checks' : c.snapshot = cards[r].snapshot.id}
        <4>1. cards[r].snapshot.id \in Evaluations \ {e}
          BY <2>6, <3>1 DEF Inductive, Complete, CardsSound
        <4>2. cards[r].checks = {c \in checks : c.snapshot = cards[r].snapshot.id}
          BY <3>1 DEF Inductive, Complete, CardsSound, RowsOfSnapshot
        <4> QED BY <2>10, <4>1, <4>2
      <3> QED BY <1>1, <1>6, <3>1 DEF Inductive, Complete, CardsSound, RowsOfSnapshot
    <2> QED BY <2>1, <2>2, <2>4, <2>11, <2>12 DEF Inductive, Complete
  <1> QED BY <1>5, <1>6 DEF SaveReadinessEvaluation

----------------------------------------------------------------------------
(* The scorecard request                                                     *)

CardSound(card) ==
  /\ card.pc \in {"snapshot", "checks", "ok"} => card.service \in Ids
  /\ card.pc = "snapshot" => \A n \in card.known : n \in snapshots /\ n.service = card.service
  /\ card.pc \in {"checks", "ok"} =>
       /\ card.snapshot \in snapshots /\ card.snapshot.service = card.service
       /\ \A n \in card.known : n.evaluatedAt <= card.snapshot.evaluatedAt
  /\ card.pc = "ok" => card.checks = RowsOfSnapshot(card)

(* One request moves on; the tables are only read.                           *)
LEMMA CardKeeps ==
  ASSUME Inductive, UNCHANGED vars, UNCHANGED <<now, evals, snapshots, checks>>,
         NEW r \in Readers, NEW card \in Card, cards' = [cards EXCEPT ![r] = card],
         CardSound(card)
  PROVE  Inductive'
  <1>1. ValidWrites' /\ TypeOK' /\ UNCHANGED version
    BY RegistryStays
  <1>2. cards \in [Readers -> Card]
    BY DEF Inductive, EvidenceTypeOK
  <1>3. /\ cards' \in [Readers -> Card] /\ cards'[r] = card
        /\ \A q \in Readers \ {r} : cards'[q] = cards[q]
    BY <1>2
  <1>4. EvidenceTypeOK'
    BY <1>1, <1>3 DEF Inductive, EvidenceTypeOK
  <1>5. ReadsSound' /\ ReadsInOrder'
    BY <1>1 DEF Inductive, Complete, ReadsSound, ReadsInOrder
  <1>6. SnapshotsComplete'
    BY DEF Inductive, Complete, SnapshotsComplete, SnapshotOf, RowsOf
  <1>7. CardsSound'
    <2>1. ASSUME NEW q \in Readers PROVE CardSound(cards'[q])
      <3>1. CASE q = r
        BY <1>3, <3>1
      <3>2. CASE q # r
        BY <1>3, <3>2 DEF Inductive, Complete, CardsSound, CardSound
      <3> QED BY <3>1, <3>2
    <2> QED BY <2>1 DEF CardsSound, CardSound, RowsOfSnapshot
  <1> QED BY <1>1, <1>4, <1>5, <1>6, <1>7 DEF Inductive, Complete

(* A request that ends without a scorecard.                                  *)
LEMMA CardEnds ==
  ASSUME Inductive, UNCHANGED vars, UNCHANGED <<now, evals, snapshots, checks>>,
         NEW r \in Readers, NEW pc \in {"error", "not_found"},
         cards' = [cards EXCEPT ![r].pc = pc]
  PROVE  Inductive'
  <1> DEFINE card == [cards[r] EXCEPT !.pc = pc]
  <1>1. cards[r] \in Card
    BY DEF Inductive, EvidenceTypeOK
  <1>2. card \in Card /\ card.pc = pc
    BY <1>1 DEF Card
  <1>3. cards' = [cards EXCEPT ![r] = card]
    OBVIOUS
  <1> HIDE DEF card
  <1>4. CardSound(card)
    BY <1>2 DEF CardSound
  <1> QED BY <1>2, <1>3, <1>4, CardKeeps

(* GetService of the request.                                                *)
LEMMA GetServiceKeeps ==
  ASSUME Inductive, UNCHANGED vars, NEW r \in Readers, GetService(r)
  PROVE  Inductive'
  <1>1. UNCHANGED <<now, evals, snapshots, checks>> /\ cards[r] \in Card
        /\ snapshots \subseteq Snapshot
    BY DEF GetService, Inductive, EvidenceTypeOK
  <1>2. ASSUME NEW i \in Ids,
               cards' = [cards EXCEPT ![r].pc = "snapshot", ![r].service = i,
                                      ![r].known = {n \in snapshots : n.service = i}]
        PROVE  Inductive'
    <2> DEFINE known == {n \in snapshots : n.service = i}
               a == [cards[r] EXCEPT !.pc = "snapshot"]
               b == [a EXCEPT !.service = i]
               card == [b EXCEPT !.known = known]
    <2>1. known \in SUBSET Snapshot /\ \A n \in known : n \in snapshots /\ n.service = i
      BY <1>1
    <2>2. cards' = [cards EXCEPT ![r] = card]
      BY <1>2
    <2> HIDE DEF known
    <2>3. a \in Card /\ a.pc = "snapshot"
      BY <1>1 DEF Card
    <2> HIDE DEF a
    <2>4. b \in Card /\ b.pc = "snapshot" /\ b.service = i
      BY <2>3 DEF Card
    <2> HIDE DEF b
    <2>5. card \in Card /\ card.pc = "snapshot" /\ card.service = i /\ card.known = known
      BY <2>1, <2>4 DEF Card
    <2> HIDE DEF card
    <2>6. CardSound(card)
      BY <2>1, <2>5 DEF CardSound
    <2> QED BY <1>1, <2>2, <2>5, <2>6, CardKeeps
  <1>3. CASE cards' = [cards EXCEPT ![r].pc = "not_found"]
    BY <1>1, <1>3, CardEnds
  <1> QED BY <1>2, <1>3 DEF GetService

(* The latest snapshot of the service is at least as late as those known.    *)
LEMMA GetLatestSnapshotKeeps ==
  ASSUME Inductive, UNCHANGED vars, NEW r \in Readers, GetLatestSnapshot(r)
  PROVE  Inductive'
  <1>1. UNCHANGED <<now, evals, snapshots, checks>> /\ cards[r] \in Card
        /\ snapshots \subseteq Snapshot /\ cards[r].pc = "snapshot"
    BY DEF GetLatestSnapshot, Inductive, EvidenceTypeOK
  <1>2. /\ cards[r].service \in Ids
        /\ \A n \in cards[r].known : n \in snapshots /\ n.service = cards[r].service
    BY <1>1 DEF Inductive, Complete, CardsSound
  <1>3. ASSUME NEW n \in LatestSnapshots(cards[r].service),
               cards' = [cards EXCEPT ![r].pc = "checks", ![r].snapshot = n]
        PROVE  Inductive'
    <2> DEFINE a == [cards[r] EXCEPT !.pc = "checks"]
               card == [a EXCEPT !.snapshot = n]
    <2>1. /\ n \in snapshots /\ n.service = cards[r].service /\ n \in Snapshot
          /\ \A o \in cards[r].known : o.evaluatedAt <= n.evaluatedAt
      BY <1>1, <1>2 DEF LatestSnapshots
    <2>2. cards' = [cards EXCEPT ![r] = card]
      BY <1>3
    <2>3. a \in Card /\ a.pc = "checks" /\ a.service = cards[r].service
          /\ a.known = cards[r].known
      BY <1>1 DEF Card
    <2> HIDE DEF a
    <2>4. card \in Card /\ card.pc = "checks" /\ card.service = cards[r].service
          /\ card.known = cards[r].known /\ card.snapshot = n
      BY <2>1, <2>3 DEF Card
    <2> HIDE DEF card
    <2>5. CardSound(card)
      BY <1>2, <2>1, <2>4 DEF CardSound
    <2> QED BY <1>1, <2>2, <2>4, <2>5, CardKeeps
  <1>4. CASE cards' = [cards EXCEPT ![r].pc = "not_found"]
    BY <1>1, <1>4, CardEnds
  <1> QED BY <1>3, <1>4 DEF GetLatestSnapshot

(* The rows are those of the snapshot that was read before.                  *)
LEMMA GetChecksKeeps ==
  ASSUME Inductive, UNCHANGED vars, NEW r \in Readers, GetChecks(r)
  PROVE  Inductive'
  <1> DEFINE rows == RowsOfSnapshot(cards[r])
             a == [cards[r] EXCEPT !.pc = "ok"]
             card == [a EXCEPT !.checks = rows]
  <1>1. /\ UNCHANGED <<now, evals, snapshots, checks>> /\ cards[r] \in Card
        /\ cards[r].pc = "checks" /\ cards' = [cards EXCEPT ![r] = card]
    BY DEF GetChecks, Inductive, EvidenceTypeOK
  <1>2. rows \in SUBSET CheckRow /\ rows = {c \in checks : c.snapshot = cards[r].snapshot.id}
    BY DEF RowsOfSnapshot, Inductive, EvidenceTypeOK
  <1>3. /\ cards[r].service \in Ids
        /\ cards[r].snapshot \in snapshots /\ cards[r].snapshot.service = cards[r].service
        /\ \A n \in cards[r].known : n.evaluatedAt <= cards[r].snapshot.evaluatedAt
    BY <1>1 DEF Inductive, Complete, CardsSound
  <1> HIDE DEF rows
  <1>4. a \in Card /\ a.pc = "ok" /\ a.service = cards[r].service
        /\ a.known = cards[r].known /\ a.snapshot = cards[r].snapshot
    BY <1>1 DEF Card
  <1> HIDE DEF a
  <1>5. card \in Card /\ card.pc = "ok" /\ card.service = cards[r].service
        /\ card.known = cards[r].known /\ card.snapshot = cards[r].snapshot
        /\ card.checks = rows
    BY <1>2, <1>4 DEF Card
  <1> HIDE DEF card
  <1>6. CardSound(card)
    BY <1>2, <1>3, <1>5 DEF CardSound, RowsOfSnapshot
  <1> QED BY <1>1, <1>5, <1>6, CardKeeps

----------------------------------------------------------------------------
(* Every step of the workers, the requests and the registry keeps the        *)
(* invariant.                                                                *)
LEMMA EvidenceNextInductive ==
  Inductive /\ [EvidenceNext]_<<vars, evidence>> => Inductive'
  <1> SUFFICES ASSUME Inductive, [EvidenceNext]_<<vars, evidence>> PROVE Inductive'
    OBVIOUS
  <1>1. CASE [Next]_vars /\ UNCHANGED evidence
    BY <1>1, RegistryKeeps
  <1>2. CASE EvidenceStep /\ UNCHANGED vars
    <2>1. ASSUME NEW e \in Evaluations,
                 ReadService(e) \/ StampEvaluation(e) \/ SaveReadinessEvaluation(e)
          PROVE  Inductive'
      BY <1>2, <2>1, ReadServiceKeeps, StampEvaluationKeeps, SaveKeeps
    <2>2. ASSUME NEW r \in Readers, GetService(r) \/ GetLatestSnapshot(r) \/ GetChecks(r)
          PROVE  Inductive'
      BY <1>2, <2>2, GetServiceKeeps, GetLatestSnapshotKeeps, GetChecksKeeps
    <2>3. ASSUME NEW r \in Readers, FailCard(r) PROVE Inductive'
      BY <1>2, <2>3, CardEnds DEF FailCard
    <2> QED BY <1>2, <2>1, <2>2, <2>3, TickKeeps DEF EvidenceStep
  <1> QED BY <1>1, <1>2 DEF EvidenceNext

(* The invariant is one: reads of a service in the order of its versions,     *)
(* snapshots stored with all their rows, and scorecards of one snapshot.      *)
THEOREM EvidenceInductive == EvidenceSpec => []Inductive
  BY EvidenceInitInductive, EvidenceNextInductive, PTL DEF EvidenceSpec

(* Workers and scorecards only read the registry: whatever holds of it by     *)
(* itself, such as StoredServicesValid, holds with them.                     *)
THEOREM EvidenceImplementsRegistry == EvidenceSpec => Spec
  <1>1. [EvidenceNext]_<<vars, evidence>> => [Next]_vars
    BY DEF EvidenceNext
  <1> QED BY <1>1, PTL DEF EvidenceSpec, Spec

(* Snapshots, rows and scorecards keep to the columns' types.                *)
THEOREM EvidenceTypes == EvidenceSpec => []EvidenceTypeOK
  <1>1. Inductive => EvidenceTypeOK
    BY DEF Inductive
  <1> QED BY <1>1, EvidenceInductive, PTL

(* Evidence of a newer profile is not stamped, in true time, before the older *)
(* one was read, whatever the workers' clocks.                               *)
THEOREM OldEvidenceStaysBounded == EvidenceSpec => []OldEvidenceIsBounded
  <1>1. Inductive => OldEvidenceIsBounded
    <2> SUFFICES ASSUME Inductive, NEW n \in snapshots, NEW o \in snapshots,
                        n.service = o.service, n.version < o.version
                 PROVE  o.evaluatedAt - Skew[o.id] >= n.readAt
      BY DEF OldEvidenceIsBounded
    <2>1. n.id \in Evaluations /\ o.id \in Evaluations
      BY DEF Inductive, EvidenceTypeOK, Snapshot
    <2> DEFINE d == evals[n.id]
               e == evals[o.id]
    <2>2. n = SnapshotOf(n.id) /\ o = SnapshotOf(o.id) /\ e.pc = "done" /\ e.service # None
      BY DEF Inductive, Complete, SnapshotsComplete
    <2>3. /\ n.service = d.service /\ n.version = d.version /\ n.readAt = d.readAt
          /\ o.service = e.service /\ o.version = e.version /\ o.evaluatedAt = e.at
      BY <2>2 DEF SnapshotOf
    <2>4. d.readAt <= e.readAt
      BY <2>1, <2>2, <2>3 DEF Inductive, Complete, ReadsInOrder
    <2>5. e.at - Skew[o.id] >= e.readAt
      BY <2>1, <2>2 DEF Inductive, Complete, ReadsSound
    <2>6. d.readAt \in Int /\ e.readAt \in Int /\ e.at \in Int /\ Skew[o.id] \in Int
      BY <2>1, SkewAssumption DEF Inductive, EvidenceTypeOK, Evaluation
    <2> QED BY <2>3, <2>4, <2>5, <2>6
  <1> QED BY <1>1, EvidenceInductive, PTL

(* A scorecard put together from three reads adds up and is no older than     *)
(* its request.                                                              *)
THEOREM CardsAreSound == EvidenceSpec => []CardIsSound
  <1>1. Inductive => CardIsSound
    <2> SUFFICES ASSUME Inductive, NEW r \in Readers, cards[r].pc = "ok"
                 PROVE  LET rows == cards[r].checks
                            fails == Counting(rows, "fail")
                            warns == Counting(rows, "warn")
                            score == 100 - 30 * fails - 10 * warns
                        IN  /\ {c.name : c \in rows} = Check /\ Cardinality(rows) = 10
                            /\ \A c \in rows : c.service = cards[r].service
                            /\ cards[r].snapshot.score = IF score < 0 THEN 0 ELSE score
                            /\ cards[r].snapshot.state = "ready" <=> fails + warns = 0
                            /\ cards[r].snapshot.state = "blocked" <=> fails > 0
                            /\ \A n \in cards[r].known :
                                 n.evaluatedAt <= cards[r].snapshot.evaluatedAt
      BY DEF CardIsSound, CardAddsUp, CardIsLatest
    <2>1. /\ cards[r].snapshot \in snapshots /\ cards[r].snapshot.service = cards[r].service
          /\ \A n \in cards[r].known : n.evaluatedAt <= cards[r].snapshot.evaluatedAt
          /\ cards[r].checks = {c \in checks : c.snapshot = cards[r].snapshot.id}
      BY DEF Inductive, Complete, CardsSound, RowsOfSnapshot
    <2> DEFINE e == cards[r].snapshot.id
               s == evals[e].profile
    <2>2. e \in Evaluations
      BY <2>1 DEF Inductive, EvidenceTypeOK, Snapshot
    <2>3. /\ cards[r].checks = RowsOf(e) /\ cards[r].snapshot = SnapshotOf(e)
          /\ evals[e].service # None
      BY <2>1 DEF Inductive, Complete, SnapshotsComplete
    <2>4. s \in Service
      BY <2>2, <2>3 DEF Inductive, Complete, ReadsSound
    <2>5. /\ cards[r].snapshot.state = State(s) /\ cards[r].snapshot.score = Score(s)
          /\ cards[r].snapshot.service = evals[e].service
      BY <2>3 DEF SnapshotOf
    <2> HIDE DEF e
    <2>6. /\ Counting(cards[r].checks, "fail") = Failures(s)
          /\ Counting(cards[r].checks, "warn") = Warnings(s)
          /\ Cardinality(cards[r].checks) = 10
          /\ {c.name : c \in cards[r].checks} = Check
          /\ \A c \in cards[r].checks : c.service = evals[e].service
      BY <2>2, <2>3, <2>4, RowsCount
    <2>7. Failures(s) \in 0 .. 5 /\ Warnings(s) \in 0 .. 5
      BY <2>4, CountsBounded
    <2> HIDE DEF s
    <2>8. /\ State(s) = "ready" <=> Failures(s) + Warnings(s) = 0
          /\ State(s) = "blocked" <=> Failures(s) > 0
      BY <2>7 DEF State
    <2> QED BY <2>1, <2>5, <2>6, <2>8 DEF Score
  <1> QED BY <1>1, EvidenceInductive, PTL
=============================================================================
