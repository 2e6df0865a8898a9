-------------------------- MODULE MigrationsProofs --------------------------
(***************************************************************************)
(* Proofs about Migrations, for every set of migrators and runtimes and     *)
(* every choice of embedded files.  Inductive is kept by each action; the   *)
(* advisory lock (HolderAlone) is what keeps the entry a migrator has       *)
(* checked out of everybody else's reach.                                   *)
(***************************************************************************)
EXTENDS Migrations, TLAPS

USE DEF Outcomes, Commits, schema

(* Init satisfies the invariant.                                            *)
LEMMA InitInductive == Init => Inductive
<1> SUFFICES ASSUME Init PROVE Inductive
  OBVIOUS
<1> USE MigrationsAssumption DEF Init
<1>1. TypeOK
  <2>1. \A m \in Migrators : Embedded[m] \in SUBSET Version
    OBVIOUS
  <2> QED BY <2>1 DEF TypeOK, MigratorPC, BootPC
<1>2. HolderAlone /\ CheckStaysTrue
  BY DEF HolderAlone, CheckStaysTrue, Holding
<1>3. LoopInvariant
  BY DEF LoopInvariant
<1>4. AppliedOnce
  BY DEF AppliedOnce
<1>5. AppliedInOrder /\ SuccessIsComplete
  BY DEF AppliedInOrder, SuccessIsComplete
<1>6. ServingSchemaComplete
  BY DEF ServingSchemaComplete
<1> QED BY <1>1, <1>2, <1>3, <1>4, <1>5, <1>6 DEF Inductive

(* The transaction of a version keeps the types of the tables.              *)
LEMMA CommitTypes ==
  ASSUME effects \in [Version -> Nat], recorded \in SUBSET Version,
         NEW v \in Version, NEW out, CommitVersion(v, out)
  PROVE  effects' \in [Version -> Nat] /\ recorded' \in SUBSET Version
<1>1. effects[v] + 1 \in Nat
  OBVIOUS
<1>2. [effects EXCEPT ![v] = effects[v] + 1] \in [Version -> Nat]
  BY <1>1
<1>3. effects' = [effects EXCEPT ![v] = effects[v] + 1] \/ effects' = effects
  BY DEF CommitVersion
<1>4. recorded' = recorded \union {v} \/ recorded' = recorded
  BY DEF CommitVersion
<1> QED BY <1>2, <1>3, <1>4

(* Every action keeps the types.                                            *)
LEMMA TypeStep == ASSUME TypeOK, LoopInvariant, [Next]_vars PROVE TypeOK'
<1> USE MigrationsAssumption DEF TypeOK, MigratorPC, BootPC, Go, GoIf
<1>1. ASSUME NEW m \in Migrators, AdvisoryLock(m) PROVE TypeOK'
  BY <1>1 DEF AdvisoryLock
<1>2. ASSUME NEW m \in Migrators, EnsureTable(m) PROVE TypeOK'
  BY <1>2 DEF EnsureTable
<1>3. ASSUME NEW m \in Migrators, NextEntry(m) PROVE TypeOK'
  BY <1>3 DEF NextEntry
<1>4. ASSUME NEW m \in Migrators, MigrationApplied(m) PROVE TypeOK'
  BY <1>4 DEF MigrationApplied
<1>5. ASSUME NEW m \in Migrators, ApplyVersion(m) PROVE TypeOK'
  <2>1. entry[m] \in Version
    BY <1>5 DEF ApplyVersion, LoopInvariant
  <2>2. effects' \in [Version -> Nat] /\ recorded' \in SUBSET Version
    BY <1>5, <2>1, CommitTypes DEF ApplyVersion
  <2> QED BY <1>5, <2>2 DEF ApplyVersion
<1>6. ASSUME NEW m \in Migrators, AdvisoryUnlock(m) PROVE TypeOK'
  BY <1>6 DEF AdvisoryUnlock
<1>7. ASSUME NEW m \in Migrators, Kill(m) PROVE TypeOK'
  BY <1>7 DEF Kill
<1>8. ASSUME NEW m \in Migrators, LateCommit(m) PROVE TypeOK'
  <2>1. entry[m] \in Version
    BY <1>8 DEF LateCommit, LoopInvariant
  <2>2. effects' \in [Version -> Nat] /\ recorded' \in SUBSET Version
    BY <1>8, <2>1, CommitTypes DEF LateCommit
  <2> QED BY <1>8, <2>2 DEF LateCommit
<1>9. ASSUME NEW m \in Migrators, EndSession(m) PROVE TypeOK'
  BY <1>9 DEF EndSession
<1>10. ASSUME NEW r \in Runtimes, TableExists(r) PROVE TypeOK'
  BY <1>10 DEF TableExists
<1>11. ASSUME NEW r \in Runtimes, ListVersions(r) PROVE TypeOK'
  BY <1>11 DEF ListVersions, Verdict
<1>12. CASE UNCHANGED vars
  BY <1>12 DEF vars
<1> QED
  BY <1>1, <1>2, <1>3, <1>4, <1>5, <1>6, <1>7, <1>8, <1>9, <1>10, <1>11, <1>12
  DEF Next, LockedStep, AllEnded

(* The parts of the invariant besides the types.                            *)
Safety ==
  /\ HolderAlone /\ LoopInvariant /\ CheckStaysTrue /\ AppliedOnce
  /\ AppliedInOrder /\ SuccessIsComplete /\ ServingSchemaComplete

(* Committing the version at hand, by a live or by a dead migrator: m holds  *)
(* the lock, so its entry is nobody else's, and what precedes the entry in   *)
(* its binary is recorded.                                                   *)
LEMMA CommitKeepsTables ==
  ASSUME TypeOK, Safety, NEW m \in Migrators, pc[m] \in {"apply", "committing"},
         NEW out \in Outcomes, CommitVersion(entry[m], out)
  PROVE  /\ AppliedOnce' /\ AppliedInOrder'
         /\ recorded' = recorded \/ recorded' = recorded \union {entry[m]}
         /\ \A n \in Migrators \ {m} : pc[n] \notin Holding
<1> USE MigrationsAssumption DEF Safety
<1>1. /\ entry[m] \in Version /\ entry[m] \in Embedded[m] /\ entry[m] \notin recorded
      /\ \A w \in Embedded[m] : w < entry[m] => w \in recorded
  <2>1. \A w \in todo[m] : entry[m] < w
    BY DEF LoopInvariant
  <2>2. entry[m] \in Embedded[m] /\ Embedded[m] \subseteq Nat /\ Embedded[m] \subseteq Version
    BY DEF LoopInvariant
  <2>3. ASSUME NEW w \in Embedded[m], w < entry[m] PROVE w \in recorded
    <3>1. w \notin todo[m]
      BY <2>1, <2>2, <2>3
    <3> QED BY <3>1, <2>2, <2>3 DEF LoopInvariant
  <2> QED BY <2>2, <2>3 DEF CheckStaysTrue
<1>2. recorded' = recorded \/ recorded' = recorded \union {entry[m]}
  BY DEF CommitVersion
<1>3. AppliedOnce'
  BY <1>1 DEF AppliedOnce, CommitVersion, TypeOK
<1>4. AppliedInOrder'
  BY <1>1, <1>2 DEF AppliedInOrder
<1>5. \A n \in Migrators \ {m} : pc[n] \notin Holding
  BY DEF HolderAlone, Holding
<1> QED BY <1>2, <1>3, <1>4, <1>5

(* Every action keeps the other parts.                                      *)
LEMMA SafetyStep == ASSUME TypeOK, Safety, [Next]_vars PROVE Safety'
<1> USE MigrationsAssumption DEF TypeOK, Go, GoIf, Holding
<1> DEFINE Tables == AppliedOnce /\ AppliedInOrder
<1> DEFINE Control == HolderAlone /\ LoopInvariant /\ CheckStaysTrue /\ SuccessIsComplete
<1>a. ASSUME UNCHANGED <<recorded, effects>> PROVE Tables'
  BY <1>a DEF AppliedOnce, AppliedInOrder, Safety
<1>b. ASSUME recorded \subseteq recorded', UNCHANGED boot PROVE ServingSchemaComplete'
  BY <1>b DEF ServingSchemaComplete, Safety
<1>1. ASSUME NEW m \in Migrators, AdvisoryLock(m) PROVE Safety'
  <2>1. HolderAlone'
    BY <1>1 DEF AdvisoryLock, HolderAlone, Safety
  <2>2. LoopInvariant' /\ CheckStaysTrue' /\ SuccessIsComplete'
    BY <1>1 DEF AdvisoryLock, LoopInvariant, CheckStaysTrue, SuccessIsComplete, Safety
  <2> QED BY <1>1, <1>a, <1>b, <2>1, <2>2 DEF AdvisoryLock, Safety
<1>2. ASSUME NEW m \in Migrators, EnsureTable(m) PROVE Safety'
  <2>1. HolderAlone'
    BY <1>2 DEF EnsureTable, HolderAlone, Safety
  <2>2. CheckStaysTrue' /\ SuccessIsComplete'
    BY <1>2 DEF EnsureTable, CheckStaysTrue, SuccessIsComplete, Safety
  <2>3. LoopInvariant'
    <3>1. PICK out \in Outcomes : /\ table' = (table \/ Commits(out))
                                 /\ GoIf(m, out, "next", "unlock")
      BY <1>2 DEF EnsureTable
    <3>2. table => table'
      BY <3>1
    <3>3. out = "ok" => table'
      BY <3>1
    <3> QED BY <1>2, <3>1, <3>2, <3>3 DEF EnsureTable, LoopInvariant, Safety
  <2> QED BY <1>2, <1>a, <1>b, <2>1, <2>2, <2>3 DEF EnsureTable, Safety
<1>3. ASSUME NEW m \in Migrators, NextEntry(m) PROVE Safety'
  <2>1. HolderAlone'
    BY <1>3 DEF NextEntry, HolderAlone, Safety
  <2>2. CheckStaysTrue' /\ SuccessIsComplete'
    BY <1>3 DEF NextEntry, LoopInvariant, CheckStaysTrue, SuccessIsComplete, Safety
  <2>3. CASE todo[m] = {}
    BY <1>3, <2>3, <2>1, <2>2, <1>a, <1>b DEF NextEntry, LoopInvariant, Safety
  <2>4. CASE todo[m] # {}
    <3>1. PICK v \in todo[m] : /\ \A w \in todo[m] : v <= w
                              /\ entry' = [entry EXCEPT ![m] = v]
                              /\ todo' = [todo EXCEPT ![m] = @ \ {v}]
                              /\ pc' = [pc EXCEPT ![m] = "check"]
      BY <1>3, <2>4 DEF NextEntry, FirstEntry
    <3>2. \A w \in todo[m] \ {v} : v < w
      BY <3>1
    <3>3. LoopInvariant'
      BY <1>3, <3>1, <3>2 DEF NextEntry, LoopInvariant, Safety
    <3> QED BY <1>3, <3>3, <2>1, <2>2, <1>a, <1>b DEF NextEntry, Safety
  <2> QED BY <2>3, <2>4
<1>4. ASSUME NEW m \in Migrators, MigrationApplied(m) PROVE Safety'
  <2>1. HolderAlone'
    BY <1>4 DEF MigrationApplied, HolderAlone, Safety
  <2>2. LoopInvariant' /\ CheckStaysTrue' /\ SuccessIsComplete'
    BY <1>4 DEF MigrationApplied, LoopInvariant, CheckStaysTrue, SuccessIsComplete, Safety
  <2> QED BY <1>4, <1>a, <1>b, <2>1, <2>2 DEF MigrationApplied, Safety
<1>5. ASSUME NEW m \in Migrators, ApplyVersion(m) PROVE Safety'
  <2>1. PICK out \in Outcomes : CommitVersion(entry[m], out) /\ GoIf(m, out, "next", "unlock")
    BY <1>5 DEF ApplyVersion
  <2>2. /\ AppliedOnce' /\ AppliedInOrder'
        /\ recorded' = recorded \/ recorded' = recorded \union {entry[m]}
        /\ \A n \in Migrators \ {m} : pc[n] \notin Holding
    BY <1>5, <2>1, CommitKeepsTables DEF ApplyVersion
  <2>3. HolderAlone'
    BY <1>5 DEF ApplyVersion, HolderAlone, Safety
  <2>4. out = "ok" => recorded' = recorded \union {entry[m]}
    BY <2>1 DEF CommitVersion
  <2>5. LoopInvariant' /\ CheckStaysTrue' /\ SuccessIsComplete'
    BY <1>5, <2>1, <2>2, <2>4
    DEF ApplyVersion, LoopInvariant, CheckStaysTrue, SuccessIsComplete, Safety
  <2> QED BY <1>5, <1>b, <2>2, <2>3, <2>5 DEF ApplyVersion, Safety
<1>6. ASSUME NEW m \in Migrators, AdvisoryUnlock(m) PROVE Safety'
  <2>1. HolderAlone'
    BY <1>6 DEF AdvisoryUnlock, HolderAlone, Safety
  <2>2. LoopInvariant' /\ CheckStaysTrue' /\ SuccessIsComplete'
    BY <1>6 DEF AdvisoryUnlock, LoopInvariant, CheckStaysTrue, SuccessIsComplete, Safety
  <2> QED BY <1>6, <1>a, <1>b, <2>1, <2>2 DEF AdvisoryUnlock, Safety
<1>7. ASSUME NEW m \in Migrators, Kill(m) PROVE Safety'
  <2>1. HolderAlone'
    BY <1>7 DEF Kill, HolderAlone, Safety
  <2>2. LoopInvariant' /\ CheckStaysTrue' /\ SuccessIsComplete'
    BY <1>7 DEF Kill, LoopInvariant, CheckStaysTrue, SuccessIsComplete, Safety
  <2> QED BY <1>7, <1>a, <1>b, <2>1, <2>2 DEF Kill, Safety
<1>8. ASSUME NEW m \in Migrators, LateCommit(m) PROVE Safety'
  <2>1. CommitVersion(entry[m], "lost")
    BY <1>8 DEF LateCommit
  <2>2. /\ AppliedOnce' /\ AppliedInOrder'
        /\ recorded' = recorded \/ recorded' = recorded \union {entry[m]}
        /\ \A n \in Migrators \ {m} : pc[n] \notin Holding
    BY <1>8, <2>1, CommitKeepsTables DEF LateCommit
  <2>3. HolderAlone'
    BY <1>8 DEF LateCommit, HolderAlone, Safety
  <2>5. LoopInvariant' /\ CheckStaysTrue' /\ SuccessIsComplete'
    BY <1>8, <2>2
    DEF LateCommit, LoopInvariant, CheckStaysTrue, SuccessIsComplete, Safety
  <2> QED BY <1>8, <1>b, <2>2, <2>3, <2>5 DEF LateCommit, Safety
<1>9. ASSUME NEW m \in Migrators, EndSession(m) PROVE Safety'
  <2>1. HolderAlone'
    BY <1>9 DEF EndSession, HolderAlone, Safety
  <2>2. LoopInvariant' /\ CheckStaysTrue' /\ SuccessIsComplete'
    BY <1>9 DEF EndSession, LoopInvariant, CheckStaysTrue, SuccessIsComplete, Safety
  <2> QED BY <1>9, <1>a, <1>b, <2>1, <2>2 DEF EndSession, Safety
<1>c. ASSUME UNCHANGED <<lock, pc, todo, entry, result, table, recorded, effects>>
      PROVE Tables' /\ Control'
  BY <1>c DEF HolderAlone, LoopInvariant, CheckStaysTrue, AppliedOnce, AppliedInOrder,
              SuccessIsComplete, Safety
<1>10. ASSUME NEW r \in Runtimes, TableExists(r) PROVE Safety'
  <2>1. ServingSchemaComplete'
    BY <1>10 DEF TableExists, ServingSchemaComplete, Safety
  <2> QED BY <1>10, <1>c, <2>1 DEF TableExists, Safety
<1>11. ASSUME NEW r \in Runtimes, ListVersions(r) PROVE Safety'
  <2>1. ServingSchemaComplete'
    BY <1>11 DEF ListVersions, Verdict, ServingSchemaComplete, Safety
  <2> QED BY <1>11, <1>c, <2>1 DEF ListVersions, Safety
<1>12. CASE UNCHANGED vars
  BY <1>12, <1>b, <1>c DEF vars, Safety
<1> QED
  BY <1>1, <1>2, <1>3, <1>4, <1>5, <1>6, <1>7, <1>8, <1>9, <1>10, <1>11, <1>12
  DEF Next, LockedStep, AllEnded

(* Whatever binaries migrate and boot side by side, the types, the exclusion *)
(* by the advisory lock, the loop of Apply and the four guarantees of the    *)
(* schema table hold in every reachable state.                               *)
THEOREM MigrationsInductive == Spec => []Inductive
<1>1. Inductive /\ [Next]_vars => Inductive'
  BY TypeStep, SafetyStep DEF Inductive, Safety
<1> QED BY <1>1, InitInductive, PTL DEF Spec

(* No version is applied between a migrator's check and its COMMIT.          *)
THEOREM ChecksStayTrue == Spec => []CheckStaysTrue
<1>1. Inductive => CheckStaysTrue
  BY DEF Inductive
<1> QED BY <1>1, MigrationsInductive, PTL

(* Each recorded version's statements were committed exactly once.           *)
THEOREM VersionsAppliedOnce == Spec => []AppliedOnce
<1>1. Inductive => AppliedOnce
  BY DEF Inductive
<1> QED BY <1>1, MigrationsInductive, PTL

(* Versions are applied in the order of some binary's files.                 *)
THEOREM VersionsAppliedInOrder == Spec => []AppliedInOrder
<1>1. Inductive => AppliedInOrder
  BY DEF Inductive
<1> QED BY <1>1, MigrationsInductive, PTL

(* cmd/migrate succeeds only with all of its versions recorded.              *)
THEOREM SuccessMeansComplete == Spec => []SuccessIsComplete
<1>1. Inductive => SuccessIsComplete
  BY DEF Inductive
<1> QED BY <1>1, MigrationsInductive, PTL

(* The one check at boot keeps a serving runtime on a complete schema.       *)
THEOREM ServingOnCompleteSchema == Spec => []ServingSchemaComplete
<1>1. Inductive => ServingSchemaComplete
  BY DEF Inductive
<1> QED BY <1>1, MigrationsInductive, PTL

(* A boot checked after a sufficient migration is not refused for want of it. *)
THEOREM RefusalsHaveReason == Spec => RefusalHasReason
<1> DEFINE Reason ==
      \A r \in Runtimes :
        (boot'[r] # boot[r] /\ boot'[r] \in {"uninitialized", "behind"}) =>
          \A m \in Migrators : Embedded[r] \subseteq Embedded[m] => result[m] # "applied"
<1>1. Inductive /\ [Next]_vars => [Reason]_vars
  <2> SUFFICES ASSUME Inductive, [Next]_vars PROVE Reason \/ UNCHANGED vars
    OBVIOUS
  <2> USE DEF Inductive, TypeOK
  <2>1. ASSUME NEW r \in Runtimes, TableExists(r) PROVE Reason
    BY <2>1 DEF TableExists, LoopInvariant
  <2>2. ASSUME NEW r \in Runtimes, ListVersions(r) PROVE Reason
    BY <2>2 DEF ListVersions, Verdict, SuccessIsComplete
  <2>3. ASSUME UNCHANGED boot PROVE Reason
    BY <2>3
  <2>4. ASSUME NEW m \in Migrators,
               AdvisoryLock(m) \/ LockedStep(m) \/ Kill(m) \/ LateCommit(m) \/ EndSession(m)
        PROVE  UNCHANGED boot
    BY <2>4 DEF AdvisoryLock, LockedStep, EnsureTable, NextEntry, MigrationApplied,
                ApplyVersion, AdvisoryUnlock, Kill, LateCommit, EndSession
  <2> QED BY <2>1, <2>2, <2>3, <2>4 DEF Next, AllEnded
<1> QED BY <1>1, MigrationsInductive, PTL DEF Spec, RefusalHasReason
============================================================================
