----------------------------- MODULE Migrations -----------------------------
(***************************************************************************)
(* The schema lifecycle: cmd/migrate runs Apply under a session-level       *)
(* advisory lock, one transaction per version; every runtime runs           *)
(* EnsureCompatible once, before it serves, without that lock.              *)
(*                                                                          *)
(* A migrator is one execution of cmd/migrate and its one database session. *)
(* Binaries of several releases run side by side: Embedded says which       *)
(* sql/*.sql files each has built in.  A process may be killed at any time; *)
(* PostgreSQL keeps its session, with the lock and with a COMMIT already    *)
(* sent, until it notices.  One action is one database call with the code   *)
(* around it, with the outcomes "ok", "lost" (it takes effect and the       *)
(* answer never arrives) and "err" (it has no effect).                      *)
(***************************************************************************)
EXTENDS Integers

CONSTANTS Migrators,  \* executions of cmd/migrate
          Runtimes,   \* boots of the API or the worker
          Version,    \* migration files, numbered in the order of their names
          Embedded,   \* [Migrators \union Runtimes -> SUBSET Version]
          None

ASSUME MigrationsAssumption ==
  /\ Version \subseteq Nat
  /\ Embedded \in [Migrators \union Runtimes -> SUBSET Version]
  /\ None \notin Migrators /\ None \notin Version /\ None \notin {"applied", "failed"}

VARIABLES lock,      \* session holding advisory lock 486031
          pc,        \* control state of the migrators
          todo,      \* entries of the loop in Apply not yet dealt with
          entry,     \* the entry of this turn of the loop
          result,    \* what Apply returns
          table,     \* does schema_migrations exist
          recorded,  \* its rows
          effects,   \* how often each file's statements were committed
          boot       \* control state of the runtimes

vars == <<lock, pc, todo, entry, result, table, recorded, effects, boot>>

----------------------------------------------------------------------------
MigratorPC == {"lock", "prepare", "next", "check", "apply", "unlock", "exit",
               "killed", "committing", "gone"}

BootPC == {"start", "list", "serving", "uninitialized", "behind", "ahead", "error"}

TypeOK ==
  /\ lock \in Migrators \union {None}
  /\ pc \in [Migrators -> MigratorPC]
  /\ todo \in [Migrators -> SUBSET Version]
  /\ entry \in [Migrators -> Version \union {None}]
  /\ result \in [Migrators -> {None, "applied", "failed"}]
  /\ table \in BOOLEAN
  /\ recorded \in SUBSET Version
  /\ effects \in [Version -> Nat]
  /\ boot \in [Runtimes -> BootPC]

Init ==
  /\ lock = None
  /\ pc = [m \in Migrators |-> "lock"]
  /\ todo = [m \in Migrators |-> Embedded[m]]
  /\ entry = [m \in Migrators |-> None]
  /\ result = [m \in Migrators |-> None]
  /\ table = FALSE
  /\ recorded = {}
  /\ effects = [v \in Version |-> 0]
  /\ boot = [r \in Runtimes |-> "start"]

Outcomes == {"ok", "lost", "err"}
Commits(out) == out \in {"ok", "lost"}
schema == <<table, recorded, effects>>

Go(m, to) == pc' = [pc EXCEPT ![m] = to]

(* A call of migrator m answers and it goes on at "to"; when no answer       *)
(* comes, Apply returns an error.                                            *)
GoIf(m, out, to, failTo) ==
  /\ Go(m, IF out = "ok" THEN to ELSE failTo)
  /\ result' = IF out = "ok" THEN result ELSE [result EXCEPT ![m] = "failed"]

----------------------------------------------------------------------------
(* Migrators.                                                               *)

(* Fault: pg_try_advisory_lock, its answer not looked at.                   *)
TryAdvisoryLock(m) ==
  /\ pc[m] = "lock"
  /\ lock' = IF lock = None THEN m ELSE lock
  /\ Go(m, "prepare")
  /\ UNCHANGED <<todo, entry, result, schema, boot>>

(* pg_advisory_lock waits for the holder.  The unlock is deferred only once  *)
(* it has answered, so a lost answer keeps the lock until the session ends.  *)
AdvisoryLock(m) ==
  /\ pc[m] = "lock"
  /\ \E out \in Outcomes :
       /\ Commits(out) => lock = None
       /\ lock' = IF Commits(out) THEN m ELSE lock
       /\ GoIf(m, out, "prepare", "exit")
  /\ UNCHANGED <<todo, entry, schema, boot>>

(* CREATE SCHEMA, SET search_path, CREATE TABLE IF NOT EXISTS.               *)
EnsureTable(m) ==
  /\ pc[m] = "prepare"
  /\ \E out \in Outcomes :
       /\ table' = (table \/ Commits(out))
       /\ GoIf(m, out, "next", "unlock")
  /\ UNCHANGED <<lock, todo, entry, recorded, effects, boot>>

(* Fault: the directory's order is not sorted.                              *)
AnyEntry(m, v) == v \in todo[m]

(* migrationEntries: .sql files, sorted by name.                            *)
FirstEntry(m, v) == v \in todo[m] /\ \A w \in todo[m] : v <= w

(* Fault: the loop begins again at the first entry instead of going on.      *)
RestartEntries(m) ==
  /\ pc[m] = "next"
  /\ \E v \in Embedded[m] :
       /\ FirstEntry(m, v)
       /\ entry' = [entry EXCEPT ![m] = v]
  /\ Go(m, "check")
  /\ UNCHANGED <<lock, todo, result, schema, boot>>

(* The loop head: the next entry, or Apply is through.                      *)
NextEntry(m) ==
  /\ pc[m] = "next"
  /\ \/ /\ todo[m] = {}
        /\ Go(m, "unlock")
        /\ result' = [result EXCEPT ![m] = "applied"]
        /\ UNCHANGED <<todo, entry>>
     \/ /\ \E v \in todo[m] :
             /\ FirstEntry(m, v)
             /\ entry' = [entry EXCEPT ![m] = v]
             /\ todo' = [todo EXCEPT ![m] = @ \ {v}]
        /\ Go(m, "check")
        /\ UNCHANGED result
  /\ UNCHANGED <<lock, schema, boot>>

(* Fault: the version is looked for and the answer not waited for.          *)
SkipEntry(m) ==
  /\ pc[m] = "check"
  /\ Go(m, "next")
  /\ UNCHANGED <<result, lock, todo, entry, schema, boot>>

(* migrationApplied.                                                        *)
MigrationApplied(m) ==
  /\ pc[m] = "check"
  /\ \E out \in {"ok", "err"} :
       GoIf(m, out, IF entry[m] \in recorded THEN "next" ELSE "apply", "unlock")
  /\ UNCHANGED <<lock, todo, entry, schema, boot>>

(* Fault: the file is run outside the transaction that records it.          *)
CommitFileAlone(v, out) ==
  /\ effects' = [effects EXCEPT ![v] = @ + 1]
  /\ recorded' = IF Commits(out) THEN recorded \union {v} ELSE recorded

(* The transaction of one version: the file's statements and its row, both   *)
(* or neither.                                                               *)
CommitVersion(v, out) ==
  /\ effects' = IF Commits(out) THEN [effects EXCEPT ![v] = @ + 1] ELSE effects
  /\ recorded' = IF Commits(out) THEN recorded \union {v} ELSE recorded

(* BEGIN, the file, INSERT INTO schema_migrations, COMMIT.  A row that is    *)
(* already there violates the primary key: rollback.                         *)
ApplyVersion(m) ==
  /\ pc[m] = "apply"
  /\ \E out \in Outcomes :
       /\ entry[m] \in recorded => out = "err"
       /\ CommitVersion(entry[m], out)
       /\ GoIf(m, out, "next", "unlock")
  /\ UNCHANGED <<lock, todo, entry, table, boot>>

(* The deferred pg_advisory_unlock, whose error is ignored, and the return   *)
(* to main.                                                                  *)
AdvisoryUnlock(m) ==
  /\ pc[m] = "unlock"
  /\ \E out \in Outcomes : lock' = IF Commits(out) /\ lock = m THEN None ELSE lock
  /\ Go(m, "exit")
  /\ UNCHANGED <<todo, entry, result, schema, boot>>

Running == {"lock", "prepare", "next", "check", "apply", "unlock"}

(* The process dies.  A COMMIT it has sent may still take effect.           *)
Kill(m) ==
  /\ pc[m] \in Running
  /\ Go(m, IF pc[m] = "apply" THEN "committing" ELSE "killed")
  /\ UNCHANGED <<lock, todo, entry, result, schema, boot>>

(* PostgreSQL finishes the COMMIT of a process that is no longer there.      *)
LateCommit(m) ==
  /\ pc[m] = "committing"
  /\ entry[m] \notin recorded
  /\ CommitVersion(entry[m], "lost")
  /\ Go(m, "killed")
  /\ UNCHANGED <<lock, todo, entry, result, table, boot>>

(* The session ends, after pool.Close or os.Exit or when PostgreSQL notices  *)
(* that its client is gone; an open transaction is rolled back.              *)
EndSession(m) ==
  /\ pc[m] \in {"exit", "killed", "committing"}
  /\ Go(m, "gone")
  /\ lock' = IF lock = m THEN None ELSE lock
  /\ UNCHANGED <<todo, entry, result, schema, boot>>

----------------------------------------------------------------------------
(* Runtimes.                                                                *)

(* schemaMigrationsTableExists.                                             *)
TableExists(r) ==
  /\ boot[r] = "start"
  /\ \E out \in {"ok", "err"} :
       boot' = [boot EXCEPT ![r] = CASE out = "err" -> "error"
                                     [] out = "ok" /\ table -> "list"
                                     [] out = "ok" /\ ~table -> "uninitialized"]
  /\ UNCHANGED <<lock, pc, todo, entry, result, schema>>

(* Fault: only unknown versions are looked for.                             *)
VerdictAheadOnly(r) == IF recorded \subseteq Embedded[r] THEN "serving" ELSE "ahead"

(* Fault: "behind" unless the database has every version there is.          *)
VerdictAgainstAll(r) == IF recorded = Version THEN "serving" ELSE "behind"

(* EnsureCompatible: an unknown version first, then the missing ones.        *)
Verdict(r) ==
  CASE ~(recorded \subseteq Embedded[r]) -> "ahead"
    [] recorded \subseteq Embedded[r] /\ ~(Embedded[r] \subseteq recorded) -> "behind"
    [] recorded = Embedded[r] -> "serving"

(* SELECT version FROM schema_migrations, and the verdict on it.             *)
ListVersions(r) ==
  /\ boot[r] = "list"
  /\ \E out \in {"ok", "err"} :
       boot' = [boot EXCEPT ![r] = IF out = "ok" THEN Verdict(r) ELSE "error"]
  /\ UNCHANGED <<lock, pc, todo, entry, result, schema>>

----------------------------------------------------------------------------
(* What a migrator does once pg_advisory_lock has answered.                 *)
LockedStep(m) ==
  \/ EnsureTable(m) \/ NextEntry(m) \/ MigrationApplied(m) \/ ApplyVersion(m)
  \/ AdvisoryUnlock(m)

(* Everything has ended; only a new deployment would go on.                 *)
AllEnded ==
  /\ \A m \in Migrators : pc[m] = "gone"
  /\ \A r \in Runtimes : boot[r] \notin {"start", "list"}
  /\ UNCHANGED vars

Next ==
  \/ \E m \in Migrators : \/ AdvisoryLock(m) \/ LockedStep(m)
                          \/ Kill(m) \/ LateCommit(m) \/ EndSession(m)
  \/ \E r \in Runtimes : TableExists(r) \/ ListVersions(r)
  \/ AllEnded

(* A migrator that has the lock goes on by itself, PostgreSQL grants a free  *)
(* lock and notices dead clients.  Waiting for the lock need not end in an   *)
(* error: the context has no deadline.                                       *)
Granted(m) == AdvisoryLock(m) /\ result'[m] = None

Fairness ==
  \A m \in Migrators :
    WF_vars(Granted(m)) /\ WF_vars(LockedStep(m)) /\ WF_vars(EndSession(m))

Spec == Init /\ [][Next]_vars /\ Fairness

----------------------------------------------------------------------------
(* The check a migrator made is still true when it acts on it, even when its *)
(* COMMIT arrives after its death: nobody else applies the version between   *)
(* migrationApplied and the transaction, so concurrent migrators never fail  *)
(* on each other's schema_migrations rows.                                   *)
CheckStaysTrue ==
  \A m \in Migrators : pc[m] \in {"apply", "committing"} => entry[m] \notin recorded

(* A version's statements are committed exactly once if its row is there and *)
(* not at all if it is not, through kills, lost answers and retries.         *)
AppliedOnce ==
  \A v \in Version : effects[v] = IF v \in recorded THEN 1 ELSE 0

(* Versions go in in file order: each recorded version was applied by a      *)
(* binary all of whose earlier files are recorded too, also when Apply was   *)
(* cut off half way or binaries of different releases took turns.            *)
AppliedInOrder ==
  \A v \in recorded : \E m \in Migrators :
    v \in Embedded[m] /\ \A w \in Embedded[m] : w < v => w \in recorded

(* cmd/migrate exits 0 only when every version of its binary is recorded.     *)
SuccessIsComplete ==
  \A m \in Migrators : result[m] = "applied" => Embedded[m] \subseteq recorded

(* A serving runtime has every version of its binary under it, for as long   *)
(* as it serves and whoever migrates meanwhile: EnsureCompatible need not be *)
(* repeated to find a schema that is behind.                                 *)
ServingSchemaComplete ==
  \A r \in Runtimes : boot[r] = "serving" => Embedded[r] \subseteq recorded

(* "run cmd/migrate" is good advice: a boot that begins to be checked once a *)
(* migrator with all of its versions has succeeded is not refused as         *)
(* uninitialized or behind.                                                  *)
RefusalHasReason ==
  [][\A r \in Runtimes :
       (boot'[r] # boot[r] /\ boot'[r] \in {"uninitialized", "behind"}) =>
         \A m \in Migrators : Embedded[r] \subseteq Embedded[m] => result[m] # "applied"]_vars

(* Every migrator ends and gives the lock back, whoever dies holding it: no  *)
(* execution of cmd/migrate waits on pg_advisory_lock for ever.              *)
MigratorsEnd == \A m \in Migrators : <>(pc[m] = "gone" /\ lock # m)
----------------------------------------------------------------------------
(* The inductive invariant of the proofs.                                    *)

Holding == {"prepare", "next", "check", "apply", "unlock", "committing"}

(* A migrator past pg_advisory_lock holds it, a dead one with a COMMIT under *)
(* way included.                                                             *)
HolderAlone == \A m \in Migrators : pc[m] \in Holding => lock = m

(* What the loop of Apply has left behind is recorded, the entry at hand is  *)
(* the smallest of the rest, and the table exists since EnsureTable.         *)
LoopInvariant ==
  \A m \in Migrators :
    /\ todo[m] \subseteq Embedded[m]
    /\ pc[m] = "next" => Embedded[m] \ todo[m] \subseteq recorded
    /\ pc[m] \in {"check", "apply", "committing"} =>
         /\ entry[m] \in Embedded[m]
         /\ Embedded[m] \ todo[m] \subseteq recorded \union {entry[m]}
         /\ \A w \in todo[m] : entry[m] < w
    /\ (pc[m] \in {"next", "check", "apply", "committing"} \/ result[m] = "applied") => table
    /\ pc[m] \in {"lock", "prepare"} => todo[m] = Embedded[m]

(* Everything together is kept by every step.                               *)
Inductive ==
  /\ TypeOK
  /\ HolderAlone
  /\ LoopInvariant
  /\ CheckStaysTrue
  /\ AppliedOnce
  /\ AppliedInOrder
  /\ SuccessIsComplete
  /\ ServingSchemaComplete
============================================================================
