-------------------------- MODULE ServiceRegistry --------------------------
(***************************************************************************)
(* Registering and patching services: RegisterService and CreateService,    *)
(* UpdateService in the app and in the store.  A patch is validated, the    *)
(* whole service is read, patched in memory, and written back whole in      *)
(* another transaction; nothing ties the write to what was read.            *)
(*                                                                          *)
(* One action is one database call with the code around it.  "ok": it       *)
(* commits and is answered; "lost": it commits, the answer never arrives;   *)
(* "err": it does not commit.                                               *)
(***************************************************************************)
EXTENDS Readiness

CONSTANTS Registrations,  \* POST /v1/services requests; each draws a service id
          Updates,        \* PATCH /v1/services/{id} requests
          Names,          \* service names
          Inputs,         \* profiles a registration may carry
          Patches,        \* patches an update may carry
          MaxInteger,     \* the largest value of an INTEGER column
          None

ASSUME InputsAssumption == Inputs \subseteq Service

ASSUME PatchesAssumption == \A p \in Patches : IsPatch(p)

ASSUME MaxIntegerAssumption == MaxInteger \in Nat

ASSUME NoneAssumption == None \notin Registrations \union Names \union Service \union Patches

VARIABLES services,   \* the tables services and slo_policies: id -> profile or None
          names,      \* services.name: id -> name or None
          version,    \* history: writes to each row so far
          regs,       \* [Registrations -> Registration]
          updates,    \* [Updates -> Update]
          audit       \* service.registered and service.updated events

vars == <<services, names, version, regs, updates, audit>>

Ids == Registrations

Registration == [pc : {"new", "insert", "reload", "audit", "created", "invalid", "conflict",
                       "error"},
                 name : Names \union {None}, input : Service \union {None}]

Update == [pc : {"new", "read", "write", "reload", "audit", "ok", "invalid", "not_found",
                 "error"},
           id : Ids \union {None}, patch : Patches \union {None},
           merged : Service \union {None},
           readAt : Nat, wroteAt : Nat]   \* history: version read, version written

Event == [type : {"service.registered", "service.updated"}, id : Ids,
          request : Registrations \union Updates]

TypeOK ==
  /\ services \in [Ids -> Service \union {None}]
  /\ names \in [Ids -> Names \union {None}]
  /\ version \in [Ids -> Nat]
  /\ regs \in [Registrations -> Registration]
  /\ updates \in [Updates -> Update]
  /\ audit \in SUBSET Event

Outcomes == {"ok", "lost", "err"}
Commits(out) == out \in {"ok", "lost"}
Stored(i) == services[i] # None

\* latency_target_milliseconds is a 64-bit int in Go and an INTEGER column; no
\* validation bounds it, the statement fails.  A valid tier always fits.
FitsColumns(s) == s.slo.latency <= MaxInteger

NewUpdate == [pc |-> "new", id |-> None, patch |-> None, merged |-> None,
              readAt |-> 0, wroteAt |-> 0]

Init ==
  /\ services = [i \in Ids |-> None]
  /\ names = [i \in Ids |-> None]
  /\ version = [i \in Ids |-> 0]
  /\ regs = [r \in Registrations |-> [pc |-> "new", name |-> None, input |-> None]]
  /\ updates = [u \in Updates |-> NewUpdate]
  /\ audit = {}

----------------------------------------------------------------------------
(* POST /v1/services                                                       *)

ValidateInput(r) ==
  /\ regs[r].pc = "new"
  /\ \E n \in Names, blankName \in BOOLEAN, in \in Inputs :
       regs' = [regs EXCEPT ![r] =
                  [pc |-> IF ~blankName /\ ValidService(in) THEN "insert" ELSE "invalid",
                   name |-> n, input |-> in]]
  /\ UNCHANGED <<services, names, version, updates, audit>>

\* Faulty: only names of registrations that were answered are taken.
NameAnswered(r) == \E i \in Ids : regs[i].pc = "created" /\ names[i] = regs[r].name

\* services.name is UNIQUE.
NameTaken(r) == \E i \in Ids : names[i] = regs[r].name

(* CreateService: service and SLO policy in one transaction; a taken name   *)
(* is error 23505, which writeError answers with 409; a policy that does    *)
(* not fit its columns fails after it.                                      *)
CreateService(r) ==
  /\ regs[r].pc = "insert"
  /\ \E out \in Outcomes :
       /\ IF Commits(out) /\ ~NameTaken(r) /\ FitsColumns(regs[r].input)
          THEN /\ services' = [services EXCEPT ![r] = regs[r].input]
               /\ names' = [names EXCEPT ![r] = regs[r].name]
          ELSE UNCHANGED <<services, names>>
       /\ regs' = [regs EXCEPT ![r].pc =
            IF out # "ok" THEN "error"
            ELSE IF NameTaken(r) THEN "conflict"
            ELSE IF FitsColumns(regs[r].input) THEN "reload" ELSE "error"]
  /\ UNCHANGED <<version, updates, audit>>

ReloadCreated(r) ==
  /\ regs[r].pc = "reload"
  /\ \E out \in {"ok", "err"} :
       regs' = [regs EXCEPT ![r].pc = IF out = "ok" THEN "audit" ELSE "error"]
  /\ UNCHANGED <<services, names, version, updates, audit>>

RegisteredEvent(r) == [type |-> "service.registered", id |-> r, request |-> r]

AuditRegistered(r) ==
  /\ regs[r].pc = "audit"
  /\ \E out \in Outcomes :
       /\ audit' = IF Commits(out) THEN audit \union {RegisteredEvent(r)} ELSE audit
       /\ regs' = [regs EXCEPT ![r].pc = IF out = "ok" THEN "created" ELSE "error"]
  /\ UNCHANGED <<services, names, version, updates>>

----------------------------------------------------------------------------
(* PATCH /v1/services/{serviceID}                                          *)

ValidateUpdate(u) ==
  /\ updates[u].pc = "new"
  /\ \E i \in Ids, p \in Patches :
       updates' = [updates EXCEPT ![u] =
                     [NewUpdate EXCEPT !.pc = IF ValidPatch(p) THEN "read" ELSE "invalid",
                                       !.id = i, !.patch = p]]
  /\ UNCHANGED <<services, names, version, regs, audit>>

(* GetService and applyServicePatch.                                       *)
ReadAndPatch(u) ==
  LET i == updates[u].id
  IN  /\ updates[u].pc = "read"
      /\ \/ /\ Stored(i)
            /\ updates' = [updates EXCEPT ![u].pc = "write", ![u].readAt = version[i],
                                          ![u].merged = Patched(services[i], updates[u].patch)]
         \/ ~Stored(i) /\ updates' = [updates EXCEPT ![u].pc = "not_found"]
         \/ updates' = [updates EXCEPT ![u].pc = "error"]
      /\ UNCHANGED <<services, names, version, regs, audit>>

(* The transaction writes every column of the service and of its policy.   *)
WriteService(u) ==
  LET i == updates[u].id
  IN  /\ updates[u].pc = "write"
      /\ \E out \in IF FitsColumns(updates[u].merged) THEN Outcomes ELSE {"err"} :
           /\ IF Commits(out)
              THEN /\ services' = [services EXCEPT ![i] = updates[u].merged]
                   /\ version' = [version EXCEPT ![i] = @ + 1]
              ELSE UNCHANGED <<services, version>>
           /\ updates' = [updates EXCEPT
                ![u].pc = IF out = "ok" THEN "reload" ELSE "error",
                ![u].wroteAt = IF Commits(out) THEN version[i] + 1 ELSE 0]
      /\ UNCHANGED <<names, regs, audit>>

ReloadUpdated(u) ==
  /\ updates[u].pc = "reload"
  /\ \E out \in {"ok", "err"} :
       updates' = [updates EXCEPT ![u].pc = IF out = "ok" THEN "audit" ELSE "error"]
  /\ UNCHANGED <<services, names, version, regs, audit>>

UpdatedEvent(u) == [type |-> "service.updated", id |-> updates[u].id, request |-> u]

AuditUpdated(u) ==
  /\ updates[u].pc = "audit"
  /\ \E out \in Outcomes :
       /\ audit' = IF Commits(out) THEN audit \union {UpdatedEvent(u)} ELSE audit
       /\ updates' = [updates EXCEPT ![u].pc = IF out = "ok" THEN "ok" ELSE "error"]
  /\ UNCHANGED <<services, names, version, regs>>

----------------------------------------------------------------------------
Register(r) == ValidateInput(r) \/ CreateService(r) \/ ReloadCreated(r) \/ AuditRegistered(r)

UpdateService(u) ==
  \/ ValidateUpdate(u)
  \/ ReadAndPatch(u)
  \/ WriteService(u)
  \/ ReloadUpdated(u)
  \/ AuditUpdated(u)

Next ==
  \/ \E r \in Registrations : Register(r)
  \/ \E u \in Updates : UpdateService(u)

Spec == Init /\ [][Next]_vars

----------------------------------------------------------------------------
(* Properties.                                                             *)

(* Every stored profile would pass registration again, whatever patches     *)
(* were merged into it, in whatever order their reads and writes fell.      *)
StoredServicesValid == \A i \in Ids : Stored(i) => ValidService(services[i])

(* A name has one service, however registrations race and whichever answers *)
(* are lost, and a 409 was caused by a service that is stored.              *)
NameHasOneService ==
  /\ \A i, j \in Ids : Stored(i) /\ Stored(j) /\ names[i] = names[j] => i = j
  /\ \A r \in Registrations : regs[r].pc = "conflict" =>
       \E i \in Ids \ {r} : Stored(i) /\ names[i] = regs[r].name

(* For stored profiles only CI, tracing and metrics decide the readiness:   *)
(* validation and the checks agree on all the rest, so a stored service     *)
(* can always be made ready by its flags alone.                             *)
FlagsDecideReadiness ==
  \A i \in Ids : Stored(i) =>
    LET s == services[i]
    IN  /\ State(s) = "blocked" <=> ~s.ci
        /\ State(s) = "ready" <=> s.ci /\ s.tracing /\ s.metrics

(* What StoredServicesValid rests on: what a handler is about to write is   *)
(* valid.                                                                   *)
PendingWritesValid ==
  /\ \A r \in Registrations : regs[r].pc = "insert" =>
       regs[r].input \in Service /\ ValidService(regs[r].input)
  /\ \A u \in Updates :
       /\ updates[u].pc # "new" => updates[u].id \in Ids /\ updates[u].patch \in Patches
       /\ updates[u].pc = "read" => ValidPatch(updates[u].patch)
       /\ updates[u].pc = "write" =>
            updates[u].merged \in Service /\ ValidService(updates[u].merged)

\* The write of q fell after the write of u and rests on a read before it.
OverwroteBlindly(q, u) ==
  /\ updates[q].id = updates[u].id
  /\ updates[q].wroteAt > updates[u].wroteAt
  /\ updates[q].readAt < updates[u].wroteAt

(* A committed patch stays in effect, field by field, until another patch   *)
(* of the field commits after it, or an update that had read the service    *)
(* before it writes its old copy back.  Nothing else loses a patch.         *)
OnlyOverlapLosesPatches ==
  \A u \in Updates : updates[u].wroteAt > 0 =>
    \A f \in DOMAIN updates[u].patch :
      \/ services[updates[u].id][f] = updates[u].patch[f]
      \/ \E q \in Updates : OverwroteBlindly(q, u)
      \/ \E q \in Updates : /\ updates[q].id = updates[u].id
                            /\ updates[q].wroteAt > updates[u].wroteAt
                            /\ f \in DOMAIN updates[q].patch

(* openapi.yaml:65 answers 409 to a PATCH that conflicts with the current   *)
(* state: an update answered 200 has not been undone by one that patched    *)
(* other fields only.                                                       *)
NoLostPatches ==
  \A u \in Updates : updates[u].pc = "ok" =>
    \A f \in DOMAIN updates[u].patch :
      \/ services[updates[u].id][f] = updates[u].patch[f]
      \/ \E q \in Updates \ {u} : /\ updates[q].id = updates[u].id
                                  /\ f \in DOMAIN updates[q].patch
============================================================================
