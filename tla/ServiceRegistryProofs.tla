----------------------- MODULE ServiceRegistryProofs -----------------------
(***************************************************************************)
(* Theorems about ServiceRegistry, for any number of requests and any       *)
(* inputs and patches: patches that are validated one by one keep the       *)
(* stored profiles valid, although reads and writes of different updates    *)
(* interleave, and so the flags alone decide readiness.                     *)
(***************************************************************************)
EXTENDS ServiceRegistry, TLAPS

----------------------------------------------------------------------------
(* What the checks say, for every profile, not only for those TLC tries.    *)

(* There are five checks of either level.                                  *)
LEMMA CountsBounded ==
  \A s \in Service : Failures(s) \in 0..5 /\ Warnings(s) \in 0..5
  BY DEF Failures, Warnings, Missing

(* The score fits the CHECK of readiness_snapshots.score, and only a        *)
(* profile that passes everything has 100.                                  *)
THEOREM ScoreRange ==
  \A s \in Service : Score(s) \in 0..100 /\ (Score(s) = 100 <=> State(s) = "ready")
  <1> SUFFICES ASSUME NEW s \in Service
               PROVE  Score(s) \in 0..100 /\ (Score(s) = 100 <=> State(s) = "ready")
    OBVIOUS
  <1>1. Failures(s) \in 0..5 /\ Warnings(s) \in 0..5
    BY CountsBounded
  <1> QED
    BY <1>1 DEF Score, State

(* A profile that passed validation is blocked exactly when it has no CI;   *)
(* it is degraded exactly when CI is there and tracing or metrics are not.  *)
(* Every other check has passed at registration already.                    *)
THEOREM ValidReadiness ==
  \A s \in Service : ValidService(s) =>
    State(s) = IF ~s.ci THEN "blocked"
               ELSE IF s.tracing /\ s.metrics THEN "ready" ELSE "degraded"
  BY DEF Service, SLOPolicy, ValidService, ValidLink, NotBlank, ValidSLO, State, Failures,
         Warnings, Missing

(* A valid patch keeps a valid profile valid, though only the patch is      *)
(* validated and never the profile it results in.                           *)
THEOREM PatchedValid ==
  ASSUME NEW s \in Service, ValidService(s), NEW p, ValidPatch(p)
  PROVE  ValidService(Patched(s, p))
  BY DEF ValidService, ValidPatch, Patched, Fields, LinkFields, TextFields, FlagFields

----------------------------------------------------------------------------
(* The registry.                                                            *)

USE DEF Ids

(* A patch of a profile is a profile.                                      *)
LEMMA PatchedType ==
  ASSUME NEW s \in Service, NEW p, IsPatch(p)
  PROVE  Patched(s, p) \in Service
  <1>1. \A f \in Fields : f \in DOMAIN p => p[f] \in FieldValues(f)
    BY DEF IsPatch
  <1>2. /\ Patched(s, p) = [f \in Fields |-> Patched(s, p)[f]]
        /\ \A f \in Fields : Patched(s, p)[f] \in FieldValues(f)
    BY <1>1 DEF Patched, Service, Fields, LinkFields, TextFields, FlagFields, FieldValues
  <1> QED
    BY <1>2 DEF Service, Fields, LinkFields, TextFields, FlagFields, FieldValues

(* The inductive invariant.                                                *)
ValidWrites == TypeOK /\ StoredServicesValid /\ PendingWritesValid

(* It holds of empty tables.                                               *)
LEMMA InitValid == Init => ValidWrites
  BY NoneAssumption
  DEF Init, ValidWrites, TypeOK, StoredServicesValid, PendingWritesValid, Stored, NewUpdate,
      Registration, Update

(* What a write does, whichever way it ends.                               *)
LEMMA WriteEffect ==
  ASSUME ValidWrites, NEW u \in Updates, WriteService(u)
  PROVE  \E p \in {"reload", "error"}, n \in Nat :
           /\ updates' = [updates EXCEPT ![u].pc = p, ![u].wroteAt = n]
           /\ \/ /\ n = 0 /\ UNCHANGED <<services, version>>
              \/ /\ n = version[updates[u].id] + 1
                 /\ services' = [services EXCEPT ![updates[u].id] = updates[u].merged]
                 /\ version' = [version EXCEPT ![updates[u].id] = n]
  <1> DEFINE i == updates[u].id
  <1>1. i \in Ids /\ version[i] \in Nat
    BY DEF WriteService, ValidWrites, PendingWritesValid, TypeOK
  <1>2. PICK out \in Outcomes :
          /\ updates' = [updates EXCEPT ![u].pc = IF out = "ok" THEN "reload" ELSE "error",
                                        ![u].wroteAt = IF Commits(out) THEN version[i] + 1 ELSE 0]
          /\ IF Commits(out)
             THEN /\ services' = [services EXCEPT ![i] = updates[u].merged]
                  /\ version' = [version EXCEPT ![i] = @ + 1]
             ELSE UNCHANGED <<services, version>>
    BY DEF WriteService, Outcomes
  <1> DEFINE p == IF out = "ok" THEN "reload" ELSE "error"
             n == IF Commits(out) THEN version[i] + 1 ELSE 0
  <1>3. /\ p \in {"reload", "error"} /\ n \in Nat
        /\ \/ n = 0 /\ UNCHANGED <<services, version>>
           \/ /\ n = version[i] + 1
              /\ services' = [services EXCEPT ![i] = updates[u].merged]
              /\ version' = [version EXCEPT ![i] = n]
    BY <1>1, <1>2
  <1>4. updates' = [updates EXCEPT ![u].pc = p, ![u].wroteAt = n]
    BY <1>2
  <1> HIDE DEF p, n
  <1> QED BY <1>3, <1>4

(* Every step keeps it.                                                    *)
LEMMA NextValid == ValidWrites /\ [Next]_vars => ValidWrites'
  <1> SUFFICES ASSUME ValidWrites, [Next]_vars PROVE ValidWrites'
    OBVIOUS
  <1> USE DEF ValidWrites
  <1>1. ASSUME NEW r \in Registrations, ValidateInput(r) PROVE ValidWrites'
    BY <1>1, InputsAssumption
    DEF ValidateInput, TypeOK, StoredServicesValid, PendingWritesValid, Stored, Registration
  <1>2. ASSUME NEW r \in Registrations, CreateService(r) PROVE ValidWrites'
    <2>1. regs[r].pc = "insert" /\ regs[r].input \in Service /\ ValidService(regs[r].input)
          /\ regs[r] \in Registration
      BY <1>2 DEF CreateService, PendingWritesValid, TypeOK
    <2>2. PICK p \in {"error", "conflict", "reload"} : regs' = [regs EXCEPT ![r].pc = p]
      BY <1>2 DEF CreateService
    <2>3. /\ services' = services \/ services' = [services EXCEPT ![r] = regs[r].input]
          /\ names' = names \/ names' = [names EXCEPT ![r] = regs[r].name]
      BY <1>2 DEF CreateService
    <2>4. regs' \in [Registrations -> Registration]
      BY <2>1, <2>2 DEF TypeOK, Registration
    <2>5. TypeOK'
      BY <1>2, <2>1, <2>3, <2>4 DEF CreateService, TypeOK, Registration
    <2>6. StoredServicesValid'
      BY <2>1, <2>3 DEF StoredServicesValid, Stored, TypeOK
    <2>7. PendingWritesValid'
      BY <1>2, <2>2 DEF PendingWritesValid, CreateService, TypeOK
    <2> QED
      BY <2>5, <2>6, <2>7
  <1>3. ASSUME NEW r \in Registrations, ReloadCreated(r) \/ AuditRegistered(r)
        PROVE  ValidWrites'
    <2>1. PICK p \in {"audit", "created", "error"} : regs' = [regs EXCEPT ![r].pc = p]
      BY <1>3 DEF ReloadCreated, AuditRegistered
    <2>2. regs' \in [Registrations -> Registration]
      BY <2>1 DEF TypeOK, Registration
    <2>3. audit' \in SUBSET Event
      BY <1>3 DEF ReloadCreated, AuditRegistered, TypeOK, RegisteredEvent, Event
    <2>4. UNCHANGED <<services, names, version, updates>>
      BY <1>3 DEF ReloadCreated, AuditRegistered
    <2> QED
      BY <2>1, <2>2, <2>3, <2>4 DEF TypeOK, StoredServicesValid, PendingWritesValid, Stored
  <1>4. ASSUME NEW u \in Updates, ValidateUpdate(u) PROVE ValidWrites'
    <2>1. PICK i \in Ids, p \in Patches :
            updates' = [updates EXCEPT ![u] =
                          [NewUpdate EXCEPT !.pc = IF ValidPatch(p) THEN "read" ELSE "invalid",
                                            !.id = i, !.patch = p]]
      BY <1>4 DEF ValidateUpdate
    <2>2. /\ updates'[u] \in Update
          /\ updates'[u].pc \in {"read", "invalid"}
          /\ updates'[u].pc = "read" => ValidPatch(p)
          /\ updates'[u].id = i /\ updates'[u].patch = p
      BY <2>1 DEF TypeOK, NewUpdate, Update
    <2>3. \A v \in Updates \ {u} : updates'[v] = updates[v]
      BY <2>1 DEF TypeOK
    <2>4. updates' \in [Updates -> Update]
      BY <2>1, <2>2 DEF TypeOK
    <2>5. UNCHANGED <<services, names, version, regs, audit>>
      BY <1>4 DEF ValidateUpdate
    <2>6. PendingWritesValid'
      BY <2>2, <2>3, <2>5 DEF PendingWritesValid
    <2> QED
      BY <2>4, <2>5, <2>6 DEF TypeOK, StoredServicesValid, Stored
  <1>5. ASSUME NEW u \in Updates, ReadAndPatch(u) PROVE ValidWrites'
    <2> DEFINE i == updates[u].id
               m == Patched(services[i], updates[u].patch)
    <2>1. /\ i \in Ids /\ updates[u].patch \in Patches /\ ValidPatch(updates[u].patch)
          /\ updates[u] \in Update /\ version[i] \in Nat
      BY <1>5 DEF ReadAndPatch, PendingWritesValid, TypeOK
    <2>2. UNCHANGED <<services, names, version, regs, audit>>
      BY <1>5 DEF ReadAndPatch
    <2>3. CASE Stored(i) /\ updates' = [updates EXCEPT ![u].pc = "write",
                                          ![u].readAt = version[i], ![u].merged = m]
      <3>1. services[i] \in Service /\ ValidService(services[i])
        BY <2>1, <2>3 DEF TypeOK, StoredServicesValid, Stored
      <3>2. m \in Service
        BY <2>1, <3>1, PatchedType, PatchesAssumption
      <3>3. ValidService(m)
        BY <2>1, <3>1, PatchedValid
      <3>4. updates' \in [Updates -> Update]
        BY <2>1, <2>3, <3>2 DEF TypeOK, Update
      <3>5. PendingWritesValid'
        BY <2>1, <2>2, <2>3, <3>2, <3>3 DEF PendingWritesValid, TypeOK, Update
      <3> QED
        BY <2>2, <3>4, <3>5 DEF TypeOK, StoredServicesValid, Stored
    <2>4. CASE \E p \in {"not_found", "error"} : updates' = [updates EXCEPT ![u].pc = p]
      <3>1. PICK p \in {"not_found", "error"} : updates' = [updates EXCEPT ![u].pc = p]
        BY <2>4
      <3>2. updates' \in [Updates -> Update]
        BY <2>1, <3>1 DEF TypeOK, Update
      <3>3. PendingWritesValid'
        BY <2>1, <2>2, <3>1 DEF PendingWritesValid, TypeOK, Update
      <3> QED
        BY <2>2, <3>2, <3>3 DEF TypeOK, StoredServicesValid, Stored
    <2> QED
      BY <1>5, <2>3, <2>4 DEF ReadAndPatch
  <1>6. ASSUME NEW u \in Updates, WriteService(u) PROVE ValidWrites'
    <2> DEFINE i == updates[u].id
    <2>1. /\ i \in Ids /\ updates[u].merged \in Service /\ ValidService(updates[u].merged)
          /\ updates[u] \in Update /\ version[i] \in Nat
      BY <1>6 DEF WriteService, PendingWritesValid, TypeOK
    <2>2. PICK p \in {"reload", "error"}, n \in Nat :
            updates' = [updates EXCEPT ![u].pc = p, ![u].wroteAt = n]
      BY <1>6, WriteEffect
    <2>3. /\ services' = services \/ services' = [services EXCEPT ![i] = updates[u].merged]
          /\ version' = version \/ version' = [version EXCEPT ![i] = @ + 1]
          /\ UNCHANGED <<names, regs, audit>>
      BY <1>6 DEF WriteService
    <2>4. updates' \in [Updates -> Update]
      BY <2>1, <2>2 DEF TypeOK, Update
    <2>5. services' \in [Ids -> Service \union {None}] /\ version' \in [Ids -> Nat]
      BY <2>1, <2>3 DEF TypeOK
    <2>6. StoredServicesValid'
      BY <2>1, <2>3 DEF StoredServicesValid, Stored, TypeOK
    <2>7. PendingWritesValid'
      <3>1. /\ updates'[u].pc = p /\ updates'[u].id = updates[u].id
            /\ updates'[u].patch = updates[u].patch
            /\ \A v \in Updates \ {u} : updates'[v] = updates[v]
        BY <2>1, <2>2 DEF TypeOK, Update
      <3>2. updates[u].pc # "new"
        BY <1>6 DEF WriteService
      <3> QED
        BY <2>3, <3>1, <3>2 DEF PendingWritesValid
    <2> QED
      BY <2>3, <2>4, <2>5, <2>6, <2>7 DEF TypeOK
  <1>7. ASSUME NEW u \in Updates, ReloadUpdated(u) \/ AuditUpdated(u) PROVE ValidWrites'
    <2>1. updates[u].id \in Ids /\ updates[u] \in Update /\ updates[u].pc # "new"
      BY <1>7 DEF ReloadUpdated, AuditUpdated, PendingWritesValid, TypeOK
    <2>2. PICK p \in {"audit", "ok", "error"} : updates' = [updates EXCEPT ![u].pc = p]
      BY <1>7 DEF ReloadUpdated, AuditUpdated
    <2>3. audit' \in SUBSET Event
      BY <1>7, <2>1 DEF ReloadUpdated, AuditUpdated, TypeOK, UpdatedEvent, Event
    <2>4. updates' \in [Updates -> Update]
      BY <2>1, <2>2 DEF TypeOK, Update
    <2>5. UNCHANGED <<services, names, version, regs>>
      BY <1>7 DEF ReloadUpdated, AuditUpdated
    <2>6. PendingWritesValid'
      BY <2>1, <2>2, <2>5 DEF PendingWritesValid, TypeOK, Update
    <2> QED
      BY <2>3, <2>4, <2>5, <2>6 DEF TypeOK, StoredServicesValid, Stored
  <1>8. CASE UNCHANGED vars
    BY <1>8 DEF vars, TypeOK, StoredServicesValid, PendingWritesValid, Stored
  <1> QED
    BY <1>1, <1>2, <1>3, <1>4, <1>5, <1>6, <1>7, <1>8 DEF Next, Register, UpdateService

(* Whatever interleaves, every stored profile satisfies Validate.          *)
THEOREM StoredValid == Spec => []StoredServicesValid
  <1>1. ValidWrites => StoredServicesValid
    BY DEF ValidWrites
  <1> QED
    BY <1>1, InitValid, NextValid, PTL DEF Spec

(* So only CI, tracing and metrics can keep a stored service from ready.   *)
THEOREM StoredReadiness == Spec => []FlagsDecideReadiness
  <1>1. ValidWrites => FlagsDecideReadiness
    <2> SUFFICES ASSUME ValidWrites, NEW i \in Ids, Stored(i)
                 PROVE  /\ State(services[i]) = "blocked" <=> ~services[i].ci
                        /\ State(services[i]) = "ready" <=>
                             services[i].ci /\ services[i].tracing /\ services[i].metrics
      BY DEF FlagsDecideReadiness
    <2>1. services[i] \in Service /\ ValidService(services[i])
      BY DEF ValidWrites, TypeOK, StoredServicesValid, Stored
    <2> QED
      BY <2>1, ValidReadiness
  <1> QED
    BY <1>1, InitValid, NextValid, PTL DEF Spec

(***************************************************************************)
(* Names.                                                                   *)
(***************************************************************************)

(* A row has a name from its INSERT on, and a registration has no row        *)
(* before it has called CreateService.                                       *)
RowsNamed ==
  \A r \in Registrations :
    /\ Stored(r) <=> names[r] # None
    /\ regs[r].pc \in {"new", "insert"} => ~Stored(r)
    /\ regs[r].pc = "insert" => regs[r].name \in Names

(* A row that an update has read is there, and stays.                        *)
RowsThere == \A u \in Updates : updates[u].pc = "write" => Stored(updates[u].id)

(* No step removes a row.                                                   *)
LEMMA RowsStay ==
  ASSUME ValidWrites, [Next]_vars, NEW i \in Ids, Stored(i)
  PROVE  Stored(i)'
  <1>1. ASSUME NEW r \in Registrations, CreateService(r) PROVE Stored(i)'
    <2>1. regs[r].input # None
      BY <1>1, NoneAssumption DEF CreateService, ValidWrites, PendingWritesValid
    <2> QED BY <1>1, <2>1 DEF CreateService, Stored, ValidWrites, TypeOK
  <1>2. ASSUME NEW u \in Updates, WriteService(u) PROVE Stored(i)'
    <2>1. updates[u].merged # None
      BY <1>2, NoneAssumption DEF WriteService, ValidWrites, PendingWritesValid
    <2> QED BY <1>2, <2>1 DEF WriteService, Stored, ValidWrites, TypeOK
  <1> QED
    BY <1>1, <1>2 DEF Next, Register, UpdateService, vars, ValidateInput, ReloadCreated,
       AuditRegistered, ValidateUpdate, ReadAndPatch, ReloadUpdated, AuditUpdated, Stored

(* How a step may change an update that has come: its id and patch stay, and *)
(* only ReadAndPatch, of a row that is there, makes it ready to write.       *)
LEMMA UpdateEffect ==
  ASSUME ValidWrites, [Next]_vars, NEW u \in Updates
  PROVE  /\ updates[u].pc # "new" =>
              updates'[u].id = updates[u].id /\ updates'[u].patch = updates[u].patch
         /\ updates'[u].pc = "new" => updates[u].pc = "new"
         /\ updates'[u].pc = "write" =>
              \/ updates[u].pc = "write" /\ updates'[u] = updates[u]
              \/ ReadAndPatch(u) /\ Stored(updates[u].id)
  <1>t. updates \in [Updates -> Update]
    BY DEF ValidWrites, TypeOK
  <1>1. CASE updates' = updates
    BY <1>1
  <1>2. ASSUME NEW v \in Updates, ValidateUpdate(v)
        PROVE  /\ updates[v].pc = "new" /\ updates'[v].pc \in {"read", "invalid"}
               /\ \A w \in Updates \ {v} : updates'[w] = updates[w]
    BY <1>2, <1>t DEF ValidateUpdate, NewUpdate
  <1>3. ASSUME NEW v \in Updates, ReadAndPatch(v)
        PROVE  /\ updates[v].pc = "read" /\ updates'[v].pc \in {"write", "not_found", "error"}
               /\ updates'[v].id = updates[v].id /\ updates'[v].patch = updates[v].patch
               /\ updates'[v].pc = "write" => Stored(updates[v].id)
               /\ \A w \in Updates \ {v} : updates'[w] = updates[w]
    BY <1>3, <1>t DEF ReadAndPatch, Update
  <1>4. ASSUME NEW v \in Updates, WriteService(v) \/ ReloadUpdated(v) \/ AuditUpdated(v)
        PROVE  /\ updates'[v].pc \in {"reload", "audit", "ok", "error"}
               /\ updates'[v].id = updates[v].id /\ updates'[v].patch = updates[v].patch
               /\ \A w \in Updates \ {v} : updates'[w] = updates[w]
    <2>1. CASE WriteService(v)
      <3>1. PICK p \in {"reload", "error"} : \E n \in Nat :
              updates' = [updates EXCEPT ![v].pc = p, ![v].wroteAt = n]
        BY <2>1, WriteEffect
      <3> QED BY <1>t, <3>1 DEF Update
    <2>2. CASE ReloadUpdated(v) \/ AuditUpdated(v)
      BY <2>2, <1>t DEF ReloadUpdated, AuditUpdated, Update
    <2> QED BY <1>4, <2>1, <2>2
  <1> QED
    BY <1>1, <1>2, <1>3, <1>4 DEF Next, Register, UpdateService, vars, ValidateInput,
       CreateService, ReloadCreated, AuditRegistered

(* RowsThere is inductive.                                                  *)
LEMMA NextThere == ValidWrites /\ RowsThere /\ [Next]_vars => RowsThere'
  <1> SUFFICES ASSUME ValidWrites, RowsThere, [Next]_vars, NEW u \in Updates,
                      updates'[u].pc = "write"
               PROVE  Stored(updates[u].id)'
    BY DEF RowsThere
  <1>0. /\ updates[u].pc # "new" => updates'[u].id = updates[u].id
        /\ \/ updates[u].pc = "write"
           \/ ReadAndPatch(u) /\ Stored(updates[u].id)
    BY UpdateEffect
  <1>1. /\ updates[u].pc # "new" /\ Stored(updates[u].id)
        /\ updates'[u].id = updates[u].id
    BY <1>0 DEF RowsThere, ReadAndPatch
  <1>2. updates[u].id \in Ids
    BY <1>1, SMTT(30) DEF ValidWrites, PendingWritesValid
  <1> QED BY <1>1, <1>2, RowsStay DEF Stored

(* The two together are inductive.                                           *)
LEMMA NextNamed ==
  ValidWrites /\ RowsThere /\ RowsNamed /\ NameHasOneService /\ [Next]_vars
    => RowsNamed' /\ NameHasOneService'
  <1> SUFFICES ASSUME ValidWrites, RowsThere, RowsNamed, NameHasOneService, [Next]_vars
               PROVE  RowsNamed' /\ NameHasOneService'
    OBVIOUS
  <1>t. TypeOK
    BY DEF ValidWrites
  <1>1. ASSUME \A r \in Registrations :
                 /\ Stored(r)' <=> Stored(r)
                 /\ names'[r] = names[r]
                 /\ regs'[r].pc \in {"new", "insert"} => regs[r].pc \in {"new", "insert"}
                 /\ regs'[r].pc = "insert" => regs'[r].name \in Names
                 /\ regs'[r].pc = "conflict" => regs[r].pc = "conflict" /\ regs'[r].name = regs[r].name
        PROVE  RowsNamed' /\ NameHasOneService'
    <2>1. RowsNamed'
      BY <1>1 DEF RowsNamed
    <2>2. NameHasOneService'
      BY <1>1 DEF NameHasOneService
    <2> QED BY <2>1, <2>2
  <1>2. CASE UNCHANGED <<names, regs>> /\ \A i \in Ids : Stored(i)' <=> Stored(i)
    BY <1>1, <1>2 DEF RowsNamed
  <1>3. ASSUME NEW r \in Registrations, ValidateInput(r) PROVE RowsNamed' /\ NameHasOneService'
    <2>1. /\ regs[r].pc = "new" /\ UNCHANGED <<services, names>>
          /\ regs'[r].pc \in {"insert", "invalid"} /\ regs'[r].name \in Names
          /\ \A q \in Registrations \ {r} : regs'[q] = regs[q]
      BY <1>3, <1>t DEF ValidateInput, TypeOK
    <2> QED BY <1>1, <2>1 DEF RowsNamed, Stored
  <1>4. ASSUME NEW r \in Registrations, ReloadCreated(r) \/ AuditRegistered(r)
        PROVE  RowsNamed' /\ NameHasOneService'
    <2>1. PICK p \in {"audit", "created", "error"} : regs' = [regs EXCEPT ![r].pc = p]
      BY <1>4 DEF ReloadCreated, AuditRegistered
    <2>2. UNCHANGED <<services, names>>
      BY <1>4 DEF ReloadCreated, AuditRegistered
    <2>3. \A q \in Registrations : regs'[q].pc # regs[q].pc => regs'[q].pc = p
      BY <2>1, <1>t DEF TypeOK, Registration
    <2>4. \A q \in Registrations : regs'[q].name = regs[q].name
      BY <2>1, <1>t DEF TypeOK, Registration
    <2> QED BY <1>1, <2>2, <2>3, <2>4 DEF RowsNamed, Stored
  <1>5. ASSUME NEW r \in Registrations, CreateService(r) PROVE RowsNamed' /\ NameHasOneService'
    <2>1. /\ regs[r] \in Registration /\ regs[r].pc = "insert" /\ regs[r].input # None
          /\ regs[r].name \in Names /\ regs[r].name # None /\ ~Stored(r) /\ names[r] = None
      BY <1>5, <1>t, NoneAssumption
      DEF CreateService, TypeOK, RowsNamed, ValidWrites, PendingWritesValid
    <2>2. PICK p \in {"error", "conflict", "reload"} :
            /\ regs' = [regs EXCEPT ![r].pc = p]
            /\ p = "conflict" => NameTaken(r) /\ UNCHANGED <<services, names>>
      BY <1>5 DEF CreateService
    <2>3. /\ regs'[r].pc = p /\ \A q \in Registrations : regs'[q].name = regs[q].name
          /\ \A q \in Registrations \ {r} : regs'[q] = regs[q]
      BY <2>1, <2>2, <1>t DEF TypeOK, Registration
    <2>4. CASE p = "conflict"
      <3>1. PICK i \in Ids : names[i] = regs[r].name
        BY <2>2, <2>4 DEF NameTaken
      <3>2. i # r /\ Stored(i) /\ UNCHANGED <<services, names>>
        BY <2>1, <2>2, <2>4, <3>1 DEF RowsNamed
      <3>3. RowsNamed'
        BY <2>3, <2>4, <3>2 DEF RowsNamed, Stored
      <3>4. NameHasOneService'
        BY <2>3, <2>4, <3>1, <3>2 DEF NameHasOneService, Stored
      <3> QED BY <3>3, <3>4
    <2>5. CASE p # "conflict" /\ UNCHANGED <<services, names>>
      BY <1>1, <2>2, <2>3, <2>5 DEF RowsNamed, Stored
    <2>6. CASE p # "conflict" /\ ~UNCHANGED <<services, names>>
      <3>1. /\ ~NameTaken(r) /\ services' = [services EXCEPT ![r] = regs[r].input]
            /\ names' = [names EXCEPT ![r] = regs[r].name]
        BY <1>5, <2>6 DEF CreateService
      <3>2. /\ Stored(r)' /\ names'[r] = regs[r].name
            /\ \A i \in Ids \ {r} : names'[i] = names[i] /\ (Stored(i)' <=> Stored(i))
        BY <2>1, <3>1, <1>t DEF TypeOK, Stored
      <3>3. RowsNamed'
        BY <2>1, <2>2, <2>3, <2>6, <3>2 DEF RowsNamed
      <3>4. \A i \in Ids : names[i] # regs[r].name
        BY <3>1 DEF NameTaken
      <3>5. NameHasOneService'
        BY <2>1, <2>2, <2>3, <2>6, <3>2, <3>4 DEF NameHasOneService
      <3> QED BY <3>3, <3>5
    <2> QED BY <2>4, <2>5, <2>6
  <1>6. ASSUME NEW u \in Updates, WriteService(u) PROVE RowsNamed' /\ NameHasOneService'
    <2>1. /\ UNCHANGED <<names, regs>> /\ updates[u].id \in Ids /\ Stored(updates[u].id)
          /\ updates[u].merged # None
      BY <1>6, NoneAssumption DEF WriteService, ValidWrites, PendingWritesValid, RowsThere
    <2>2. \/ services' = services
          \/ services' = [services EXCEPT ![updates[u].id] = updates[u].merged]
      BY <1>6 DEF WriteService
    <2>3. \A i \in Ids : Stored(i)' <=> Stored(i)
      BY <2>1, <2>2, <1>t DEF TypeOK, Stored
    <2> QED BY <1>2, <2>1, <2>3
  <1> QED
    BY <1>2, <1>3, <1>4, <1>5, <1>6 DEF Next, Register, UpdateService, vars, ValidateUpdate,
       ReadAndPatch, ReloadUpdated, AuditUpdated, Stored

(* A name has one service, and a 409 was caused by a stored one.            *)
THEOREM NamesIdentifyServices == Spec => []NameHasOneService
  <1>1. Init => RowsThere /\ RowsNamed /\ NameHasOneService
    BY NoneAssumption
    DEF Init, RowsThere, RowsNamed, NameHasOneService, Stored, NewUpdate
  <1> QED BY <1>1, InitValid, NextValid, NextThere, NextNamed, PTL DEF Spec

(***************************************************************************)
(* Patches.                                                                 *)
(***************************************************************************)

Wrote(u) == updates[u].wroteAt > 0

(* The ways in which field f of the patch of u may be lost.                  *)
Superseded(u, f) ==
  \/ \E q \in Updates : OverwroteBlindly(q, u)
  \/ \E q \in Updates : /\ updates[q].id = updates[u].id
                        /\ updates[q].wroteAt > updates[u].wroteAt
                        /\ f \in DOMAIN updates[q].patch

(* Versions order the reads and writes of a row.                             *)
WriteOrder ==
  \A u \in Updates :
    /\ updates[u].pc \in {"new", "read", "write"} => updates[u].wroteAt = 0
    /\ updates[u].pc = "write" => updates[u].readAt <= version[updates[u].id]
    /\ Wrote(u) => Stored(updates[u].id) /\ updates[u].wroteAt <= version[updates[u].id]

(* A merged profile carries its own patch and, of the patches written before *)
(* it was read, each field that nothing else has superseded.                 *)
CopiesKeep ==
  \A q \in Updates : updates[q].pc = "write" =>
    /\ \A f \in DOMAIN updates[q].patch : updates[q].merged[f] = updates[q].patch[f]
    /\ \A u \in Updates :
         /\ Wrote(u) /\ updates[u].id = updates[q].id /\ updates[u].wroteAt <= updates[q].readAt
         => \A f \in DOMAIN updates[u].patch :
              \/ updates[q].merged[f] = updates[u].patch[f]
              \/ f \in DOMAIN updates[q].patch
              \/ Superseded(u, f)

(* So does a row.                                                            *)
RowsKeep ==
  \A u \in Updates : Wrote(u) => \A f \in DOMAIN updates[u].patch :
    services[updates[u].id][f] = updates[u].patch[f] \/ Superseded(u, f)

PatchesKept == WriteOrder /\ CopiesKeep /\ RowsKeep

(* A step that neither reads a row to patch it nor writes one.               *)
Quiet ==
  /\ version' = version
  /\ \A i \in Ids : Stored(i) => services'[i] = services[i]
  /\ \A u \in Updates :
       /\ updates'[u].wroteAt = updates[u].wroteAt
       /\ updates'[u].pc \in {"new", "read", "write"} => updates[u].pc \in {"new", "read", "write"}
       /\ updates'[u].pc = "write" => updates[u].pc = "write"
       /\ updates[u].pc # "new" => updates'[u] = [updates[u] EXCEPT !.pc = updates'[u].pc]

(* What the proofs need of ids and versions.                                 *)
LEMMA UpdateTypes ==
  ASSUME ValidWrites, NEW u \in Updates
  PROVE  /\ updates[u].readAt \in Nat /\ updates[u].wroteAt \in Nat
         /\ updates[u].pc # "new" => updates[u].id \in Ids /\ version[updates[u].id] \in Nat
                                    /\ updates[u].patch \in Patches
  BY DEF ValidWrites, TypeOK, Update, PendingWritesValid

(* What is superseded stays so when the updates that have written keep their *)
(* history.                                                                  *)
LEMMA SupersededStays ==
  ASSUME ValidWrites, WriteOrder, NEW u \in Updates, Wrote(u), NEW f, Superseded(u, f),
         \A q \in Updates : Wrote(q) =>
           /\ updates'[q].id = updates[q].id /\ updates'[q].patch = updates[q].patch
           /\ updates'[q].wroteAt = updates[q].wroteAt /\ updates'[q].readAt = updates[q].readAt
  PROVE  Superseded(u, f)'
  <1>1. PICK q \in Updates :
          /\ updates[q].id = updates[u].id /\ updates[q].wroteAt > updates[u].wroteAt
          /\ updates[q].readAt < updates[u].wroteAt \/ f \in DOMAIN updates[q].patch
    BY DEF Superseded, OverwroteBlindly
  <1>2. Wrote(q)
    BY <1>1, UpdateTypes DEF Wrote
  <1> QED BY <1>1, <1>2 DEF Superseded, OverwroteBlindly

(* Quiet steps.                                                              *)
LEMMA QuietKeeps == ValidWrites /\ PatchesKept /\ Quiet => PatchesKept'
  <1> SUFFICES ASSUME ValidWrites, WriteOrder, CopiesKeep, RowsKeep, Quiet
               PROVE  WriteOrder' /\ CopiesKeep' /\ RowsKeep'
    BY DEF PatchesKept
  <1>1. \A u \in Updates : updates[u].pc # "new" =>
          /\ updates'[u].id = updates[u].id /\ updates'[u].patch = updates[u].patch
          /\ updates'[u].readAt = updates[u].readAt /\ updates'[u].merged = updates[u].merged
    <2> SUFFICES ASSUME NEW u \in Updates, updates[u].pc # "new"
                 PROVE  /\ updates'[u].id = updates[u].id /\ updates'[u].patch = updates[u].patch
                        /\ updates'[u].readAt = updates[u].readAt
                        /\ updates'[u].merged = updates[u].merged
      OBVIOUS
    <2>1. updates[u] \in Update /\ updates'[u] = [updates[u] EXCEPT !.pc = updates'[u].pc]
      BY DEF Quiet, ValidWrites, TypeOK
    <2> QED BY <2>1 DEF Update
  <1>2. \A u \in Updates : (Wrote(u)' <=> Wrote(u)) /\ (Wrote(u) => updates[u].pc # "new")
    <2>1. \A u \in Updates : updates[u].pc = "new" => updates[u].wroteAt = 0
      BY DEF WriteOrder
    <2>2. \A u \in Updates : updates'[u].wroteAt = updates[u].wroteAt
      BY DEF Quiet
    <2> QED BY <2>1, <2>2 DEF Wrote
  <1>3. \A u \in Updates : Wrote(u) => \A f : Superseded(u, f) => Superseded(u, f)'
    <2> SUFFICES ASSUME NEW u \in Updates, Wrote(u), NEW f, Superseded(u, f)
                 PROVE  Superseded(u, f)'
      OBVIOUS
    <2>1. \A q \in Updates : Wrote(q) =>
            /\ updates'[q].id = updates[q].id /\ updates'[q].patch = updates[q].patch
            /\ updates'[q].wroteAt = updates[q].wroteAt /\ updates'[q].readAt = updates[q].readAt
      BY <1>1, <1>2 DEF Quiet
    <2> QED BY <2>1, SupersededStays
  <1>4. WriteOrder'
    <2> SUFFICES ASSUME NEW u \in Updates
                 PROVE  /\ updates'[u].pc \in {"new", "read", "write"} => updates'[u].wroteAt = 0
                        /\ updates'[u].pc = "write" =>
                             updates'[u].readAt <= version'[updates'[u].id]
                        /\ Wrote(u)' => /\ Stored(updates[u].id)'
                                        /\ updates'[u].wroteAt <= version'[updates'[u].id]
      BY DEF WriteOrder
    <2>1. /\ updates'[u].pc \in {"new", "read", "write"} => updates'[u].wroteAt = 0
          /\ updates'[u].pc = "write" => updates'[u].readAt <= version'[updates'[u].id]
      BY <1>1 DEF Quiet, WriteOrder
    <2>2. ASSUME Wrote(u)
          PROVE  Stored(updates[u].id)' /\ updates'[u].wroteAt <= version'[updates'[u].id]
      <3>1. updates[u].id \in Ids /\ updates'[u].id = updates[u].id
        BY <1>1, <1>2, <2>2, UpdateTypes
      <3> QED BY <2>2, <3>1 DEF Quiet, WriteOrder, Stored
    <2> QED BY <1>2, <2>1, <2>2
  <1>5. CopiesKeep'
    <2> SUFFICES ASSUME NEW q \in Updates, updates'[q].pc = "write"
                 PROVE  /\ \A f \in DOMAIN updates'[q].patch :
                             updates'[q].merged[f] = updates'[q].patch[f]
                        /\ \A u \in Updates :
                            /\ Wrote(u)' /\ updates'[u].id = updates'[q].id
                            /\ updates'[u].wroteAt <= updates'[q].readAt
                            => \A f \in DOMAIN updates'[u].patch :
                                 \/ updates'[q].merged[f] = updates'[u].patch[f]
                                 \/ f \in DOMAIN updates'[q].patch
                                 \/ Superseded(u, f)'
      BY DEF CopiesKeep
    <2>1. /\ updates[q].pc = "write"
          /\ updates'[q].id = updates[q].id /\ updates'[q].patch = updates[q].patch
          /\ updates'[q].readAt = updates[q].readAt /\ updates'[q].merged = updates[q].merged
      BY <1>1 DEF Quiet
    <2>2. ASSUME NEW u \in Updates, Wrote(u)', updates'[u].id = updates'[q].id,
                 updates'[u].wroteAt <= updates'[q].readAt, NEW f \in DOMAIN updates'[u].patch
          PROVE  \/ updates'[q].merged[f] = updates'[u].patch[f]
                 \/ f \in DOMAIN updates'[q].patch
                 \/ Superseded(u, f)'
      <3>1. /\ Wrote(u) /\ updates'[u].id = updates[u].id /\ updates'[u].patch = updates[u].patch
            /\ updates'[u].wroteAt = updates[u].wroteAt
        BY <1>1, <1>2, <2>2 DEF Quiet
      <3>2. \/ updates[q].merged[f] = updates[u].patch[f]
            \/ f \in DOMAIN updates[q].patch
            \/ Superseded(u, f)
        BY <2>1, <2>2, <3>1 DEF CopiesKeep
      <3> QED BY <1>3, <2>1, <3>1, <3>2
    <2> QED BY <2>1, <2>2 DEF CopiesKeep
  <1>6. RowsKeep'
    <2> SUFFICES ASSUME NEW u \in Updates, Wrote(u)', NEW f \in DOMAIN updates'[u].patch
                 PROVE  \/ services'[updates'[u].id][f] = updates'[u].patch[f]
                        \/ Superseded(u, f)'
      BY DEF RowsKeep
    <2>1. /\ Wrote(u) /\ updates'[u].id = updates[u].id /\ updates'[u].patch = updates[u].patch
          /\ updates[u].id \in Ids /\ Stored(updates[u].id)
      BY <1>1, <1>2, UpdateTypes DEF WriteOrder
    <2>2. services'[updates[u].id] = services[updates[u].id]
      BY <2>1 DEF Quiet
    <2> QED BY <1>3, <2>1, <2>2 DEF RowsKeep
  <1> QED BY <1>4, <1>5, <1>6

(* An update reads a row and patches its copy.                               *)
LEMMA ReadKeeps ==
  ASSUME ValidWrites, PatchesKept, NEW q \in Updates, ReadAndPatch(q), updates'[q].pc = "write"
  PROVE  PatchesKept'
  <1> DEFINE i == updates[q].id
             p == updates[q].patch
  <1>0. WriteOrder /\ CopiesKeep /\ RowsKeep
    BY DEF PatchesKept
  <1>1. /\ updates[q] \in Update /\ updates[q].pc = "read" /\ i \in Ids /\ p \in Patches
        /\ UNCHANGED <<services, version>> /\ updates[q].wroteAt = 0 /\ version[i] \in Nat
    BY <1>0, UpdateTypes DEF ReadAndPatch, ValidWrites, TypeOK, WriteOrder
  <1>2. /\ Stored(i)
        /\ updates' = [updates EXCEPT ![q].pc = "write", ![q].readAt = version[i],
                                      ![q].merged = Patched(services[i], p)]
    <2>1. \A end \in {"not_found", "error"} : updates' # [updates EXCEPT ![q].pc = end]
      BY <1>1 DEF ValidWrites, TypeOK, Update
    <2> QED BY <2>1 DEF ReadAndPatch
  <1>3. /\ updates'[q].id = i /\ updates'[q].patch = p /\ updates'[q].wroteAt = 0
        /\ updates'[q].readAt = version[i] /\ updates'[q].merged = Patched(services[i], p)
    BY <1>1, <1>2 DEF ValidWrites, TypeOK, Update
  <1>4. \A u \in Updates \ {q} : updates'[u] = updates[u]
    BY <1>2 DEF ValidWrites, TypeOK
  <1>5. \A u \in Updates : (Wrote(u)' <=> Wrote(u)) /\ (Wrote(u) => u # q)
    BY <1>1, <1>3, <1>4 DEF Wrote
  <1>6. ASSUME NEW u \in Updates, Wrote(u), NEW f, Superseded(u, f) PROVE Superseded(u, f)'
    <2>1. \A v \in Updates : Wrote(v) =>
            /\ updates'[v].id = updates[v].id /\ updates'[v].patch = updates[v].patch
            /\ updates'[v].wroteAt = updates[v].wroteAt /\ updates'[v].readAt = updates[v].readAt
      BY <1>4, <1>5
    <2> QED BY <1>0, <1>6, <2>1, SupersededStays
  <1>7. WriteOrder'
    BY <1>0, <1>1, <1>3, <1>4, <1>5 DEF WriteOrder, Stored
  <1>8. RowsKeep'
    BY <1>0, <1>1, <1>4, <1>5, <1>6 DEF RowsKeep
  <1>9. ASSUME NEW c \in Updates, updates'[c].pc = "write",
               NEW u \in Updates, Wrote(u)', updates'[u].id = updates'[c].id,
               updates'[u].wroteAt <= updates'[c].readAt, NEW f \in DOMAIN updates'[u].patch
        PROVE  \/ updates'[c].merged[f] = updates'[u].patch[f]
               \/ f \in DOMAIN updates'[c].patch
               \/ Superseded(u, f)'
    <2>1. Wrote(u) /\ updates'[u] = updates[u] /\ updates[u].patch \in Patches
      BY <1>0, <1>4, <1>5, <1>9, UpdateTypes DEF WriteOrder, Wrote
    <2>2. CASE c = q /\ f \notin DOMAIN p
      <3>1. f \in Fields
        BY <1>9, <2>1, PatchesAssumption DEF IsPatch
      <3>2. updates'[c].merged[f] = services[i][f]
        BY <1>3, <2>2, <3>1 DEF Patched
      <3>3. services[updates[u].id][f] = updates[u].patch[f] \/ Superseded(u, f)
        BY <1>0, <1>9, <2>1 DEF RowsKeep
      <3> QED BY <1>3, <1>6, <1>9, <2>1, <2>2, <3>2, <3>3
    <2>3. CASE c # q
      <3>1. updates'[c] = updates[c]
        BY <1>4, <2>3
      <3>2. \/ updates[c].merged[f] = updates[u].patch[f]
            \/ f \in DOMAIN updates[c].patch
            \/ Superseded(u, f)
        BY <1>0, <1>9, <2>1, <3>1 DEF CopiesKeep
      <3> QED BY <1>6, <2>1, <3>1, <3>2
    <2> QED BY <1>3, <2>2, <2>3
  <1>10. ASSUME NEW c \in Updates, updates'[c].pc = "write", NEW f \in DOMAIN updates'[c].patch
         PROVE  updates'[c].merged[f] = updates'[c].patch[f]
    <2>1. CASE c = q
      <3>1. f \in Fields
        BY <1>1, <1>3, <1>10, <2>1, PatchesAssumption DEF IsPatch
      <3> QED BY <1>3, <1>10, <2>1, <3>1 DEF Patched
    <2>2. CASE c # q
      BY <1>0, <1>4, <1>10, <2>2 DEF CopiesKeep
    <2> QED BY <2>1, <2>2
  <1>11. CopiesKeep'
    BY <1>9, <1>10 DEF CopiesKeep
  <1> QED BY <1>7, <1>8, <1>11 DEF PatchesKept

(* An update writes its copy back.                                           *)
LEMMA WriteKeeps ==
  ASSUME ValidWrites, RowsThere, PatchesKept, NEW q \in Updates, WriteService(q),
         services' # services \/ version' # version
  PROVE  PatchesKept'
  <1> DEFINE i == updates[q].id
             p == updates[q].patch
             m == updates[q].merged
  <1>0. WriteOrder /\ CopiesKeep /\ RowsKeep
    BY DEF PatchesKept
  <1>1. /\ updates[q] \in Update /\ updates[q].pc = "write" /\ i \in Ids /\ Stored(i)
        /\ version[i] \in Nat /\ updates[q].wroteAt = 0 /\ m \in Service /\ m # None
        /\ updates[q].readAt \in Nat
    BY <1>0, UpdateTypes, NoneAssumption
    DEF WriteService, ValidWrites, TypeOK, WriteOrder, PendingWritesValid, RowsThere
  <1>2. PICK pc \in {"reload", "error"} :
          /\ updates' = [updates EXCEPT ![q].pc = pc, ![q].wroteAt = version[i] + 1]
          /\ services' = [services EXCEPT ![i] = m]
          /\ version' = [version EXCEPT ![i] = version[i] + 1]
    BY WriteEffect
  <1>3. /\ updates'[q].id = i /\ updates'[q].patch = p /\ updates'[q].wroteAt = version[i] + 1
        /\ updates'[q].readAt = updates[q].readAt /\ updates'[q].pc = pc
    BY <1>1, <1>2 DEF ValidWrites, TypeOK, Update
  <1>4. \A u \in Updates \ {q} : updates'[u] = updates[u]
    BY <1>2 DEF ValidWrites, TypeOK
  <1>5. /\ \A u \in Updates : Wrote(u) => u # q /\ Wrote(u)'
        /\ \A u \in Updates : Wrote(u)' <=> Wrote(u) \/ u = q
    BY <1>1, <1>3, <1>4 DEF Wrote
  <1>6. ASSUME NEW u \in Updates, Wrote(u), NEW f, Superseded(u, f) PROVE Superseded(u, f)'
    <2>1. \A v \in Updates : Wrote(v) =>
            /\ updates'[v].id = updates[v].id /\ updates'[v].patch = updates[v].patch
            /\ updates'[v].wroteAt = updates[v].wroteAt /\ updates'[v].readAt = updates[v].readAt
      BY <1>4, <1>5
    <2> QED BY <1>0, <1>6, <2>1, SupersededStays
  <1>7. ASSUME NEW u \in Updates, Wrote(u)
        PROVE  /\ updates[u].id \in Ids /\ updates[u].wroteAt \in Nat
               /\ updates[u].wroteAt <= version[updates[u].id] /\ version[updates[u].id] \in Nat
    BY <1>0, <1>7, UpdateTypes DEF WriteOrder, Wrote
  <1>8. /\ services'[i] = m /\ version'[i] = version[i] + 1
        /\ \A j \in Ids \ {i} : services'[j] = services[j] /\ version'[j] = version[j]
        /\ \A j \in Ids : Stored(j) => Stored(j)'
    BY <1>1, <1>2 DEF ValidWrites, TypeOK, Stored
  <1>9. WriteOrder'
    <2> SUFFICES ASSUME NEW u \in Updates
                 PROVE  /\ updates'[u].pc \in {"new", "read", "write"} => updates'[u].wroteAt = 0
                        /\ updates'[u].pc = "write" =>
                             updates'[u].readAt <= version'[updates'[u].id]
                        /\ Wrote(u)' => /\ Stored(updates[u].id)'
                                        /\ updates'[u].wroteAt <= version'[updates'[u].id]
      BY DEF WriteOrder
    <2>0. updates'[u].pc = "write" => updates'[u].readAt <= version'[updates'[u].id]
      <3> SUFFICES ASSUME updates'[u].pc = "write"
                   PROVE  updates'[u].readAt <= version'[updates'[u].id]
        OBVIOUS
      <3>1. u # q /\ updates'[u] = updates[u] /\ updates[u].readAt <= version[updates[u].id]
        BY <1>0, <1>2, <1>3, <1>4 DEF WriteOrder
      <3>2. updates[u].readAt \in Nat /\ updates[u].id \in Ids /\ version[updates[u].id] \in Nat
        BY <3>1, UpdateTypes
      <3> QED BY <1>1, <1>8, <3>1, <3>2
    <2>1. CASE u = q
      BY <1>1, <1>2, <1>3, <1>8, <2>1 DEF Stored
    <2>2. CASE u # q /\ Wrote(u)
      <3>1. Stored(updates[u].id) /\ updates'[u] = updates[u]
        BY <1>0, <1>4, <2>2 DEF WriteOrder
      <3>2. updates[u].wroteAt <= version'[updates[u].id]
        BY <1>1, <1>7, <1>8, <2>2
      <3> QED BY <1>0, <1>7, <1>8, <2>0, <2>2, <3>1, <3>2 DEF Stored, WriteOrder
    <2>3. CASE u # q /\ ~Wrote(u)
      BY <1>0, <1>4, <1>5, <2>0, <2>3 DEF WriteOrder
    <2> QED BY <2>1, <2>2, <2>3
  <1>10. CopiesKeep'
    <2>1. ASSUME NEW c \in Updates, updates'[c].pc = "write"
          PROVE  c # q /\ updates'[c] = updates[c]
      BY <1>2, <1>3, <1>4, <2>1
    <2>2. ASSUME NEW c \in Updates, updates'[c].pc = "write",
                 NEW u \in Updates, Wrote(u)', updates'[u].id = updates'[c].id,
                 updates'[u].wroteAt <= updates'[c].readAt, NEW f \in DOMAIN updates'[u].patch
          PROVE  \/ updates'[c].merged[f] = updates'[u].patch[f]
                 \/ f \in DOMAIN updates'[c].patch
                 \/ Superseded(u, f)'
      <3>1. updates'[c] = updates[c] /\ updates[c].pc = "write"
        BY <2>1, <2>2
      <3>2. updates[c].readAt <= version[updates[c].id]
        BY <3>1, <1>0 DEF WriteOrder
      <3>3. u # q
        BY <1>1, <1>3, <2>2, <3>1, <3>2, UpdateTypes
      <3>4. Wrote(u) /\ updates'[u] = updates[u]
        BY <1>4, <1>5, <2>2, <3>3
      <3>5. \/ updates[c].merged[f] = updates[u].patch[f]
            \/ f \in DOMAIN updates[c].patch
            \/ Superseded(u, f)
        BY <1>0, <2>2, <3>1, <3>4 DEF CopiesKeep
      <3> QED BY <1>6, <3>1, <3>4, <3>5
    <2>3. ASSUME NEW c \in Updates, updates'[c].pc = "write", NEW f \in DOMAIN updates'[c].patch
          PROVE  updates'[c].merged[f] = updates'[c].patch[f]
      BY <1>0, <2>1, <2>3 DEF CopiesKeep
    <2> QED BY <2>2, <2>3 DEF CopiesKeep
  <1>11. RowsKeep'
    <2> SUFFICES ASSUME NEW u \in Updates, Wrote(u)', NEW f \in DOMAIN updates'[u].patch
                 PROVE  \/ services'[updates'[u].id][f] = updates'[u].patch[f]
                        \/ Superseded(u, f)'
      BY DEF RowsKeep
    <2>1. CASE u = q
      BY <1>0, <1>1, <1>3, <1>8, <2>1 DEF CopiesKeep
    <2>2. CASE u # q /\ updates[u].id # i
      <3>1. Wrote(u) /\ updates'[u] = updates[u]
        BY <1>4, <1>5, <2>2
      <3>2. services'[updates[u].id] = services[updates[u].id]
        BY <1>7, <1>8, <2>2, <3>1
      <3> QED BY <1>0, <1>6, <3>1, <3>2 DEF RowsKeep
    <2>3. CASE u # q /\ updates[u].id = i
      <3>1. /\ Wrote(u) /\ updates'[u] = updates[u]
            /\ updates'[q].wroteAt > updates'[u].wroteAt
        BY <1>1, <1>3, <1>4, <1>5, <1>7, <2>3
      <3>2. CASE updates[q].readAt < updates[u].wroteAt
        BY <1>3, <2>3, <3>1, <3>2 DEF Superseded, OverwroteBlindly
      <3>3. CASE f \in DOMAIN p
        BY <1>3, <2>3, <3>1, <3>3 DEF Superseded
      <3>4. CASE updates[u].wroteAt <= updates[q].readAt /\ f \notin DOMAIN p
        <4>1. m[f] = updates[u].patch[f] \/ Superseded(u, f)
          BY <1>0, <1>1, <2>3, <3>1, <3>4 DEF CopiesKeep
        <4> QED BY <1>6, <1>8, <2>3, <3>1, <4>1
      <3> QED BY <1>1, <1>7, <3>1, <3>2, <3>3, <3>4
    <2> QED BY <2>1, <2>2, <2>3
  <1> QED BY <1>9, <1>10, <1>11 DEF PatchesKept

(* A committed patch is lost only to a later patch of the same field or to   *)
(* an update that had read the row before it.                                *)
THEOREM PatchesLostOnlyByOverlap == Spec => []OnlyOverlapLosesPatches
  <1>1. Init => RowsThere /\ PatchesKept
    BY DEF Init, RowsThere, PatchesKept, WriteOrder, CopiesKeep, RowsKeep, Wrote, NewUpdate
  <1>2. ValidWrites /\ RowsThere /\ RowsNamed /\ PatchesKept /\ [Next]_vars => PatchesKept'
    <2> SUFFICES ASSUME ValidWrites, RowsThere, RowsNamed, PatchesKept, [Next]_vars
                 PROVE  PatchesKept'
      OBVIOUS
    <2>t. updates \in [Updates -> Update]
      BY DEF ValidWrites, TypeOK
    <2>1. CASE UNCHANGED <<updates, version>> /\ \A i \in Ids : Stored(i) => services'[i] = services[i]
      <3>1. \A u \in Updates : updates[u] = [updates[u] EXCEPT !.pc = updates[u].pc]
        BY <2>t DEF Update
      <3>2. Quiet
        BY <2>1, <3>1 DEF Quiet
      <3> QED BY <3>2, QuietKeeps
    <2>2. ASSUME NEW r \in Registrations, CreateService(r) PROVE PatchesKept'
      <3>1. ~Stored(r) /\ UNCHANGED <<updates, version>>
        BY <2>2 DEF CreateService, RowsNamed
      <3>2. \A i \in Ids : Stored(i) => services'[i] = services[i]
        BY <2>2, <3>1 DEF CreateService, Stored, ValidWrites, TypeOK
      <3> QED BY <2>1, <3>1, <3>2
    <2>3. ASSUME NEW u \in Updates, ValidateUpdate(u) PROVE PatchesKept'
      <3>1. /\ updates[u].pc = "new" /\ UNCHANGED <<services, version>>
            /\ updates'[u].pc \in {"read", "invalid"} /\ updates'[u].wroteAt = 0
            /\ \A v \in Updates \ {u} : updates'[v] = updates[v]
        BY <2>3, <2>t DEF ValidateUpdate, NewUpdate
      <3>2. updates[u].wroteAt = 0
        BY <3>1 DEF PatchesKept, WriteOrder
      <3>3. \A v \in Updates : updates[v] = [updates[v] EXCEPT !.pc = updates[v].pc]
        BY <2>t DEF Update
      <3>4. Quiet
        BY <3>1, <3>2, <3>3 DEF Quiet
      <3> QED BY <3>4, QuietKeeps
    <2>4. ASSUME NEW u \in Updates, NEW p \in {"not_found", "error", "audit", "ok"},
                 updates' = [updates EXCEPT ![u].pc = p], UNCHANGED <<services, version>>,
                 updates[u].pc # "new"
          PROVE  PatchesKept'
      <3>1. \A v \in Updates \ {u} : updates'[v] = updates[v]
        BY <2>4, <2>t
      <3>2. updates'[u] = [updates[u] EXCEPT !.pc = p] /\ updates'[u].pc = p
            /\ updates'[u].wroteAt = updates[u].wroteAt
        BY <2>4, <2>t DEF Update
      <3>3. \A v \in Updates : updates[v] = [updates[v] EXCEPT !.pc = updates[v].pc]
        BY <2>t DEF Update
      <3>4. Quiet
        BY <2>4, <3>1, <3>2, <3>3 DEF Quiet
      <3> QED BY <3>4, QuietKeeps
    <2>5. ASSUME NEW u \in Updates, ReadAndPatch(u) PROVE PatchesKept'
      <3>1. CASE updates'[u].pc = "write"
        BY <2>5, <3>1, ReadKeeps
      <3>2. CASE updates'[u].pc # "write"
        <4>1. updates[u] \in Update /\ updates[u].pc # "new" /\ UNCHANGED <<services, version>>
          BY <2>5, <2>t DEF ReadAndPatch
        <4>2. \E p \in {"not_found", "error"} : updates' = [updates EXCEPT ![u].pc = p]
          BY <2>5, <3>2, <4>1, <2>t DEF ReadAndPatch, Update
        <4> QED BY <2>4, <4>1, <4>2
      <3> QED BY <3>1, <3>2
    <2>6. ASSUME NEW u \in Updates, WriteService(u) PROVE PatchesKept'
      <3>1. CASE UNCHANGED <<services, version>>
        <4>1. /\ updates[u].pc = "write" /\ updates[u].wroteAt = 0 /\ version[updates[u].id] \in Nat
              /\ updates[u] \in Update
          BY <2>6, <2>t, UpdateTypes DEF WriteService, PatchesKept, WriteOrder
        <4>2. PICK p \in {"reload", "error"}, n \in Nat :
                /\ updates' = [updates EXCEPT ![u].pc = p, ![u].wroteAt = n]
                /\ \/ n = 0
                   \/ version' = [version EXCEPT ![updates[u].id] = n]
                      /\ n = version[updates[u].id] + 1
          BY <2>6, WriteEffect
        <4>3. updates[u].id \in Ids
          BY <4>1, UpdateTypes
        <4>4. n = 0
          BY <3>1, <4>1, <4>2, <4>3 DEF ValidWrites, TypeOK
        <4>5. updates'[u] = [updates[u] EXCEPT !.pc = p] /\ updates'[u].pc = p
              /\ updates'[u].wroteAt = updates[u].wroteAt
          BY <4>1, <4>2, <4>4, <2>t DEF Update
        <4>6. \A v \in Updates \ {u} : updates'[v] = updates[v]
          BY <4>2, <2>t
        <4>7. \A v \in Updates : updates[v] = [updates[v] EXCEPT !.pc = updates[v].pc]
          BY <2>t DEF Update
        <4>8. Quiet
          BY <3>1, <4>1, <4>2, <4>5, <4>6, <4>7 DEF Quiet
        <4> QED BY <4>8, QuietKeeps
      <3>2. CASE services' # services \/ version' # version
        BY <2>6, <3>2, WriteKeeps
      <3> QED BY <3>1, <3>2
    <2>7. ASSUME NEW u \in Updates, ReloadUpdated(u) \/ AuditUpdated(u) PROVE PatchesKept'
      <3>1. PICK p \in {"audit", "ok", "error"} : updates' = [updates EXCEPT ![u].pc = p]
        BY <2>7 DEF ReloadUpdated, AuditUpdated
      <3>2. updates[u].pc # "new" /\ UNCHANGED <<services, version>>
        BY <2>7 DEF ReloadUpdated, AuditUpdated
      <3> QED BY <2>4, <3>1, <3>2
    <2> QED
      BY <2>1, <2>2, <2>3, <2>5, <2>6, <2>7 DEF Next, Register, UpdateService, vars,
         ValidateInput, ReloadCreated, AuditRegistered
  <1>3. PatchesKept => OnlyOverlapLosesPatches
    BY DEF PatchesKept, RowsKeep, Wrote, Superseded, OnlyOverlapLosesPatches
  <1>4. Init => RowsNamed /\ NameHasOneService
    BY NoneAssumption DEF Init, RowsNamed, NameHasOneService, Stored
  <1> QED BY <1>1, <1>2, <1>3, <1>4, InitValid, NextValid, NextThere, NextNamed, PTL DEF Spec
============================================================================
