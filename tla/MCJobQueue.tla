----------------------------- MODULE MCJobQueue -----------------------------
(* Small instances of JobQueue for TLC.                                    *)
EXTENDS JobQueue, TLC

CONSTANT Fast   \* the worker whose clock is a second ahead, if any

MCSkew == [w \in Workers |-> IF w = Fast THEN 1 ELSE 0]

Steady == Workers \ {Fast}

MCSymmetry == Permutations(Requests) \union Permutations(Steady)

----------------------------------------------------------------------------
(* Starts, all of them states that Spec reaches: some workers have died and  *)
(* some requests have failed, so that each start gives a small instance.     *)

\* The workers in alive have not started; the others died.
Alive(alive) ==
  /\ pc = [w \in Workers |-> IF w \in alive THEN "off" ELSE "dead"]
  /\ claims = [w \in Workers |-> {}]
  /\ cur = [w \in Workers |-> None]
  /\ snapshots = {}

\* The requests in asking are about to insert their jobs, each under key[r];
\* the others failed.
Asking(asking, key) ==
  /\ \E s \in Registered :
       req = [r \in Requests |->
                IF r \in asking
                THEN [NoRequest EXCEPT !.pc = "enqueue", !.service = s, !.key = key[r],
                                       !.stamp = ApiSkew]
                ELSE [NoRequest EXCEPT !.pc = "failed"]]
  /\ jobs = [j \in JobIds |-> NoRow]
  /\ now = 0
  /\ audit = {}

\* One request, and either every steady worker or a steady and the fast one.
OneJob ==
  \E r \in Requests, alive \in {Steady} \union {{w, Fast} : w \in Steady} :
    Asking({r}, [q \in Requests |-> q]) /\ Alive(alive)

\* All requests send the same key; one worker.
SharedKey ==
  \E k \in Keys, w \in Steady : Asking(Requests, [q \in Requests |-> k]) /\ Alive({w})

\* Every request has its job; a worker that died has failed one of them once
\* and the others twice.  Two steady workers are left.
Batch ==
  \E s \in Registered, dead \in Steady, once \in JobIds :
    /\ now = ApiSkew + Backoff(1) + Backoff(2)
    /\ req = [r \in Requests |-> [pc |-> "accepted", service |-> s, key |-> r,
                                  stamp |-> ApiSkew, job |-> r]]
    /\ jobs = [j \in JobIds |-> [NoRow EXCEPT !.status = "failed", !.resource = s, !.key = j,
                                   !.attempts = IF j = once THEN 1 ELSE 2,
                                   !.availableAt = IF j = once THEN ApiSkew + Backoff(1)
                                                    ELSE now]]
    /\ audit = {[type |-> "service.evaluation_requested", resource |-> s,
                 requestId |-> r, details |-> r] : r \in Requests}
    /\ Alive(Steady \ {dead})

MCSpec == (OneJob \/ SharedKey \/ Batch) /\ [][Next]_vars
============================================================================
