---------------------------- MODULE MCScorecard ----------------------------
(* Small instances of the registry with its scorecard for TLC.  Each start   *)
(* is a reachable state in which some of the requests are over already:      *)
(* several small instances with the constants of one.                        *)
EXTENDS Scorecard, MCServiceRegistry

\* One worker's clock is a tick ahead.
MCSkew == [e \in Evaluations |-> IF e = CHOOSE d \in Evaluations : TRUE THEN 1 ELSE 0]

AnId == CHOOSE i \in Ids : TRUE

\* The registry when the registrations in named have been answered and those in
\* open have not come; the others were refused.
Registry(named, open, n) ==
  /\ services = [i \in Ids |-> IF i \in DOMAIN named THEN MCProfile ELSE None]
  /\ names = [i \in Ids |-> IF i \in DOMAIN named THEN named[i] ELSE None]
  /\ version = [i \in Ids |-> 0]
  /\ regs = [r \in Registrations |->
       CASE r \in DOMAIN named -> [pc |-> "created", name |-> named[r], input |-> MCProfile]
         [] r \in open -> [pc |-> "new", name |-> None, input |-> None]
         [] OTHER -> [pc |-> "invalid", name |-> n, input |-> MCProfile]]
  /\ audit = {RegisteredEvent(r) : r \in DOMAIN named}

\* The updates in open have carried their patch to i as far as pc, the others
\* were refused.
Patching(open, pc, i, patch) ==
  updates = [u \in Updates |->
    CASE u \in open /\ pc = "new" -> NewUpdate
      [] u \in open /\ pc # "new" -> [NewUpdate EXCEPT !.pc = pc, !.id = i, !.patch = patch]
      [] OTHER -> [NewUpdate EXCEPT !.pc = "invalid", !.id = i, !.patch = <<>>]]

\* The evaluations found no service, the scorecards failed, the time is over.
NoEvidence ==
  /\ now = MaxTime
  /\ evals = [e \in Evaluations |-> [NewEvaluation EXCEPT !.pc = "done"]]
  /\ snapshots = {} /\ checks = {}
  /\ cards = [r \in Readers |-> [NewCard EXCEPT !.pc = "error"]]

ThreePatches ==
  /\ \E n \in Names : Registry([r \in {AnId} |-> n], {}, n) /\ Patching(Updates, "new", AnId, <<>>)
  /\ NoEvidence

TwoRegistrations ==
  /\ \E u \in Updates, n \in Names :
       Registry(<<>>, Ids, n) /\ Patching({u}, "new", AnId, <<>>)
  /\ NoEvidence

\* No evidence yet at this time; the scorecards are still to come or failed.
EvidenceFrom(time, pc) ==
  /\ now = time
  /\ evals = [e \in Evaluations |-> NewEvaluation]
  /\ snapshots = {} /\ checks = {}
  /\ cards = [r \in Readers |-> [NewCard EXCEPT !.pc = pc]]

\* A scorecard of two services while one of them is patched and evaluated.
TwoServices ==
  /\ \E u \in Updates, n \in Names, named \in [Ids -> Names] :
       /\ \A r, q \in Ids : named[r] = named[q] => r = q
       /\ Registry(named, {}, n)
       /\ Patching({u}, "read", AnId, [ci |-> TRUE, tracing |-> TRUE, metrics |-> TRUE])
  /\ EvidenceFrom(MaxTime - 1, "new")

\* Two evaluations of one service while it is patched.
TwoEvaluations ==
  /\ \E u \in Updates, n \in Names :
       /\ Registry([r \in {AnId} |-> n], {}, n)
       /\ Patching({u}, "read", AnId, [ci |-> TRUE])
  /\ EvidenceFrom(0, "error")

MCSpec ==
  /\ ThreePatches \/ TwoRegistrations \/ TwoServices \/ TwoEvaluations
  /\ [][EvidenceNext]_<<vars, evidence>>

MCNamesAndUpdates == Permutations(Updates) \union Permutations(Names)
============================================================================
