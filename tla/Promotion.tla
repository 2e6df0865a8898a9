----------------------------- MODULE Promotion -----------------------------
(***************************************************************************)
(* What the promotion gate promises, with requests, clocks, failed calls    *)
(* and tables left out: a candidate is submitted for a service, evidence    *)
(* about services is collected and never altered, and each candidate is     *)
(* ruled on at most once, in one indivisible act that follows from a piece  *)
(* of evidence about its own service, or rejects without any.               *)
(* PromotionGate implements this specification.                             *)
(***************************************************************************)
CONSTANTS Candidates, Services, Sources, None

VARIABLES docket,   \* the candidates: status, service, and what the ruling rests on
          facts     \* the evidence collected so far, one fact per source

vars == <<docket, facts>>

States == {"ready", "degraded", "blocked"}

Fact == [id : Sources, service : Services, state : States]

Init ==
  /\ docket = [c \in Candidates |-> [status |-> "absent", service |-> None, evidence |-> None]]
  /\ facts = {}

Submit(c) ==
  /\ docket[c].status = "absent"
  /\ \E s \in Services :
       docket' = [docket EXCEPT ![c] = [status |-> "pending", service |-> s, evidence |-> None]]
  /\ UNCHANGED facts

Collect ==
  /\ \E f \in Fact : /\ \A g \in facts : g.id # f.id
                     /\ facts' = facts \union {f}
  /\ UNCHANGED docket

Rule(c) ==
  /\ docket[c].status = "pending"
  /\ \/ \E f \in facts :
          /\ f.service = docket[c].service
          /\ docket' = [docket EXCEPT
               ![c].status = IF f.state = "ready" THEN "approved" ELSE "rejected",
               ![c].evidence = f.id]
     \/ docket' = [docket EXCEPT ![c].status = "rejected"]
  /\ UNCHANGED facts

Next == Collect \/ \E c \in Candidates : Submit(c) \/ Rule(c)

Spec == Init /\ [][Next]_vars
============================================================================
