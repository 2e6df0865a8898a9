------------------------------ MODULE AuditTrail ------------------------------
(***************************************************************************)
(* The audit list as an administrator sees it, on top of Access: writers     *)
(* that stamp an event by their own clock and insert it later, in any order, *)
(* and the requests that got through to the handler of audit-events, which   *)
(* asks for the newest ones (postgres/audit.go, api/server.go).              *)
(***************************************************************************)
EXTENDS Access

CONSTANTS Events,       \* events, each of one request or job
          Resources,    \* resources the events are about
          Fast,         \* events stamped by a clock that is Skew ahead
          Skew,         \* by how much
          Limits,       \* values of ?limit
          DefaultLimit, \* 20
          MaxLimit,     \* 100
          AnyResource   \* no resource_id given

ASSUME AuditAssumption ==
  /\ IsFiniteSet(Events)
  /\ Fast \subseteq Events /\ Skew \in Nat
  /\ Limits \subseteq Int
  /\ DefaultLimit \in Nat \ {0} /\ MaxLimit \in Nat /\ DefaultLimit <= MaxLimit
  /\ AnyResource \notin Resources

VARIABLES event,  \* each event: its writer's progress and its columns
          stored, \* events in the table
          list,   \* what the handlers of audit-events answer
          before  \* history: events whose writers had answered when an event was stamped

trail == <<event, stored, list, before>>

----------------------------------------------------------------------------
PC == {"new", "stamped", "answered", "failed"}

AuditTypeOK ==
  /\ event \in [Events -> [pc: PC, created: 0 .. MaxTime + Skew, resource: Resources]]
  /\ stored \subseteq Events
  /\ list \in [Requests -> [pc: {"new", "done", "failed"}, resource: Resources \cup {AnyResource},
                            limit: 0..MaxLimit, items: SUBSET Events,
                            table: SUBSET Events]] \* history: the table that was read
  /\ \A q \in Requests : list[q].pc = "done" => Cardinality(list[q].items) <= list[q].limit
                                                /\ list[q].limit > 0
  /\ before \in [Events -> SUBSET Events]

NoList == [pc |-> "new", resource |-> AnyResource, limit |-> 0, items |-> {}, table |-> {}]

AuditInit ==
  /\ Init
  /\ event \in [Events -> [pc: {"new"}, created: {0}, resource: Resources]]
  /\ stored = {}
  /\ list = [q \in Requests |-> NoList]
  /\ before = [e \in Events |-> {}]

Clock(e) == IF e \in Fast THEN now + Skew ELSE now

(* auditEvent: created_at is the writer's time before the insert.            *)
AuditEvent(e) ==
  /\ event[e].pc = "new"
  /\ event' = [event EXCEPT ![e].pc = "stamped", ![e].created = Clock(e)]
  /\ before' = [before EXCEPT ![e] = {d \in Events : event[d].pc = "answered"}]
  /\ UNCHANGED <<vars, stored, list>>

(* The insert commits and its answer comes or is lost, or it fails.          *)
InsertAuditEvent(e) ==
  /\ event[e].pc = "stamped"
  /\ \E outcome \in {"ok", "lost", "err"} :
       /\ stored' = IF outcome = "err" THEN stored ELSE stored \cup {e}
       /\ event' = [event EXCEPT ![e].pc = IF outcome = "ok" THEN "answered" ELSE "failed"]
  /\ UNCHANGED <<vars, list, before>>

----------------------------------------------------------------------------
(* The limit ListAuditEvents works with: default below 1, capped at the top. *)
Clamped(limit) ==
  CASE limit < 1 -> DefaultLimit
    [] limit > MaxLimit -> MaxLimit
    [] OTHER -> limit

Matching(resource) == {e \in stored : resource = AnyResource \/ event[e].resource = resource}

(* Fault: the oldest events first.                                          *)
OldestPages(found, limit) ==
  {page \in SUBSET found :
     /\ Cardinality(page) = IF Cardinality(found) < limit THEN Cardinality(found) ELSE limit
     /\ \A e \in page, d \in found \ page : event[e].created <= event[d].created}

(* ORDER BY created_at DESC LIMIT: events of the same time come in any order.*)
Pages(found, limit) ==
  {page \in SUBSET found :
     /\ Cardinality(page) = IF Cardinality(found) < limit THEN Cardinality(found) ELSE limit
     /\ \A e \in page, d \in found \ page : event[e].created >= event[d].created}

(* The handler of audit-events runs for q and has not answered yet.         *)
Listing(q) ==
  /\ Answered(q) /\ request[q].status = "handled" /\ request[q].route = "audit-events"
  /\ list[q].pc = "new"

(* The query reads a snapshot of the table, or fails.                       *)
ListAuditEvents(q) ==
  /\ Listing(q)
  /\ \E resource \in Resources \cup {AnyResource}, limit \in Limits :
       \/ \E page \in Pages(Matching(resource), Clamped(limit)) :
            list' = [list EXCEPT ![q] = [pc |-> "done", resource |-> resource,
                                         limit |-> Clamped(limit), items |-> page,
                                         table |-> stored]]
       \/ list' = [list EXCEPT ![q].pc = "failed"]
  /\ UNCHANGED <<vars, event, stored, before>>

(* A restart of the API takes its handlers along.                           *)
RestartCutsListings ==
  /\ RestartAPI
  /\ list' = [q \in Requests |-> IF Listing(q) THEN [list[q] EXCEPT !.pc = "failed"] ELSE list[q]]
  /\ UNCHANGED <<event, stored, before>>

AuditNext ==
  \/ WhileUp /\ UNCHANGED trail
  \/ RestartCutsListings
  \/ \E e \in Events : AuditEvent(e) \/ InsertAuditEvent(e)
  \/ \E q \in Requests : ListAuditEvents(q)

AuditSpec == AuditInit /\ [][AuditNext]_<<vars, trail>>

----------------------------------------------------------------------------
About(q, e) == list[q].resource = AnyResource \/ event[e].resource = list[q].resource

(* What came after an event on the page is on it, too: an event stored when  *)
(* the page was read, stamped after an event of the page had been answered,  *)
(* is missing only if their times are the same or the page's event was       *)
(* stamped by a fast clock.                                                  *)
PageHasWhatFollows ==
  \A q \in Requests : list[q].pc = "done" =>
    \A d \in list[q].items, e \in list[q].table \ list[q].items :
      d \in before[e] /\ About(q, e) =>
        event[d].created = event[e].created \/ (d \in Fast /\ e \notin Fast)

(* Whoever was shown a page came with a token that was asked for as          *)
(* platform-admin, within the lifetime it was signed for.                    *)
PageForAdministrator ==
  \A q \in Requests : list[q].pc = "done" =>
    Of(q).asked = "platform-admin" /\ request[q].at <= Of(q).born + Of(q).ttl

(* Listings are well-formed, within their clamped limits, miss nothing that  *)
(* follows what they show, and are shown to administrators.                  *)
ListingsSound == AuditTypeOK /\ PageHasWhatFollows /\ PageForAdministrator
=============================================================================
