-------------------------- MODULE AuditTrailProofs --------------------------
(***************************************************************************)
(* Theorems about AuditTrail on top of Access, for any number of events and *)
(* requests, any limits and any skew of the fast clocks.                    *)
(***************************************************************************)
EXTENDS AuditTrail, AccessProofs

Column == [pc: PC, created: 0 .. MaxTime + Skew, resource: Resources]

ListType == [pc: {"new", "done", "failed"}, resource: Resources \cup {AnyResource},
            limit: 0..MaxLimit, items: SUBSET Events, table: SUBSET Events]

(* A stamp is not ahead of the clock that made it, and only stamped events   *)
(* are stored.                                                               *)
Stamped ==
  /\ \A e \in Events : event[e].pc # "new" =>
       event[e].created <= IF e \in Fast THEN now + Skew ELSE now
  /\ \A e \in stored : event[e].pc # "new"

(* An event answered before another was stamped has no later time, unless a  *)
(* fast clock stamped it and a slow one the other.                           *)
StampsFollow ==
  \A e \in Events : \A d \in before[e] :
    /\ event[d].pc # "new" /\ event[e].pc # "new"
    /\ event[d].created <= event[e].created \/ (d \in Fast /\ e \notin Fast)

(* A page is of stored events and has the latest times of those it is about. *)
PagesLatest ==
  \A r \in Requests : list[r].pc = "done" =>
    /\ list[r].items \subseteq list[r].table /\ list[r].table \subseteq stored
    /\ \A d \in list[r].items, e \in list[r].table \ list[r].items :
         About(r, e) => event[d].created >= event[e].created

(* Whoever has been answered got through to the handler.                     *)
Permitted ==
  \A q \in Requests : list[q].pc # "new" =>
    Answered(q) /\ request[q].status = "handled" /\ request[q].route = "audit-events"

TrailInductive == AuditTypeOK /\ Stamped /\ StampsFollow /\ PagesLatest /\ Permitted

(* AuditInit satisfies the invariant.                                       *)
LEMMA AuditInitInductive == AuditInit => TrailInductive
  <1> SUFFICES ASSUME AuditInit PROVE TrailInductive
    OBVIOUS
  <1>1. AuditTypeOK
    <2>1. MaxTime \in Nat
      BY AccessAssumption
    <2> QED BY <2>1, AuditAssumption DEF AuditInit, AuditTypeOK, NoList, PC
  <1>2. Stamped /\ StampsFollow /\ PagesLatest /\ Permitted
    BY DEF AuditInit, Stamped, StampsFollow, PagesLatest, Permitted, NoList
  <1> QED BY <1>1, <1>2 DEF TrailInductive

(* A step of Access lets the clock stand or go on, and leaves what it has     *)
(* answered.                                                                 *)
LEMMA AccessStep ==
  ASSUME Inductive, [Next]_vars
  PROVE  /\ now' \in {now, now + 1} /\ now' \in 0..MaxTime
         /\ \A q \in Requests : request[q].pc = "done" =>
              /\ request'[q].pc = "done" /\ request'[q].token = request[q].token
              /\ request'[q].status = request[q].status /\ request'[q].route = request[q].route
  <1> USE DEF issuing, serving
  <1>0. request \in [Requests -> Request] /\ now \in 0..MaxTime /\ MaxTime \in Nat
    BY AccessAssumption DEF Inductive, TypeOK
  <1>1. CASE UNCHANGED vars
    BY <1>0, <1>1 DEF vars
  <1>2. CASE Tick \/ New \/ ServeKeys
    BY <1>0, <1>2 DEF Tick, New, ServeKeys
  <1>3. CASE StopIssuer \/ RestartAPI
    <2>1. now' = now
      BY <1>3 DEF StopIssuer, RestartAPI
    <2>2. ASSUME NEW q \in Requests, request[q].pc = "done"
          PROVE  request'[q] = request[q] \/ request'[q] = [request[q] EXCEPT !.retry = FALSE]
      BY <1>0, <1>3, <2>2 DEF StopIssuer, RestartAPI
    <2>3. ASSUME NEW q \in Requests
          PROVE  LET r == [request[q] EXCEPT !.retry = FALSE] IN
                 /\ r.pc = request[q].pc /\ r.token = request[q].token
                 /\ r.status = request[q].status /\ r.route = request[q].route
      BY <1>0 DEF Request
    <2> QED BY <1>0, <2>1, <2>2, <2>3
  <1>4. ASSUME NEW t \in Tokens, RunToken(t) \/ IssueOIDCToken(t) \/ SignMapClaims(t)
        PROVE  UNCHANGED <<now, request>>
    BY <1>4 DEF RunToken, IssueOIDCToken, SignMapClaims
  <1>5. ASSUME NEW q \in Requests, Arrive(q)
        PROVE  /\ now' = now
               /\ \A p \in Requests : request[p].pc = "done" => request'[p] = request[p]
    <2>1. PICK rec \in Request : Becomes(q, rec)
      BY <1>5, ArriveEffect
    <2> QED BY <1>0, <2>1 DEF Becomes
  <1>6. CASE ReceiveKeys
    BY <1>0, <1>6, ReceiveEffect
  <1> QED BY <1>0, <1>1, <1>2, <1>3, <1>4, <1>5, <1>6 DEF Next, WhileUp

(* A page fits the limit it was asked for.                                   *)
LEMMA PageFits ==
  ASSUME NEW found \in SUBSET Events, NEW limit \in Limits,
         NEW page \in Pages(found, Clamped(limit))
  PROVE  /\ Clamped(limit) \in 1 .. MaxLimit
         /\ Cardinality(page) <= Clamped(limit)
  <1>1. Clamped(limit) \in 1 .. MaxLimit
    BY AuditAssumption DEF Clamped
  <1>2. IsFiniteSet(found)
    BY AuditAssumption, FS_Subset
  <1>3. Cardinality(found) \in Nat
    BY <1>2, FS_CardinalityType
  <1> QED BY <1>1, <1>3 DEF Pages

(* Every step keeps the invariant.                                           *)
LEMMA AuditNextInductive ==
  Inductive /\ TrailInductive /\ [AuditNext]_<<vars, trail>> => TrailInductive'
  <1> SUFFICES ASSUME Inductive, AuditTypeOK, Stamped, StampsFollow, PagesLatest, Permitted,
                      [AuditNext]_<<vars, trail>>
               PROVE  /\ AuditTypeOK' /\ Stamped' /\ StampsFollow' /\ PagesLatest'
                      /\ Permitted'
    BY DEF TrailInductive
  <1> MaxTime \in Nat
    BY AccessAssumption
  <1> USE AuditAssumption
  <1>0. /\ now \in 0..MaxTime /\ event \in [Events -> Column] /\ stored \subseteq Events
        /\ list \in [Requests -> ListType] /\ before \in [Events -> SUBSET Events]
    BY DEF Inductive, TypeOK, AuditTypeOK, Column, ListType
  <1>1. CASE [Next]_vars /\ UNCHANGED trail
    <2>1. /\ UNCHANGED <<event, stored, list, before>>
          /\ now' \in {now, now + 1}
          /\ Permitted'
      BY <1>1, AccessStep DEF trail, Permitted, Answered
    <2>2. Stamped'
      BY <1>0, <2>1 DEF Stamped, Column
    <2> QED BY <2>1, <2>2 DEF AuditTypeOK, StampsFollow, PagesLatest, About
  <1>2. CASE RestartCutsListings
    <2>1. UNCHANGED <<now, event, stored, before>> /\ RestartAPI
      BY <1>2 DEF RestartCutsListings, RestartAPI
    <2>2. ASSUME NEW q \in Requests
          PROVE  \/ list'[q] = list[q]
                 \/ Listing(q) /\ list'[q] = [list[q] EXCEPT !.pc = "failed"]
      BY <1>2 DEF RestartCutsListings
    <2>3. list' \in [Requests -> ListType]
      <3>1. ASSUME NEW q \in Requests PROVE list'[q] \in ListType
        <4>1. list[q] \in ListType
          BY <1>0
        <4>2. [list[q] EXCEPT !.pc = "failed"] \in ListType
          BY <4>1 DEF ListType
        <4> QED BY <2>2, <4>1, <4>2
      <3> QED BY <1>2, <3>1 DEF RestartCutsListings
    <2>4. \A q \in Requests : list'[q].pc = "done" => list'[q] = list[q]
      BY <1>0, <2>2 DEF ListType
    <2>5. AuditTypeOK'
      BY <2>1, <2>3, <2>4 DEF AuditTypeOK, ListType
    <2>6. Stamped' /\ StampsFollow' /\ PagesLatest'
      BY <1>0, <2>1, <2>4 DEF Stamped, StampsFollow, PagesLatest, About
    <2>7. Permitted'
      <3>1. \A q \in Requests : list'[q].pc # "new" =>
              Answered(q) /\ request[q].status = "handled" /\ request[q].route = "audit-events"
        BY <2>2 DEF Permitted, Listing
      <3> QED BY <2>1, <3>1, AccessStep DEF Permitted, Answered, Next
    <2> QED BY <2>5, <2>6, <2>7
  <1>3. ASSUME NEW e \in Events, AuditEvent(e)
        PROVE  AuditTypeOK' /\ Stamped' /\ StampsFollow' /\ PagesLatest' /\ Permitted'
    <2>1. /\ event[e].pc = "new" /\ UNCHANGED <<now, request, stored, list>> /\ e \notin stored
          /\ \A d \in Events \ {e} : event'[d] = event[d] /\ before'[d] = before[d]
          /\ event'[e].pc = "stamped" /\ event'[e].created = Clock(e)
          /\ event'[e].resource = event[e].resource
          /\ before'[e] = {d \in Events : event[d].pc = "answered"}
      BY <1>0, <1>3 DEF AuditEvent, vars, Stamped, Column
    <2>2. Clock(e) \in 0 .. MaxTime + Skew
      BY <1>0 DEF Clock
    <2>3. event' \in [Events -> Column] /\ before' \in [Events -> SUBSET Events]
      <3>1. /\ event' = [event EXCEPT ![e] = [event[e] EXCEPT !.pc = "stamped", !.created = Clock(e)]]
            /\ before' = [before EXCEPT ![e] = {d \in Events : event[d].pc = "answered"}]
        BY <1>3 DEF AuditEvent
      <3>2. [event[e] EXCEPT !.pc = "stamped", !.created = Clock(e)] \in Column
        <4> DEFINE c == Clock(e)
        <4>1. event[e] \in Column /\ c \in 0 .. MaxTime + Skew /\ "stamped" \in PC
          BY <1>0, <2>2 DEF PC
        <4> HIDE DEF c
        <4>2. [event[e] EXCEPT !.pc = "stamped"] \in Column
          BY <4>1 DEF Column
        <4>3. [[event[e] EXCEPT !.pc = "stamped"] EXCEPT !.created = c] \in Column
          BY <4>1, <4>2 DEF Column
        <4>4. [event[e] EXCEPT !.pc = "stamped", !.created = c]
                = [[event[e] EXCEPT !.pc = "stamped"] EXCEPT !.created = c]
          OBVIOUS
        <4> QED BY <4>3, <4>4 DEF c
      <3> QED BY <1>0, <3>1, <3>2
    <2>4. AuditTypeOK'
      BY <2>1, <2>3 DEF AuditTypeOK, Column
    <2>5. Stamped'
      <3>1. /\ Clock(e) <= Clock(e)
            /\ Clock(e) = IF e \in Fast THEN now + Skew ELSE now
        BY <2>2 DEF Clock
      <3>2. ASSUME NEW d \in Events, event'[d].pc # "new"
            PROVE  event'[d].created <= IF d \in Fast THEN now' + Skew ELSE now'
        <4>1. CASE d = e
          BY <2>1, <3>1, <4>1
        <4>2. CASE d # e
          BY <2>1, <3>2, <4>2 DEF Stamped
        <4> QED BY <4>1, <4>2
      <3>3. \A d \in stored' : event'[d].pc # "new"
        BY <1>0, <2>1 DEF Stamped
      <3> QED BY <3>2, <3>3 DEF Stamped
    <2>6. StampsFollow'
      <3> SUFFICES ASSUME NEW f \in Events, NEW d \in before'[f]
                   PROVE  /\ event'[d].pc # "new" /\ event'[f].pc # "new"
                          /\ event'[d].created <= event'[f].created \/ (d \in Fast /\ f \notin Fast)
        BY DEF StampsFollow
      <3>1. CASE f = e
        <4>1. d \in Events /\ d # e /\ event[d].pc = "answered" /\ event'[d] = event[d]
          BY <2>1, <3>1
        <4>2. event[d].created <= IF d \in Fast THEN now + Skew ELSE now
          BY <4>1 DEF Stamped
        <4>3. event[d].created \in Int /\ now \in Int
          BY <1>0, <4>1 DEF Column
        <4> QED BY <2>1, <3>1, <4>1, <4>2, <4>3 DEF Clock
      <3>2. CASE f # e
        <4>1. d \in before[f] /\ d \in Events
          BY <1>0, <2>1, <3>2
        <4>2. event[d].pc # "new" /\ d # e
          BY <2>1, <4>1 DEF StampsFollow
        <4> QED BY <2>1, <3>2, <4>1, <4>2 DEF StampsFollow
      <3> QED BY <3>1, <3>2
    <2>7. PagesLatest'
      BY <1>0, <2>1 DEF PagesLatest, About
    <2>8. Permitted'
      BY <2>1 DEF Permitted, Answered
    <2> QED BY <2>4, <2>5, <2>6, <2>7, <2>8
  <1>4. ASSUME NEW e \in Events, InsertAuditEvent(e)
        PROVE  AuditTypeOK' /\ Stamped' /\ StampsFollow' /\ PagesLatest' /\ Permitted'
    <2>1. /\ event[e].pc # "new" /\ UNCHANGED <<now, request, list, before>>
          /\ \A d \in Events : /\ event'[d].created = event[d].created
                               /\ event'[d].resource = event[d].resource
                               /\ event'[d].pc # "new" <=> event[d].pc # "new"
          /\ stored \subseteq stored' /\ stored' \subseteq stored \cup {e}
          /\ event' \in [Events -> Column]
      BY <1>0, <1>4 DEF InsertAuditEvent, vars, Column, PC
    <2>2. AuditTypeOK'
      BY <1>0, <2>1 DEF AuditTypeOK, Column
    <2>3. Stamped' /\ StampsFollow'
      BY <1>0, <2>1 DEF Stamped, StampsFollow
    <2>4. PagesLatest'
      BY <1>0, <2>1 DEF PagesLatest, About
    <2>5. Permitted'
      BY <2>1 DEF Permitted, Answered
    <2> QED BY <2>2, <2>3, <2>4, <2>5
  <1>5. ASSUME NEW q \in Requests, ListAuditEvents(q)
        PROVE  AuditTypeOK' /\ Stamped' /\ StampsFollow' /\ PagesLatest' /\ Permitted'
    <2>1. /\ UNCHANGED <<now, request, event, stored, before>> /\ Listing(q)
          /\ \A p \in Requests \ {q} : list'[p] = list[p]
      BY <1>0, <1>5 DEF ListAuditEvents, vars
    <2>2. Stamped' /\ StampsFollow' /\ Permitted'
      BY <2>1 DEF Stamped, StampsFollow, Permitted, Listing, Answered
    <2>3. ASSUME list'[q] \in ListType, list' \in [Requests -> ListType],
                 list'[q].pc = "done" =>
                   /\ Cardinality(list'[q].items) <= list'[q].limit /\ list'[q].limit > 0
                   /\ list'[q].items \subseteq list'[q].table /\ list'[q].table \subseteq stored
                   /\ \A d \in list'[q].items, e \in list'[q].table \ list'[q].items :
                        list'[q].resource = AnyResource \/ event[e].resource = list'[q].resource
                          => event[d].created >= event[e].created
          PROVE  AuditTypeOK' /\ PagesLatest'
      <3>1. AuditTypeOK'
        BY <2>1, <2>3 DEF AuditTypeOK, ListType
      <3>2. PagesLatest'
        BY <2>1, <2>3 DEF PagesLatest, About
      <3> QED BY <3>1, <3>2
    <2>4. CASE list' = [list EXCEPT ![q].pc = "failed"]
      <3>1. list'[q] = [list[q] EXCEPT !.pc = "failed"] /\ list[q] \in ListType
        BY <1>0, <2>4
      <3>2. list'[q] \in ListType /\ list'[q].pc = "failed"
        BY <3>1 DEF ListType
      <3>3. list' \in [Requests -> ListType]
        BY <1>0, <2>4, <3>1, <3>2
      <3>4. list'[q].pc # "done"
        BY <3>2
      <3> QED BY <2>2, <2>3, <3>2, <3>3, <3>4
    <2>5. ASSUME NEW resource \in Resources \cup {AnyResource}, NEW limit \in Limits,
                 NEW page \in Pages(Matching(resource), Clamped(limit)),
                 list' = [list EXCEPT ![q] = [pc |-> "done", resource |-> resource,
                                              limit |-> Clamped(limit), items |-> page,
                                              table |-> stored]]
          PROVE  AuditTypeOK' /\ PagesLatest'
      <3>1. Matching(resource) \in SUBSET Events
        BY <1>0 DEF Matching
      <3>2. Clamped(limit) \in 1 .. MaxLimit /\ Cardinality(page) <= Clamped(limit)
        BY <3>1, PageFits
      <3>3. page \subseteq Matching(resource) /\ page \subseteq stored
        BY DEF Pages, Matching
      <3>4. list'[q] = [pc |-> "done", resource |-> resource, limit |-> Clamped(limit),
                        items |-> page, table |-> stored]
        BY <1>0, <2>5
      <3>5. list'[q] \in ListType /\ list' \in [Requests -> ListType]
        BY <1>0, <2>5, <3>2, <3>3, <3>4 DEF ListType
      <3>6. \A d \in page, e \in stored \ page :
              resource = AnyResource \/ event[e].resource = resource => event[d].created >= event[e].created
        BY DEF Pages, Matching
      <3> QED BY <2>3, <3>2, <3>3, <3>4, <3>5, <3>6
    <2> QED BY <1>5, <2>2, <2>4, <2>5 DEF ListAuditEvents
  <1> QED BY <1>1, <1>2, <1>3, <1>4, <1>5 DEF AuditNext, Next

(* A behaviour of the whole is one of Access, so what is proved of Access     *)
(* holds here.                                                               *)
THEOREM AuditSpecKeepsAccess == AuditSpec => Spec
  <1>1. AuditInit => Init
    BY DEF AuditInit
  <1>2. [AuditNext]_<<vars, trail>> => [Next]_vars
    BY DEF AuditNext, Next, RestartCutsListings, AuditEvent, InsertAuditEvent, ListAuditEvents
  <1> QED BY <1>1, <1>2, PTL DEF AuditSpec, Spec

(* Every listing is within its limit, misses nothing that follows what it    *)
(* shows, but for equal times and for what a fast clock stamped, and is      *)
(* shown only to who asked for a token as platform-admin, in its lifetime.   *)
THEOREM ListingsAreSound == AuditSpec => []ListingsSound
  <1>1. TrailInductive => AuditTypeOK /\ PageHasWhatFollows
    <2> SUFFICES ASSUME TrailInductive PROVE PageHasWhatFollows
      BY DEF TrailInductive
    <2> SUFFICES ASSUME NEW q \in Requests, list[q].pc = "done",
                        NEW d \in list[q].items, NEW e \in list[q].table \ list[q].items,
                        d \in before[e], About(q, e)
                 PROVE  event[d].created = event[e].created \/ (d \in Fast /\ e \notin Fast)
      BY DEF PageHasWhatFollows
    <2>1. d \in Events /\ e \in Events /\ event[d].created \in Int /\ event[e].created \in Int
      BY DEF TrailInductive, AuditTypeOK
    <2>2. event[d].created >= event[e].created
      BY DEF TrailInductive, PagesLatest
    <2>3. event[d].created <= event[e].created \/ (d \in Fast /\ e \notin Fast)
      BY <2>1 DEF TrailInductive, StampsFollow
    <2> QED BY <2>1, <2>2, <2>3
  <1>2. TrailInductive /\ HandledAsAsked /\ LifetimeKept => PageForAdministrator
    BY DEF TrailInductive, Permitted, HandledAsAsked, LifetimeKept, PageForAdministrator, Admitted
  <1>3. TrailInductive /\ HandledAsAsked /\ LifetimeKept => ListingsSound
    BY <1>1, <1>2 DEF ListingsSound
  <1> QED
    BY <1>3, AuditInitInductive, AuditNextInductive, AuditSpecKeepsAccess, AccessInductive,
       RequestsAreHandledAsAsked, LifetimeIsKept, PTL DEF AuditSpec
=============================================================================
