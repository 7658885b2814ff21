-------------------------- MODULE TaskLaunch_proofs --------------------------
(* Proofs about TaskLaunch, for every set of launches, sessions and reads and *)
(* every choice of the time constants.                                        *)
EXTENDS TaskLaunch, TLAPS

\* A read in flight holds a row of a launch that exists, created when it was.
RequestsKnown ==
    \A q \in Requests : request[q] # Idle =>
        /\ request[q].launch \in Launches
        /\ launch[request[q].launch].status # "absent"
        /\ request[q].row.created_at = launch[request[q].launch].created_at

\* A link in flight is about a launch that exists.
LinksKnown ==
    \A s \in Sessions : link[s] # NoLaunch => launch[link[s]].status # "absent"

TInv == TypeOK /\ RequestsKnown /\ LinksKnown

SessionRows ==
    [Sessions -> [state : {"none", "open", "ending", "ended"}, activity : Nat]]

USE NoLaunchAssumption, NoSessionAssumption, TimeAssumption

LEMMA InitTInv == Init => TInv
<1> SUFFICES ASSUME Init PROVE TInv
  OBVIOUS
<1> USE DEF Init
<1>1. NoRow \in Row
  BY DEF NoRow, Row, Statuses
<1>2. Idle \in [launch : Launches \cup {NoLaunch}, row : Row]
  BY <1>1 DEF Idle
<1>3. TypeOK
  BY <1>1, <1>2 DEF TypeOK
<1>4. RequestsKnown /\ LinksKnown
  BY DEF RequestsKnown, LinksKnown
<1> QED BY <1>3, <1>4 DEF TInv

LEMMA ExpiredRow ==
  ASSUME NEW c \in Row, NEW r \in Row
  PROVE  /\ Expired(c, r) \in Row
         /\ Expired(c, r).status = "expired"
         /\ Expired(c, r).created_at = c.created_at
<1>1. "expired" \in Statuses
  BY DEF Statuses, TERMINAL_STATUSES
<1>2. r.version + 1 \in Nat
  BY DEF Row
<1> QED BY <1>1, <1>2 DEF Expired, Row

LEMMA ProlongedRow ==
  ASSUME NEW c \in Row, NEW r \in Row, now \in Nat
  PROVE  /\ ProlongedTo(r) \in Nat
         /\ [c EXCEPT !.expires_at = ProlongedTo(r)] \in Row
<1>1. ProlongedTo(r) \in Nat
  BY DEF ProlongedTo, Earliest, HardDeadline, Row
<1> QED BY <1>1 DEF Row

-----------------------------------------------------------------------------
(* What any step may do to the rows: at most one row changes, and either it  *)
(* is inserted or it is updated.                                             *)

\* d is a newly inserted row: a first attempt, or the retry of a closed one.
InsertedRow(d) ==
    /\ d.status = "requested"
    /\ d.version = 1
    /\ \/ d.retry_of = NoLaunch
       \/ \E p \in Launches : /\ Terminal(p)
                               /\ ~Retried(p)
                               /\ d.retry_of = p
                               /\ d.attempt = launch[p].attempt + 1

\* d is what an update may make of the existing row c.
UpdatedRow(c, d) ==
    /\ d.created_at = c.created_at
    /\ d.attempt = c.attempt
    /\ d.retry_of = c.retry_of
    /\ d.expires_at = c.expires_at \/ d.expires_at <= HardDeadline(c)
    /\ \/ d.status = c.status /\ d.version = c.version
       \/ <<c.status, d.status>> \in ALLOWED_TRANSITIONS /\ d.version = c.version + 1
       \/ d.status = "expired"

RowChange(l, d) ==
    /\ launch' = [launch EXCEPT ![l] = d]
    /\ IF launch[l].status = "absent" THEN InsertedRow(d) ELSE UpdatedRow(launch[l], d)

SomeRowChange == \E l \in Launches, d \in Row : RowChange(l, d)

LEMMA NewRowChange ==
  ASSUME TInv, NEW l \in Launches, NEW began \in 0..now, NEW ttl \in Ttls, NEW a \in Nat,
         NEW p \in Launches \cup {NoLaunch},
         launch[l].status = "absent",
         p = NoLaunch \/ (Terminal(p) /\ ~Retried(p) /\ a = launch[p].attempt + 1),
         launch' = [launch EXCEPT ![l] = NewRow(began, ttl, a, p)]
  PROVE  SomeRowChange
<1> DEFINE d == NewRow(began, ttl, a, p)
<1>1. now \in Nat /\ began \in Nat /\ ttl \in Nat
  BY DEF TInv, TypeOK
<1>2. d \in Row
  BY <1>1 DEF NewRow, Row, Statuses, LiveStatuses
<1>3. InsertedRow(d)
  BY DEF NewRow, InsertedRow
<1> QED BY <1>2, <1>3 DEF SomeRowChange, RowChange

LEMMA SettleRowChange ==
  ASSUME TInv, NEW l \in Launches, NEW r \in Row, ExpireIfOverdue(l, r),
         launch[l].status # "absent", r.created_at = launch[l].created_at
  PROVE  UNCHANGED launch \/ SomeRowChange
<1> USE DEF TInv, TypeOK
<1>1. CASE Expire(l, r)
  <2>1. Expired(launch[l], r) \in Row
    BY ExpiredRow
  <2>2. UpdatedRow(launch[l], Expired(launch[l], r))
    BY DEF UpdatedRow, Expired, Row
  <2>3. launch' = [launch EXCEPT ![l] = Expired(launch[l], r)]
    BY <1>1 DEF Expire
  <2> QED BY <2>1, <2>2, <2>3 DEF SomeRowChange, RowChange
<1>2. CASE Prolong(l, r)
  <2> DEFINE d == [launch[l] EXCEPT !.expires_at = ProlongedTo(r)]
  <2>1. d \in Row
    BY ProlongedRow
  <2>2. ProlongedTo(r) <= HardDeadline(launch[l])
    BY DEF ProlongedTo, Earliest, HardDeadline, Row
  <2>3. UpdatedRow(launch[l], d)
    BY <2>2 DEF UpdatedRow, Row
  <2>4. launch' = [launch EXCEPT ![l] = d]
    BY <1>2 DEF Prolong
  <2> QED BY <2>1, <2>3, <2>4 DEF SomeRowChange, RowChange
<1> QED BY <1>1, <1>2 DEF ExpireIfOverdue

LEMMA SettledRow ==
  ASSUME TInv, NEW c \in Row
  PROVE  /\ Settled(c) \in Row
         /\ Settled(c).status = c.status /\ Settled(c).version = c.version
         /\ UpdatedRow(c, Settled(c))
<1>1. now \in Nat
  BY DEF TInv, TypeOK
<1>2. ProlongedTo(c) \in Nat /\ ProlongedTo(c) <= HardDeadline(c)
  BY <1>1 DEF ProlongedTo, Earliest, HardDeadline, Row
<1>3. [c EXCEPT !.expires_at = ProlongedTo(c)] \in Row
  BY <1>2 DEF Row
<1>4. CASE Overdue(c)
  BY <1>2, <1>3, <1>4 DEF Settled, UpdatedRow, Row
<1>5. CASE ~Overdue(c)
  BY <1>5 DEF Settled, UpdatedRow, Row
<1> QED BY <1>4, <1>5

\* The row b moved to a status, one version on.
Moved(b, st, s) ==
    [b EXCEPT !.status = st, !.version = b.version + 1, !.session_id = s]

LEMMA MovedRow ==
  ASSUME NEW b \in Row, NEW st \in Statuses, NEW s \in Sessions \cup {NoSession}
  PROVE  /\ Moved(b, st, s) \in Row
         /\ Moved(b, st, s).status = st /\ Moved(b, st, s).version = b.version + 1
         /\ Moved(b, st, s).created_at = b.created_at
         /\ Moved(b, st, s).attempt = b.attempt
         /\ Moved(b, st, s).retry_of = b.retry_of
         /\ Moved(b, st, s).expires_at = b.expires_at
<1>1. b.version + 1 \in Nat
  BY DEF Row
<1> QED BY <1>1 DEF Row, Moved

LEMMA ReportedRow ==
  ASSUME TInv, NEW c \in Row, NEW target \in Statuses,
         NEW s \in Sessions \cup {NoSession},
         <<c.status, target>> \in ALLOWED_TRANSITIONS
  PROVE  /\ Reported(c, target, s) \in Row
         /\ UpdatedRow(c, Reported(c, target, s))
<1>1. PICK b \in Row : b = Settled(c) /\ UpdatedRow(c, b) /\ b.version = c.version
  BY SettledRow
<1>2. PICK t \in Sessions \cup {NoSession} :
         t = IF s = NoSession THEN b.session_id ELSE s
  BY <1>1 DEF Row
<1>3. Reported(c, target, s) = Moved(b, target, t)
  BY <1>1, <1>2 DEF Reported, Moved
<1>4. Moved(b, target, t) \in Row
  BY MovedRow
<1>5. UpdatedRow(c, Moved(b, target, t))
  BY <1>1, MovedRow DEF UpdatedRow
<1> QED BY <1>3, <1>4, <1>5

LEMMA CancelledRow ==
  ASSUME TInv, NEW c \in Row, <<c.status, "cancelled">> \in ALLOWED_TRANSITIONS
  PROVE  /\ Cancelled(c) \in Row
         /\ UpdatedRow(c, Cancelled(c))
<1>1. PICK b \in Row : b = Settled(c) /\ UpdatedRow(c, b) /\ b.version = c.version
  BY SettledRow
<1>2. b.session_id \in Sessions \cup {NoSession} /\ "cancelled" \in Statuses
  BY DEF Row, Statuses, TERMINAL_STATUSES
<1>3. Cancelled(c) = Moved(b, "cancelled", b.session_id)
  BY <1>1 DEF Cancelled, Moved, Row
<1>4. Moved(b, "cancelled", b.session_id) \in Row
  BY <1>2, MovedRow
<1>5. UpdatedRow(c, Moved(b, "cancelled", b.session_id))
  BY <1>1, <1>2, MovedRow DEF UpdatedRow
<1> QED BY <1>3, <1>4, <1>5

LEMMA StepChangesOneRow ==
  ASSUME TInv, [Next]_vars
  PROVE  UNCHANGED launch \/ SomeRowChange
<1> USE DEF TInv
<1>1. ASSUME NEW l \in Launches, NEW began \in 0..now, NEW ttl \in Ttls,
             CreateLaunch(l, began, ttl)
      PROVE  SomeRowChange
  BY <1>1, NewRowChange DEF CreateLaunch
<1>2. ASSUME NEW l \in Launches, LockedExpiry(l)
      PROVE  UNCHANGED launch \/ SomeRowChange
  <2>1. launch[l] \in Row /\ launch[l].status # "absent"
    BY <1>2 DEF LockedExpiry, Overdue, LiveStatuses, TypeOK
  <2>2. ExpireIfOverdue(l, launch[l])
    BY <1>2 DEF LockedExpiry
  <2> QED BY <2>1, <2>2, SettleRowChange
<1>3. ASSUME NEW l \in Launches, NEW target \in Statuses,
             NEW s \in Sessions \cup {NoSession}, ReportLaunch(l, target, s)
      PROVE  SomeRowChange
  <2>1. launch[l] \in Row
    BY DEF TypeOK
  <2>2. <<launch[l].status, target>> \in ALLOWED_TRANSITIONS
    BY <1>3 DEF ReportLaunch, ALLOWED_TRANSITIONS
  <2>3. launch[l].status # "absent"
    BY <1>3 DEF ReportLaunch, MachineTransitions
  <2>4. /\ Reported(launch[l], target, s) \in Row
        /\ UpdatedRow(launch[l], Reported(launch[l], target, s))
    BY <2>1, <2>2, ReportedRow
  <2>5. launch' = [launch EXCEPT ![l] = Reported(launch[l], target, s)]
    BY <1>3 DEF ReportLaunch
  <2> QED BY <2>3, <2>4, <2>5 DEF SomeRowChange, RowChange
<1>4. ASSUME NEW l \in Launches, CancelLaunch(l)
      PROVE  SomeRowChange
  <2>1. launch[l] \in Row
    BY DEF TypeOK
  <2>2. <<launch[l].status, "cancelled">> \in ALLOWED_TRANSITIONS
    BY <1>4 DEF CancelLaunch
  <2>3. launch[l].status # "absent"
    BY <2>2 DEF ALLOWED_TRANSITIONS, MachineTransitions, LiveStatuses
  <2>4. /\ Cancelled(launch[l]) \in Row
        /\ UpdatedRow(launch[l], Cancelled(launch[l]))
    BY <2>1, <2>2, CancelledRow
  <2>5. launch' = [launch EXCEPT ![l] = Cancelled(launch[l])]
    BY <1>4 DEF CancelLaunch
  <2> QED BY <2>3, <2>4, <2>5 DEF SomeRowChange, RowChange
<1>5. ASSUME NEW l \in Launches, NEW n \in Launches, NEW began \in 0..now,
             NEW ttl \in Ttls, RetryLaunch(l, n, began, ttl)
      PROVE  SomeRowChange
  <2>1. launch[l].attempt + 1 \in Nat
    BY DEF TypeOK, Row
  <2> QED BY <1>5, <2>1, NewRowChange DEF RetryLaunch
<1>6. ASSUME NEW q \in Requests, SettleLaunch(q)
      PROVE  UNCHANGED launch \/ SomeRowChange
  <2>1. /\ request[q].launch \in Launches
        /\ launch[request[q].launch].status # "absent"
        /\ request[q].row.created_at = launch[request[q].launch].created_at
    BY <1>6 DEF SettleLaunch, RequestsKnown
  <2>2. request[q].row \in Row
    BY DEF TypeOK
  <2>3. ExpireIfOverdue(request[q].launch, request[q].row)
    BY <1>6 DEF SettleLaunch
  <2> QED BY <2>1, <2>2, <2>3, SettleRowChange
<1>7. ASSUME NEW s \in Sessions, CommitLink(s)
      PROVE  SomeRowChange
  <2> DEFINE l == link[s]
             d == [launch[l] EXCEPT !.session_id = s]
  <2>1. l \in Launches /\ launch[l] \in Row /\ launch[l].status # "absent"
    BY <1>7 DEF CommitLink, LinksKnown, TypeOK
  <2>2. d \in Row /\ UpdatedRow(launch[l], d)
    BY <2>1 DEF UpdatedRow, Row
  <2>3. launch' = [launch EXCEPT ![l] = d]
    BY <1>7 DEF CommitLink
  <2> QED BY <2>1, <2>2, <2>3 DEF SomeRowChange, RowChange
<1>8. (\E q \in Requests, l \in Launches : LoadLaunch(q, l)) => UNCHANGED launch
  BY DEF LoadLaunch
<1>9. (\/ \E s \in Sessions, superseded \in SUBSET Sessions : StartSession(s, superseded)
       \/ \E s \in Sessions : TouchSession(s) \/ ReleaseForEnd(s) \/ EndSession(s))
        => UNCHANGED launch
  BY DEF StartSession, TouchSession, ReleaseForEnd, EndSession
<1>10. (\E s \in Sessions, l \in Launches : LoadLink(s, l)) => UNCHANGED launch
  BY DEF LoadLink
<1>11. ClaimResource \/ Tick \/ UNCHANGED vars => UNCHANGED launch
  BY DEF ClaimResource, Tick, vars
<1> QED
  BY <1>1, <1>2, <1>3, <1>4, <1>5, <1>6, <1>7, <1>8, <1>9, <1>10, <1>11 DEF Next

\* Rows stay typed, launches stay, and nothing changes when one was created.
LEMMA RowsAfter ==
  ASSUME TInv, UNCHANGED launch \/ SomeRowChange
  PROVE  /\ launch' \in [Launches -> Row]
         /\ \A m \in Launches : launch[m].status # "absent" =>
              /\ launch'[m].status # "absent"
              /\ launch'[m].created_at = launch[m].created_at
<1> USE DEF TInv, TypeOK
<1>1. CASE UNCHANGED launch
  BY <1>1
<1>2. CASE SomeRowChange
  <2>1. PICK l \in Launches, d \in Row : RowChange(l, d)
    BY <1>2 DEF SomeRowChange
  <2>2. launch' = [launch EXCEPT ![l] = d]
    BY <2>1 DEF RowChange
  <2>3. launch[l].status # "absent" =>
           d.status # "absent" /\ d.created_at = launch[l].created_at
    BY <2>1 DEF RowChange, UpdatedRow, ALLOWED_TRANSITIONS, MachineTransitions,
                LiveStatuses
  <2> QED BY <2>2, <2>3
<1> QED BY <1>1, <1>2

\* What a step does besides: reads and links in flight come from rows loaded
\* in that step, and the other tables stay typed.
LEMMA StepOthers ==
  ASSUME TInv, [Next]_vars
  PROVE  /\ session' \in SessionRows
         /\ claims' \in {"active", "released"}
         /\ now' \in Nat
         /\ \/ UNCHANGED request
            \/ \E q \in Requests : request' = [request EXCEPT ![q] = Idle]
            \/ \E q \in Requests, l \in Launches :
                 /\ launch[l].status # "absent"
                 /\ request' = [request EXCEPT ![q] = [launch |-> l, row |-> launch[l]]]
         /\ \/ UNCHANGED link
            \/ \E s \in Sessions : link' = [link EXCEPT ![s] = NoLaunch]
            \/ \E s \in Sessions, l \in Launches :
                 launch[l].status # "absent" /\ link' = [link EXCEPT ![s] = l]
<1> USE DEF TInv, TypeOK
<1>1. ASSUME NEW l \in Launches, NEW r, ExpireIfOverdue(l, r)
      PROVE  /\ session' \in SessionRows
             /\ claims' \in {"active", "released"}
  <2>1. CASE Expire(l, r)
    BY <2>1 DEF Expire, CloseSession, Ended, SessionRows
  <2>2. CASE UNCHANGED <<session, claims>>
    BY <2>2 DEF SessionRows
  <2> QED BY <1>1, <2>1, <2>2 DEF ExpireIfOverdue, Prolong
<1>2. CASE \E l \in Launches, began \in 0..now, ttl \in Ttls : CreateLaunch(l, began, ttl)
  BY <1>2 DEF CreateLaunch, SessionRows
<1>3. ASSUME NEW l \in Launches, LockedExpiry(l)
      PROVE  /\ UNCHANGED <<request, link, now>>
             /\ session' \in SessionRows
             /\ claims' \in {"active", "released"}
  <2>1. ExpireIfOverdue(l, launch[l]) /\ UNCHANGED <<request, link, now>>
    BY <1>3 DEF LockedExpiry
  <2> QED BY <2>1, <1>1
<1>4. CASE \E l \in Launches, t \in Statuses, s \in Sessions \cup {NoSession} :
             ReportLaunch(l, t, s)
  BY <1>4 DEF ReportLaunch, SessionRows
<1>5. CASE \E l \in Launches : CancelLaunch(l)
  BY <1>5 DEF CancelLaunch, SessionRows
<1>6. CASE \E l, n \in Launches, began \in 0..now, ttl \in Ttls :
             RetryLaunch(l, n, began, ttl)
  BY <1>6 DEF RetryLaunch, SessionRows
<1>7. ASSUME NEW q \in Requests, NEW l \in Launches, LoadLaunch(q, l)
      PROVE  /\ launch[l].status # "absent"
             /\ request' = [request EXCEPT ![q] = [launch |-> l, row |-> launch[l]]]
             /\ UNCHANGED <<session, claims, link, now>>
  BY <1>7 DEF LoadLaunch, Live, LiveStatuses
<1>8. ASSUME NEW q \in Requests, SettleLaunch(q)
      PROVE  /\ request' = [request EXCEPT ![q] = Idle]
             /\ UNCHANGED <<link, now>>
             /\ session' \in SessionRows
             /\ claims' \in {"active", "released"}
  <2>1. request[q].launch \in Launches
    BY <1>8 DEF SettleLaunch, RequestsKnown
  <2>2. ExpireIfOverdue(request[q].launch, request[q].row)
    BY <1>8 DEF SettleLaunch
  <2>3. request' = [request EXCEPT ![q] = Idle] /\ UNCHANGED <<link, now>>
    BY <1>8 DEF SettleLaunch
  <2> QED BY <2>1, <2>2, <2>3, <1>1
<1>9. ASSUME \/ \E s \in Sessions, superseded \in SUBSET Sessions :
                   StartSession(s, superseded)
             \/ \E s \in Sessions : TouchSession(s) \/ ReleaseForEnd(s) \/ EndSession(s)
      PROVE  /\ session' \in SessionRows
             /\ claims' \in {"active", "released"}
             /\ UNCHANGED <<request, link, now>>
  <2>1. CASE \E s \in Sessions, superseded \in SUBSET Sessions :
                StartSession(s, superseded)
    BY <2>1 DEF StartSession, Ended, SessionRows
  <2>2. CASE \E s \in Sessions : TouchSession(s)
    BY <2>2 DEF TouchSession, SessionRows
  <2>3. CASE \E s \in Sessions : ReleaseForEnd(s)
    <3>1. PICK s \in Sessions, state \in {"none", "open", "ending", "ended"} :
             /\ session' = [session EXCEPT ![s].state = state]
             /\ claims' = "released"
             /\ UNCHANGED <<request, link, now>>
      BY <2>3 DEF ReleaseForEnd
    <3> QED BY <3>1 DEF SessionRows
  <2>4. CASE \E s \in Sessions : EndSession(s)
    BY <2>4 DEF EndSession, Ended, SessionRows
  <2> QED BY <1>9, <2>1, <2>2, <2>3, <2>4
<1>10. CASE ClaimResource \/ Tick \/ UNCHANGED vars
  BY <1>10 DEF ClaimResource, Tick, vars, SessionRows
<1>11. ASSUME NEW s \in Sessions, NEW l \in Launches, LoadLink(s, l)
       PROVE  /\ launch[l].status # "absent"
              /\ link' = [link EXCEPT ![s] = l]
              /\ UNCHANGED <<session, claims, request, now>>
  BY <1>11 DEF LoadLink, LinkableStatuses
<1>12. ASSUME NEW s \in Sessions, CommitLink(s)
       PROVE  /\ link' = [link EXCEPT ![s] = NoLaunch]
              /\ UNCHANGED <<session, claims, request, now>>
  BY <1>12 DEF CommitLink
<1>13. session \in SessionRows
  BY DEF SessionRows
<1> QED
  BY <1>13, <1>2, <1>3, <1>4, <1>5, <1>6, <1>7, <1>8, <1>9, <1>10, <1>11, <1>12 DEF Next

LEMMA StepTInv == TInv /\ [Next]_vars => TInv'
<1> SUFFICES ASSUME TInv, [Next]_vars PROVE TInv'
  OBVIOUS
<1>1. /\ launch' \in [Launches -> Row]
      /\ \A m \in Launches : launch[m].status # "absent" =>
           /\ launch'[m].status # "absent"
           /\ launch'[m].created_at = launch[m].created_at
  BY StepChangesOneRow, RowsAfter
<1> USE DEF TInv, TypeOK
<1>2. /\ request' \in [Requests -> [launch : Launches \cup {NoLaunch}, row : Row]]
      /\ RequestsKnown'
  <2>1. CASE UNCHANGED request
    BY <1>1, <2>1 DEF RequestsKnown
  <2>2. ASSUME NEW q \in Requests, request' = [request EXCEPT ![q] = Idle]
        PROVE  <1>2!1 /\ <1>2!2
    <3>1. Idle \in [launch : Launches \cup {NoLaunch}, row : Row]
      BY DEF Idle, NoRow, Row, Statuses
    <3> QED BY <1>1, <2>2, <3>1 DEF RequestsKnown
  <2>3. ASSUME NEW q \in Requests, NEW l \in Launches, launch[l].status # "absent",
               request' = [request EXCEPT ![q] = [launch |-> l, row |-> launch[l]]]
        PROVE  <1>2!1 /\ <1>2!2
    BY <1>1, <2>3 DEF RequestsKnown
  <2> QED BY <2>1, <2>2, <2>3, StepOthers
<1>3. link' \in [Sessions -> Launches \cup {NoLaunch}] /\ LinksKnown'
  BY <1>1, StepOthers DEF LinksKnown
<1>4. TypeOK'
  BY <1>1, <1>2, <1>3, StepOthers DEF SessionRows
<1> QED BY <1>2, <1>3, <1>4

LEMMA AlwaysTInv == Spec => []TInv
<1>1. Init => TInv
  BY InitTInv
<1>2. TInv /\ [Next]_vars => TInv'
  BY StepTInv
<1> QED BY <1>1, <1>2, PTL DEF Spec

\* Every row, in-flight read and link stays well formed.
THEOREM TypeCorrect == Spec => []TypeOK
<1>1. TInv => TypeOK
  BY DEF TInv
<1> QED BY <1>1, AlwaysTInv, PTL

-----------------------------------------------------------------------------
\* A step as every launch sees it: it keeps its row, is inserted or is updated.
LEMMA StepPerLaunch ==
  ASSUME TInv, [Next]_vars, NEW m \in Launches
  PROVE  \/ launch'[m] = launch[m]
         \/ launch[m].status = "absent" /\ InsertedRow(launch'[m])
         \/ launch[m].status # "absent" /\ UpdatedRow(launch[m], launch'[m])
<1>1. CASE UNCHANGED launch
  BY <1>1
<1>2. CASE SomeRowChange
  <2>1. PICK l \in Launches, d \in Row : RowChange(l, d)
    BY <1>2 DEF SomeRowChange
  <2>2. launch'[m] = IF m = l THEN d ELSE launch[m]
    BY <2>1 DEF RowChange, TInv, TypeOK
  <2> QED BY <2>1, <2>2 DEF RowChange
<1> QED BY <1>1, <1>2, StepChangesOneRow

\* The version of a live launch always names its status: the chain of reports
\* the machine computes its expected_version from.
THEOREM LiveVersion == Spec => []LiveVersionNamesStatus
<1>1. Init => LiveVersionNamesStatus
  BY DEF Init, LiveVersionNamesStatus, Live, NoRow, LiveStatuses
<1>2. LiveVersionNamesStatus /\ TInv /\ [Next]_vars => LiveVersionNamesStatus'
  <2> SUFFICES ASSUME LiveVersionNamesStatus, TInv, [Next]_vars,
                      NEW l \in Launches, Live(l)'
               PROVE  launch'[l].version = StatusVersion[launch'[l].status]
    BY DEF LiveVersionNamesStatus
  <2>1. CASE launch'[l] = launch[l]
    BY <2>1 DEF LiveVersionNamesStatus, Live
  <2>2. CASE InsertedRow(launch'[l])
    BY <2>2 DEF InsertedRow, StatusVersion
  <2>3. CASE UpdatedRow(launch[l], launch'[l])
    <3>1. CASE launch'[l].status = launch[l].status /\ launch'[l].version = launch[l].version
      BY <3>1 DEF LiveVersionNamesStatus, Live
    <3>2. CASE /\ <<launch[l].status, launch'[l].status>> \in ALLOWED_TRANSITIONS
               /\ launch'[l].version = launch[l].version + 1
      <4>1. <<launch[l].status, launch'[l].status>> \in
              {<<"requested", "accepted">>, <<"accepted", "preparing">>,
               <<"preparing", "running">>}
        BY <3>2 DEF ALLOWED_TRANSITIONS, MachineTransitions, Live, LiveStatuses
      <4>2. launch[l].version = StatusVersion[launch[l].status]
        BY <4>1 DEF LiveVersionNamesStatus, Live, LiveStatuses
      <4> QED BY <3>2, <4>1, <4>2 DEF StatusVersion
    <3>3. launch'[l].status # "expired"
      BY DEF Live, LiveStatuses
    <3> QED BY <2>3, <3>1, <3>2, <3>3 DEF UpdatedRow
  <2> QED BY <2>1, <2>2, <2>3, StepPerLaunch
<1> QED BY <1>1, <1>2, AlwaysTInv, PTL DEF Spec

\* No prolongation, however late, moves an expiry past the hard deadline.
THEOREM Prolongation == Spec => ProlongationBounded
<1>1. TInv /\ [Next]_vars => [\A l \in Launches :
         launch'[l].expires_at # launch[l].expires_at /\ launch[l].status # "absent"
            => launch'[l].expires_at <= HardDeadline(launch[l])]_vars
  BY StepPerLaunch DEF UpdatedRow
<1> QED BY <1>1, AlwaysTInv, PTL DEF Spec, ProlongationBounded

-----------------------------------------------------------------------------
\* expire_launch_if_overdue is what writes "expired", for the row r it is given.
LEMMA ExpiryFrom ==
  ASSUME TInv, NEW k \in Launches, NEW r \in Row, ExpireIfOverdue(k, r),
         NEW l \in Launches, NewlyExpired(l)
  PROVE  l = k /\ ~Prolongable(r) /\ Expire(l, r)
<1>1. launch \in [Launches -> Row]
  BY DEF TInv, TypeOK
<1>2. launch'[l].status # launch[l].status
  BY DEF NewlyExpired
<1>3. ~Prolong(k, r)
  <2> SUFFICES ASSUME Prolong(k, r) PROVE FALSE
    OBVIOUS
  <2>1. launch[k] \in Row /\ launch' = [launch EXCEPT ![k].expires_at = ProlongedTo(r)]
    BY <1>1 DEF Prolong
  <2>2. launch'[l].status = launch[l].status
    BY <1>1, <2>1 DEF Row
  <2> QED BY <1>2, <2>2
<1>4. Expire(k, r) /\ ~Prolongable(r)
  BY <1>2, <1>3 DEF ExpireIfOverdue
<1>5. l = k
  BY <1>1, <1>2, <1>4 DEF Expire
<1> QED BY <1>4, <1>5

\* An expiry comes from the row itself, under its lock, or from the row as a
\* read has loaded it.
LEMMA ExpiredByRead ==
  ASSUME TInv, [Next]_vars, NEW l \in Launches, NewlyExpired(l)
  PROVE  \E r \in Row :
           /\ Expire(l, r) /\ ~Prolongable(r)
           /\ r.created_at = launch[l].created_at
           /\ \/ r = launch[l]
              \/ \E q \in Requests :
                   request[q].launch = l /\ request'[q] = Idle /\ request[q].row = r
<1>1. launch \in [Launches -> Row] /\ launch'[l] # launch[l] /\ launch'[l].status = "expired"
  BY DEF TInv, TypeOK, NewlyExpired
<1>2. ASSUME NEW k \in Launches, LockedExpiry(k)
      PROVE  l = k /\ Expire(l, launch[l]) /\ ~Prolongable(launch[l])
  BY <1>1, <1>2, ExpiryFrom DEF LockedExpiry
<1>3. ASSUME NEW q \in Requests, SettleLaunch(q)
      PROVE  /\ request[q].launch = l /\ request'[q] = Idle /\ request[q].row \in Row
             /\ Expire(l, request[q].row) /\ ~Prolongable(request[q].row)
             /\ request[q].row.created_at = launch[l].created_at
  <2>1. /\ request[q].launch \in Launches /\ request[q].row \in Row
        /\ request[q].row.created_at = launch[request[q].launch].created_at
        /\ request'[q] = Idle
    BY <1>3 DEF SettleLaunch, TInv, TypeOK, RequestsKnown
  <2>2. request[q].launch = l /\ Expire(l, request[q].row) /\ ~Prolongable(request[q].row)
    BY <1>3, <2>1, ExpiryFrom DEF SettleLaunch
  <2> QED BY <2>1, <2>2
<1>4. ASSUME NEW k \in Launches, NEW began \in 0..now, NEW ttl \in Ttls,
             CreateLaunch(k, began, ttl) \/ \E n \in Launches : RetryLaunch(n, k, began, ttl)
      PROVE  FALSE
  BY <1>1, <1>4 DEF CreateLaunch, RetryLaunch, NewRow
<1>5. ASSUME NEW k \in Launches, NEW target \in Statuses, NEW s \in Sessions \cup {NoSession},
             ReportLaunch(k, target, s)
      PROVE  FALSE
  <2>1. target # "expired" /\ launch[k] \in Row
    BY <1>1, <1>5 DEF ReportLaunch, MachineTransitions
  <2>2. Reported(launch[k], target, s).status = target
    BY <2>1, ReportedRow, SettledRow DEF Reported, Row
  <2> QED BY <1>1, <1>5, <2>1, <2>2 DEF ReportLaunch
<1>6. ASSUME NEW k \in Launches, CancelLaunch(k) PROVE FALSE
  <2>1. Cancelled(launch[k]).status = "cancelled"
    BY <1>1, SettledRow DEF Cancelled, Row
  <2> QED BY <1>1, <1>6, <2>1 DEF CancelLaunch
<1>7. ASSUME NEW s \in Sessions, CommitLink(s) PROVE FALSE
  <2>1. link[s] \in Launches
    BY <1>7 DEF CommitLink, TInv, TypeOK
  <2>2. launch'[l].status = launch[l].status
    BY <1>1, <1>7, <2>1 DEF CommitLink, Row
  <2> QED BY <2>2 DEF NewlyExpired
<1>8. launch' # launch
  BY <1>1
<1> QED
  BY <1>1, <1>2, <1>3, <1>4, <1>5, <1>6, <1>7, <1>8
     DEF Next, vars, LoadLaunch, StartSession, TouchSession, ReleaseForEnd, EndSession,
         LoadLink, ClaimResource, Tick

\* But for a read from before the session was linked, "expired" is written only
\* for a run that may not be prolonged, with its session closed and its claims
\* released.
THEOREM ExpiryIsWhole == Spec => ExpiryEndsTheRun
<1>1. ASSUME TInv, [Next]_vars, NEW l \in Launches, NewlyExpired(l), ~SettledBeforeLink(l)
      PROVE  /\ ~Prolongable(launch[l])
             /\ ~Open(launch[l].session_id)'
             /\ claims' = "released"
  <2>1. PICK r \in Row :
          /\ Expire(l, r) /\ ~Prolongable(r)
          /\ r.created_at = launch[l].created_at
          /\ \/ r = launch[l]
             \/ \E q \in Requests :
                  request[q].launch = l /\ request'[q] = Idle /\ request[q].row = r
    BY <1>1, ExpiredByRead
  <2>2. r.session_id = launch[l].session_id
    BY <1>1, <2>1 DEF SettledBeforeLink
  <2>3. ~Prolongable(launch[l])
    BY <2>1, <2>2 DEF Prolongable, HardDeadline
  <2>4. launch'[l].session_id = r.session_id
    BY <1>1, <2>1, <2>2 DEF Expire, Expired, TInv, TypeOK, Row
  <2>5. CloseSession(r.session_id) /\ claims' = "released"
    BY <2>1 DEF Expire
  <2>6. r.session_id \in Sessions => session'[r.session_id].state \notin {"open", "ending"}
    BY <2>5 DEF CloseSession, Open, Ended
  <2> QED BY <2>3, <2>4, <2>5, <2>6 DEF Open
<1>2. TInv /\ [Next]_vars =>
        [\A l \in Launches : NewlyExpired(l) /\ ~SettledBeforeLink(l) =>
           /\ ~Prolongable(launch[l])
           /\ ~Open(launch[l].session_id)'
           /\ claims' = "released"]_vars
  BY <1>1
<1> QED BY <1>2, AlwaysTInv, PTL DEF Spec, ExpiryEndsTheRun

-----------------------------------------------------------------------------
\* A launch that does not exist yet retries nothing.
AbsentRetriesNothing ==
    \A l \in Launches : launch[l].status = "absent" => launch[l].retry_of = NoLaunch

ChainInv == TInv /\ RetryChainSound /\ AbsentRetriesNothing

LEMMA TerminalStays ==
  ASSUME TInv, [Next]_vars, NEW l \in Launches, Terminal(l)
  PROVE  Terminal(l)' /\ launch'[l].attempt = launch[l].attempt
<1>1. launch[l].status # "absent" /\ launch[l].status \notin LiveStatuses
  BY DEF Terminal, TERMINAL_STATUSES, LiveStatuses
<1>2. CASE launch'[l] = launch[l]
  BY <1>2 DEF Terminal
<1>3. CASE UpdatedRow(launch[l], launch'[l])
  <2>1. \A st : <<launch[l].status, st>> \notin ALLOWED_TRANSITIONS
    BY <1>1 DEF ALLOWED_TRANSITIONS, MachineTransitions, LiveStatuses
  <2> QED BY <1>3, <2>1 DEF UpdatedRow, Terminal, TERMINAL_STATUSES
<1> QED BY <1>1, <1>2, <1>3, StepPerLaunch

LEMMA StepChainInv == ChainInv /\ [Next]_vars => ChainInv'
<1> SUFFICES ASSUME ChainInv, [Next]_vars PROVE ChainInv'
  OBVIOUS
<1> USE DEF ChainInv
<1>1. TInv'
  BY StepTInv
<1>2. AbsentRetriesNothing'
  <2> SUFFICES ASSUME NEW l \in Launches, launch'[l].status = "absent"
               PROVE  launch'[l].retry_of = NoLaunch
    BY DEF AbsentRetriesNothing
  <2>1. CASE launch'[l] = launch[l]
    BY <2>1 DEF AbsentRetriesNothing
  <2>2. CASE InsertedRow(launch'[l])
    BY <2>2 DEF InsertedRow
  <2>3. CASE launch[l].status # "absent"
    BY <2>3, StepChangesOneRow, RowsAfter
  <2> QED BY <2>1, <2>2, <2>3, StepPerLaunch
<1>3. RetryChainSound'
  <2>1. CASE UNCHANGED launch
    BY <2>1 DEF RetryChainSound, Terminal
  <2>2. ASSUME NEW k \in Launches, NEW d \in Row, RowChange(k, d)
        PROVE  RetryChainSound'
    <3>1. \A m \in Launches : launch'[m] = IF m = k THEN d ELSE launch[m]
      BY <2>2 DEF RowChange, TInv, TypeOK
    <3>2. \A l \in Launches : Terminal(l) =>
            Terminal(l)' /\ launch'[l].attempt = launch[l].attempt
      BY TerminalStays
    <3>3. CASE launch[k].status # "absent" \/ d.retry_of = NoLaunch
      <4>1. \A m \in Launches : launch'[m].retry_of = launch[m].retry_of
        BY <2>2, <3>1, <3>3 DEF RowChange, UpdatedRow, AbsentRetriesNothing
      <4>2. \A m \in Launches : launch[m].status # "absent" =>
              launch'[m].attempt = launch[m].attempt
        BY <2>2, <3>1 DEF RowChange, UpdatedRow
      <4>3. \A n, l \in Launches : launch[n].retry_of = l => launch[n].status # "absent"
        BY DEF AbsentRetriesNothing
      <4> QED BY <3>2, <4>1, <4>2, <4>3 DEF RetryChainSound
    <3>4. CASE launch[k].status = "absent" /\ d.retry_of # NoLaunch
      <4>1. PICK p \in Launches : /\ Terminal(p) /\ ~Retried(p)
                                 /\ d.retry_of = p
                                 /\ d.attempt = launch[p].attempt + 1
        BY <2>2, <3>4 DEF RowChange, InsertedRow
      <4>2. \A n \in Launches \ {k} : launch'[n] = launch[n] /\ launch[n].retry_of # p
        BY <3>1, <4>1 DEF Retried
      <4>3. launch'[k] = d
        BY <3>1
      <4> SUFFICES ASSUME NEW n \in Launches, NEW l \in Launches, launch'[n].retry_of = l
                   PROVE  /\ Terminal(l)'
                          /\ launch'[n].attempt = launch'[l].attempt + 1
                          /\ \A m \in Launches : launch'[m].retry_of = l => m = n
        BY DEF RetryChainSound
      <4>4. CASE n = k
        BY <4>1, <4>2, <4>3, <4>4, <3>2
      <4>5. CASE n # k
        BY <4>1, <4>2, <4>3, <4>5, <3>2 DEF RetryChainSound
      <4> QED BY <4>4, <4>5
    <3> QED BY <3>3, <3>4
  <2> QED BY <2>1, <2>2, StepChangesOneRow DEF SomeRowChange
<1> QED BY <1>1, <1>2, <1>3

LEMMA AlwaysChainInv == Spec => []ChainInv
<1>1. Init => ChainInv
  BY InitTInv DEF ChainInv, Init, RetryChainSound, AbsentRetriesNothing, NoRow
<1>2. ChainInv /\ [Next]_vars => ChainInv'
  BY StepChainInv
<1> QED BY <1>1, <1>2, PTL DEF Spec

\* A retried attempt is closed for good and was retried once.
THEOREM RetryChain == Spec => []RetryChainSound
<1>1. ChainInv => RetryChainSound
  BY DEF ChainInv
<1> QED BY <1>1, AlwaysChainInv, PTL

-----------------------------------------------------------------------------
(* The launch service implements the abstract chain of attempts.            *)

LEMMA PhaseOf ==
  ASSUME NEW l \in Launches
  PROVE  /\ Phase(l) = "live" <=> launch[l].status \in LiveStatuses
         /\ Phase(l) = "closed" <=> Terminal(l)
         /\ launch[l].status = "absent" => Phase(l) = "absent"
BY DEF Phase, Live, Terminal, LiveStatuses, TERMINAL_STATUSES

\* A retry of the service is a retry of the chain.
LEMMA InsertRefines ==
  ASSUME ChainInv, NEW k \in Launches, NEW d \in Row, RowChange(k, d),
         launch[k].status = "absent"
  PROVE  Chain!Next
<1> USE DEF ChainInv, TInv, TypeOK
<1>1. /\ InsertedRow(d) /\ launch'[k] = d
      /\ \A m \in Launches \ {k} : launch'[m] = launch[m]
  BY DEF RowChange
<1>2. Phase(k) = "absent" /\ Phase(k)' = "live"
  BY <1>1, PhaseOf DEF InsertedRow, Phase, Live, LiveStatuses
<1>3. \A m \in Launches \ {k} :
         Phase(m)' = Phase(m) /\ launch'[m].retry_of = launch[m].retry_of
  BY <1>1 DEF Phase, Live, Terminal
<1>4. launch[k].retry_of = NoLaunch
  BY DEF AbsentRetriesNothing
<1>5. [l \in Launches |-> Phase(l)]' = [[l \in Launches |-> Phase(l)] EXCEPT ![k] = "live"]
  BY <1>2, <1>3
<1>6. CASE d.retry_of = NoLaunch
  <2>1. [l \in Launches |-> launch[l].retry_of]' = [l \in Launches |-> launch[l].retry_of]
    BY <1>1, <1>3, <1>4, <1>6
  <2> QED BY <1>2, <1>5, <2>1 DEF Chain!Next, Chain!Open
<1>7. CASE d.retry_of # NoLaunch
  <2>1. PICK p \in Launches : Terminal(p) /\ ~Retried(p) /\ d.retry_of = p
    BY <1>1, <1>7 DEF InsertedRow
  <2>2. [l \in Launches |-> launch[l].retry_of]' =
          [[l \in Launches |-> launch[l].retry_of] EXCEPT ![k] = p]
    BY <1>1, <1>3, <2>1
  <2>3. Phase(p) = "closed" /\ \A c \in Launches : launch[c].retry_of # p
    BY <2>1, PhaseOf DEF Retried
  <2>4. Chain!Retry(p, k)
    BY <1>2, <1>5, <2>2, <2>3 DEF Chain!Retry
  <2> QED BY <2>4 DEF Chain!Next
<1> QED BY <1>6, <1>7

\* An update of a row closes the attempt or leaves its phase alone.
LEMMA UpdateRefines ==
  ASSUME ChainInv, NEW k \in Launches, NEW d \in Row, RowChange(k, d),
         launch[k].status # "absent"
  PROVE  Chain!Next \/ UNCHANGED Chain!chainVars
<1> USE DEF ChainInv, TInv, TypeOK
<1>1. /\ UpdatedRow(launch[k], d) /\ launch'[k] = d
      /\ \A m \in Launches \ {k} : launch'[m] = launch[m]
  BY DEF RowChange
<1>2. \A m \in Launches \ {k} : Phase(m)' = Phase(m)
  BY <1>1 DEF Phase, Live, Terminal
<1>3. [l \in Launches |-> launch[l].retry_of]' = [l \in Launches |-> launch[l].retry_of]
  BY <1>1 DEF UpdatedRow
<1>4. Phase(k)' = Phase(k) \/ (Phase(k) = "live" /\ Phase(k)' = "closed")
  <2>1. launch[k].status \in LiveStatuses \cup TERMINAL_STATUSES
    BY DEF Row, Statuses
  <2>2. CASE d.status = launch[k].status
    BY <1>1, <2>2 DEF Phase, Live, Terminal
  <2>3. CASE <<launch[k].status, d.status>> \in ALLOWED_TRANSITIONS
    BY <1>1, <2>3 DEF Phase, Live, Terminal, ALLOWED_TRANSITIONS, MachineTransitions,
                      LiveStatuses, TERMINAL_STATUSES
  <2>4. CASE d.status = "expired"
    BY <1>1, <2>1, <2>4 DEF Phase, Live, Terminal, LiveStatuses, TERMINAL_STATUSES
  <2> QED BY <1>1, <2>2, <2>3, <2>4 DEF UpdatedRow
<1>5. CASE Phase(k)' = Phase(k)
  <2>1. [l \in Launches |-> Phase(l)]' = [l \in Launches |-> Phase(l)]
    BY <1>2, <1>5
  <2> QED BY <1>3, <2>1 DEF Chain!chainVars
<1>6. CASE Phase(k) = "live" /\ Phase(k)' = "closed"
  <2>1. [l \in Launches |-> Phase(l)]' = [[l \in Launches |-> Phase(l)] EXCEPT ![k] = "closed"]
    BY <1>2, <1>6
  <2>2. Chain!Close(k)
    BY <1>3, <1>6, <2>1 DEF Chain!Close
  <2> QED BY <2>2 DEF Chain!Next
<1> QED BY <1>4, <1>5, <1>6

\* The detailed service implements the abstract chain of attempts.
THEOREM Refinement == Spec => ImplementsAttemptChain
<1>1. Init => Chain!Init
  <2>1. NoRow.status = "absent" /\ NoRow.retry_of = NoLaunch
    BY DEF NoRow
  <2>2. Init => \A l \in Launches : launch[l] = NoRow
    BY DEF Init
  <2>3. Init => \A l \in Launches : Phase(l) = "absent" /\ launch[l].retry_of = NoLaunch
    BY <2>1, <2>2, PhaseOf
  <2> QED BY <2>3 DEF Chain!Init
<1>2. ChainInv /\ [Next]_vars => [Chain!Next]_(Chain!chainVars)
  <2> SUFFICES ASSUME ChainInv, [Next]_vars
               PROVE  Chain!Next \/ UNCHANGED Chain!chainVars
    OBVIOUS
  <2>1. CASE UNCHANGED launch
    BY <2>1 DEF Chain!chainVars, Phase, Live, Terminal
  <2>2. CASE SomeRowChange
    BY <2>2, InsertRefines, UpdateRefines DEF SomeRowChange
  <2> QED BY <2>1, <2>2, StepChangesOneRow DEF ChainInv
<1> QED BY <1>1, <1>2, AlwaysChainInv, PTL DEF Spec, ImplementsAttemptChain, Chain!Spec
=============================================================================
