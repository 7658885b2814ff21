----------------------------- MODULE TaskLaunch -----------------------------
(***************************************************************************)
(* The life of task launches on the API server: the rows of task_launches  *)
(* for one task and one target machine, the machine's work sessions and    *)
(* claims on that task, and the transactions that write them               *)
(* (services/task_launches.py, and what services/sessions.py does to a     *)
(* launch).                                                                *)
(*                                                                         *)
(* Reports, cancellations and retries read the row FOR UPDATE, so each is  *)
(* one step here.  Reads (get, list, pull) expire overdue launches too,    *)
(* but load the row without a lock and write it in a later statement: they *)
(* are two steps, and so is the attachment of a session to a launch.       *)
(***************************************************************************)
EXTENDS Naturals

CONSTANTS
    Launches,      \* the attempts that may be created for the task
    Sessions,      \* the work sessions of the target machine on the task
    Requests,      \* concurrent HTTP reads (get, list, pull)
    NoLaunch, NoSession,
    Ttls,          \* the values of expires_in_seconds requesters use
    MaxTtl,        \* LAUNCH_MAX_TTL_SECONDS: the hard deadline
    Grace,         \* launch_activity_grace_seconds
    MaxTime        \* bound on the clock

ASSUME NoLaunchAssumption == NoLaunch \notin Launches
ASSUME NoSessionAssumption == NoSession \notin Sessions
ASSUME TimeAssumption ==
    /\ MaxTtl \in Nat /\ Grace \in Nat /\ MaxTime \in Nat
    /\ Ttls \subseteq 1..MaxTtl

VARIABLES
    launch,   \* the committed row of each launch
    session,  \* the committed row of each work session
    claims,   \* the status of the target machine's claims on the task
    request,  \* per read in flight: the launch it loaded, as it loaded it
    link,     \* per session: the unlinked launch its start or resume loaded
    now       \* the server's clock

vars == <<launch, session, claims, request, link, now>>

-----------------------------------------------------------------------------
LiveStatuses == {"requested", "accepted", "preparing", "running"}
TERMINAL_STATUSES == {"succeeded", "failed", "cancelled", "rejected", "expired"}
Statuses == LiveStatuses \cup TERMINAL_STATUSES \cup {"absent"}

\* The actor that may drive a launch from one status to another is a machine.
MachineTransitions ==
    { <<"requested", "accepted">>,  <<"requested", "rejected">>,
      <<"accepted", "preparing">>,  <<"accepted", "failed">>,
      <<"preparing", "running">>,   <<"preparing", "failed">>,
      <<"running", "succeeded">>,   <<"running", "failed">> }

\* The contract's table: the requester cancels and the server expires a
\* launch from any live status.
ALLOWED_TRANSITIONS ==
    MachineTransitions \cup (LiveStatuses \X {"cancelled", "expired"})

LinkableStatuses == {"accepted", "preparing", "running"}

Row == [status     : Statuses,
        version    : Nat,
        created_at : Nat,
        expires_at : Nat,
        session_id : Sessions \cup {NoSession},
        attempt    : Nat,
        retry_of   : Launches \cup {NoLaunch}]

NoRow == [status     |-> "absent",
          version    |-> 0,
          created_at |-> 0,
          expires_at |-> 0,
          session_id |-> NoSession,
          attempt    |-> 0,
          retry_of   |-> NoLaunch]

\* An ended session's last activity is never read again.
Ended == [state |-> "ended", activity |-> 0]

Idle == [launch |-> NoLaunch, row |-> NoRow]

Live(l)     == launch[l].status \in LiveStatuses
Terminal(l) == launch[l].status \in TERMINAL_STATUSES
Open(s)     == s \in Sessions /\ session[s].state \in {"open", "ending"}

Earliest(a, b) == IF a < b THEN a ELSE b

-----------------------------------------------------------------------------
\* Expiry, as decided from a row r that the transaction loaded.

HardDeadline(r) == r.created_at + MaxTtl

Overdue(r) == r.status \in LiveStatuses /\ now >= r.expires_at

\* An open session with activity inside the grace window prolongs the launch.
RecentlyActive(s) == Open(s) /\ now <= session[s].activity + Grace

\* Mutant: activity prolongs a launch past its hard deadline.
Mutant_Prolongable(r) == RecentlyActive(r.session_id)

Prolongable(r) == now < HardDeadline(r) /\ RecentlyActive(r.session_id)

\* Mutant: the prolongation is not cut at the hard deadline.
Mutant_ProlongedTo(r) == now + Grace

ProlongedTo(r) == Earliest(now + Grace, HardDeadline(r))

\* The columns expire_launch_if_overdue writes when the loaded row r expires.
Expired(current, r) ==
    [current EXCEPT !.status = "expired", !.version = r.version + 1]

\* The loaded row's session is closed and the machine's claims released.
CloseSession(s) ==
    session' = [t \in Sessions |->
                  IF t = s /\ Open(t)
                  THEN Ended
                  ELSE session[t]]

\* Mutant: the session of an expired launch is left open.
Mutant_Expire(l, r) ==
    /\ launch' = [launch EXCEPT ![l] = Expired(@, r)]
    /\ claims' = "released"
    /\ UNCHANGED session

Expire(l, r) ==
    /\ launch' = [launch EXCEPT ![l] = Expired(@, r)]
    /\ CloseSession(r.session_id)
    /\ claims' = "released"

Prolong(l, r) ==
    /\ launch' = [launch EXCEPT ![l].expires_at = ProlongedTo(r)]
    /\ UNCHANGED <<session, claims>>

\* expire_launch_if_overdue(l), applied to the row r the caller has in hand.
ExpireIfOverdue(l, r) ==
    \/ Overdue(r) /\ ~Prolongable(r) /\ Expire(l, r)
    \/ Overdue(r) /\ Prolongable(r) /\ Prolong(l, r)
    \/ ~Overdue(r) /\ UNCHANGED <<launch, session, claims>>

-----------------------------------------------------------------------------
\* created_at is when the inserting transaction began: it may have waited for
\* the task's and the machine's advisory locks since.
NewRow(began, ttl, attempt, previous) ==
    [status     |-> "requested",
     version    |-> 1,
     created_at |-> began,
     expires_at |-> now + ttl,
     session_id |-> NoSession,
     attempt    |-> attempt,
     retry_of   |-> previous]

\* Bound: a launch is created early enough to meet its hard deadline.
TimeLeft == now + MaxTtl <= MaxTime

CreateLaunch(l, began, ttl) ==
    /\ launch[l].status = "absent"
    /\ TimeLeft
    /\ launch' = [launch EXCEPT ![l] = NewRow(began, ttl, 1, NoLaunch)]
    /\ UNCHANGED <<session, claims, request, link, now>>

\* A locked operation that finds its launch overdue settles that first; the
\* caller is then refused (its expected_version is stale).
LockedExpiry(l) ==
    /\ Overdue(launch[l])
    /\ ExpireIfOverdue(l, launch[l])
    /\ UNCHANGED <<request, link, now>>

\* A report or a cancellation under the row lock carries the prolongation of
\* an overdue launch in its own commit (persist_extension=False).
Settled(r) ==
    IF Overdue(r) THEN [r EXCEPT !.expires_at = ProlongedTo(r)] ELSE r

NotExpiring(r) == Overdue(r) => Prolongable(r)

Reported(r, target, s) ==
    [Settled(r) EXCEPT !.status = target,
                       !.version = @ + 1,
                       !.session_id = IF s = NoSession THEN @ ELSE s]

Cancelled(r) == [Settled(r) EXCEPT !.status = "cancelled", !.version = @ + 1]

\* The target machine reports a status, with or without a session.
ReportLaunch(l, target, s) ==
    /\ NotExpiring(launch[l])
    /\ <<launch[l].status, target>> \in MachineTransitions
    /\ s = NoSession \/ Open(s)
    /\ launch' = [launch EXCEPT ![l] = Reported(@, target, s)]
    /\ UNCHANGED <<session, claims, request, link, now>>

CancelLaunch(l) ==
    /\ NotExpiring(launch[l])
    /\ <<launch[l].status, "cancelled">> \in ALLOWED_TRANSITIONS
    /\ launch' = [launch EXCEPT ![l] = Cancelled(@)]
    /\ UNCHANGED <<session, claims, request, link, now>>

\* Mutant: a retry does not look for the attempt an earlier one created.
Mutant_Retried(l) == FALSE

Retried(l) == \E n \in Launches : launch[n].retry_of = l

\* A terminal launch is retried as a new attempt; a second retry only finds
\* the attempt of the first one.
RetryLaunch(l, n, began, ttl) ==
    /\ Terminal(l)
    /\ ~Retried(l)
    /\ launch[n].status = "absent"
    /\ TimeLeft
    /\ launch' = [launch EXCEPT ![n] =
                    NewRow(began, ttl, launch[l].attempt + 1, l)]
    /\ UNCHANGED <<session, claims, request, link, now>>

-----------------------------------------------------------------------------
\* get_launch, list_launches and pull_pending: a plain SELECT ...
LoadLaunch(q, l) ==
    /\ request[q] = Idle
    /\ Live(l)
    /\ request' = [request EXCEPT ![q] = [launch |-> l, row |-> launch[l]]]
    /\ UNCHANGED <<launch, session, claims, link, now>>

\* ... then the expiry of the row as loaded, in a later statement.
SettleLaunch(q) ==
    /\ request[q] # Idle
    /\ ExpireIfOverdue(request[q].launch, request[q].row)
    /\ request' = [request EXCEPT ![q] = Idle]
    /\ UNCHANGED <<link, now>>

-----------------------------------------------------------------------------
\* The target machine's sessions on the task.

\* Starting one ends the open sessions of another identity, or the expired one
\* it takes over from: their claims are not released.
StartSession(s, superseded) ==
    /\ session[s].state = "none"
    /\ \A t \in superseded : Open(t)
    /\ session' = [t \in Sessions |->
                     IF t = s THEN [state |-> "open", activity |-> now]
                     ELSE IF t \in superseded
                          THEN Ended
                          ELSE session[t]]
    /\ UNCHANGED <<launch, claims, request, link, now>>

\* Resuming a session, and any authenticated call attached to it.  (A touch of
\* an ended session changes nothing that is ever read.)
TouchSession(s) ==
    /\ Open(s)
    /\ session[s].activity # now
    /\ session' = [session EXCEPT ![s].activity = now]
    /\ UNCHANGED <<launch, claims, request, link, now>>

\* Ending a session releases the task's claims, also when it had ended ...
ReleaseForEnd(s) ==
    /\ session[s].state # "none"
    /\ session' = [session EXCEPT ![s].state = IF Open(s) THEN "ending" ELSE @]
    /\ claims' = "released"
    /\ UNCHANGED <<launch, request, link, now>>

\* ... then marks it ended in a transaction of its own.
EndSession(s) ==
    /\ session[s].state = "ending"
    /\ session' = [session EXCEPT ![s] = Ended]
    /\ UNCHANGED <<launch, claims, request, link, now>>

ClaimResource ==
    /\ claims = "released"
    /\ claims' = "active"
    /\ UNCHANGED <<launch, session, request, link, now>>

\* link_session_to_launch finds an unlinked live launch ...
LoadLink(s, l) ==
    /\ Open(s)
    /\ link[s] = NoLaunch
    /\ launch[l].status \in LinkableStatuses
    /\ launch[l].session_id = NoSession
    /\ link' = [link EXCEPT ![s] = l]
    /\ UNCHANGED <<launch, session, claims, request, now>>

\* Mutant: linking a session bumps the version like any other update.
Mutant_CommitLinkBumps(s) ==
    /\ link[s] # NoLaunch
    /\ launch' = [launch EXCEPT ![link[s]].session_id = s,
                               ![link[s]].version = @ + 1]
    /\ link' = [link EXCEPT ![s] = NoLaunch]
    /\ UNCHANGED <<session, claims, request, now>>

\* ... and writes its session_id, whatever the row has become.
CommitLink(s) ==
    /\ link[s] # NoLaunch
    /\ launch' = [launch EXCEPT ![link[s]].session_id = s]
    /\ link' = [link EXCEPT ![s] = NoLaunch]
    /\ UNCHANGED <<session, claims, request, now>>

Tick ==
    /\ now < MaxTime
    /\ now' = now + 1
    /\ UNCHANGED <<launch, session, claims, request, link>>

-----------------------------------------------------------------------------
Init ==
    /\ launch = [l \in Launches |-> NoRow]
    /\ session = [s \in Sessions |-> [state |-> "none", activity |-> 0]]
    /\ claims = "released"
    /\ request = [q \in Requests |-> Idle]
    /\ link = [s \in Sessions |-> NoLaunch]
    /\ now = 0

Next ==
    \/ \E l \in Launches, began \in 0..now, ttl \in Ttls :
          CreateLaunch(l, began, ttl)
    \/ \E l \in Launches : LockedExpiry(l)
    \/ \E l \in Launches, target \in Statuses, s \in Sessions \cup {NoSession} :
          ReportLaunch(l, target, s)
    \/ \E l \in Launches : CancelLaunch(l)
    \/ \E l, n \in Launches, began \in 0..now, ttl \in Ttls :
          RetryLaunch(l, n, began, ttl)
    \/ \E q \in Requests, l \in Launches : LoadLaunch(q, l)
    \/ \E q \in Requests : SettleLaunch(q)
    \/ \E s \in Sessions, superseded \in SUBSET Sessions :
          StartSession(s, superseded)
    \/ \E s \in Sessions : TouchSession(s)
    \/ \E s \in Sessions : ReleaseForEnd(s)
    \/ \E s \in Sessions : EndSession(s)
    \/ ClaimResource
    \/ \E s \in Sessions, l \in Launches : LoadLink(s, l)
    \/ \E s \in Sessions : CommitLink(s)
    \/ Tick

Spec == Init /\ [][Next]_vars

\* Something keeps reading launches (the machine's heartbeat pulls, dashboards
\* list): time passes, every live launch is read again and again, and a read
\* that started ends.  Nobody owes a report, a cancellation or a session.
Fairness ==
    /\ WF_vars(Tick)
    /\ \A l \in Launches : SF_vars(\E q \in Requests : LoadLaunch(q, l))
    /\ \A q \in Requests : WF_vars(SettleLaunch(q))

FairSpec == Spec /\ Fairness

-----------------------------------------------------------------------------
(* Properties *)

\* Every row, in-flight read and link is well formed, and a read or a link in
\* flight is about a launch that exists.
TypeOK ==
    /\ launch \in [Launches -> Row]
    /\ session \in [Sessions -> [state    : {"none", "open", "ending", "ended"},
                                activity : Nat]]
    /\ claims \in {"active", "released"}
    /\ request \in [Requests -> [launch : Launches \cup {NoLaunch}, row : Row]]
    /\ link \in [Sessions -> Launches \cup {NoLaunch}]
    /\ now \in Nat

StatusVersion ==
    [requested |-> 1, accepted |-> 2, preparing |-> 3, running |-> 4]

\* A live launch's version names its status.  The machine's reporter counts its
\* own reports to compute expected_version, so a prolongation, a session link
\* or a late read that bumped or rewound the version of a live launch would
\* break its chain of reports; and a caller that knows the version knows the
\* status it is about to change.
LiveVersionNamesStatus ==
    \A l \in Launches : Live(l) => launch[l].version = StatusVersion[launch[l].status]

\* However often activity prolongs a launch, and however stale the row a read
\* prolongs it from, a prolongation never sets an expiry past the hard deadline.
ProlongationBounded ==
    [][\A l \in Launches :
         launch'[l].expires_at # launch[l].expires_at /\ launch[l].status # "absent"
            => launch'[l].expires_at <= HardDeadline(launch[l])]_vars

\* The recovery chain: a retried attempt is closed for good, was retried once,
\* and attempts are numbered along the chain.
RetryChainSound ==
    \A n \in Launches : \A l \in Launches : launch[n].retry_of = l =>
        /\ Terminal(l)
        /\ launch[n].attempt = launch[l].attempt + 1
        /\ \A m \in Launches : launch[m].retry_of = l => m = n

Phase(l) ==
    IF Live(l) THEN "live" ELSE IF Terminal(l) THEN "closed" ELSE "absent"

\* The launch service implements the abstract chain of attempts: in particular
\* a terminal launch never becomes live again, even when a late read writes it.
Chain == INSTANCE AttemptChain WITH
    Attempts  <- Launches,
    NoAttempt <- NoLaunch,
    phase     <- [l \in Launches |-> Phase(l)],
    replaces  <- [l \in Launches |-> launch[l].retry_of]

ImplementsAttemptChain == Chain!Spec

NewlyExpired(l) == launch[l].status # "expired" /\ launch'[l].status = "expired"

\* The read that expires l loaded it before its session was linked.
SettledBeforeLink(l) ==
    \E q \in Requests : /\ request[q].launch = l
                        /\ request'[q] = Idle
                        /\ request[q].row.session_id # launch[l].session_id

\* But for a read that loaded the launch before its session was linked, expiry
\* ends a run as a whole: the run showed no activity inside the grace window or
\* met its hard deadline, its session is closed and the machine's claims on the
\* task are released, all in the transaction that writes expired.
ExpiryEndsTheRun ==
    [][\A l \in Launches : NewlyExpired(l) /\ ~SettledBeforeLink(l) =>
         /\ ~Prolongable(launch[l])
         /\ ~Open(launch[l].session_id)'
         /\ claims' = "released"]_vars

\* No launch stays live forever: activity prolongs it up to the hard deadline
\* only, and a read after that expires it.
LaunchesClose == \A l \in Launches : Live(l) ~> Terminal(l)

=============================================================================
