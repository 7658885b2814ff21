----------------------------- MODULE Admission -----------------------------
(***************************************************************************)
(* Batches of launches that roadmaps admit, beside launches of single      *)
(* tasks (services/admission.py, eligibility.py, task_launches.py), on     *)
(* machines whose load the server knows from their heartbeats only.        *)
(*                                                                         *)
(* A request is a transaction: it loads some rows, waits for its advisory  *)
(* locks, reads and counts in several statements, and commits all of its   *)
(* launches or none.  Reports and heartbeats take none of these locks.     *)
(*                                                                         *)
(* Budgets are in module Budgets: here they may refuse any request, as the *)
(* other checks of a launch may.  Of what excludes a task or a machine     *)
(* from a plan, the active launches and the slots are kept.                *)
(***************************************************************************)
EXTENDS FiniteSets, Integers

CONSTANTS
    Batches, Units,  \* the requests
    Roadmaps, Tasks, Machines,
    Linked,          \* the tasks of each roadmap
    Caller,          \* the machine whose credential a batch presents
    NoMachine,
    MaxLaunches,     \* max_launches, as each machine reports it
    MaxItems,        \* bound on the items of a batch
    MaxVersion,      \* bound on the versions of a roadmap
    MaxBeats         \* bound on the heartbeats of a machine

Requests == Batches \cup Units

\* A launch is named by the request that makes it and its task.
Launches == Requests \X Tasks

\* Locks are ordered by their kind and identifier.
Keys == {"admission"} \X Roadmaps \cup {"task-launch"} \X Tasks \cup {"machine-slots"} \X Machines

ASSUME RequestsAssumption ==
    Batches \cap Units = {} /\ IsFiniteSet(Requests) /\ "nobody" \notin Requests
ASSUME IdsAssumption ==
    Roadmaps \subseteq Nat /\ Tasks \subseteq Nat /\ IsFiniteSet(Tasks) /\ Machines \subseteq Nat
\* A project has one active roadmap: these are of different projects.
ASSUME LinkedAssumption ==
    /\ Linked \in [Roadmaps -> SUBSET Tasks]
    /\ \A rm, other \in Roadmaps : rm # other => Linked[rm] \cap Linked[other] = {}
ASSUME CallerAssumption == NoMachine \notin Machines /\ Caller \in [Batches -> Machines \cup {NoMachine}]
ASSUME BoundsAssumption ==
    MaxLaunches \in Nat \ {0} /\ MaxItems \in Nat \ {0} /\ MaxVersion \in Nat /\ MaxBeats \in Nat

VARIABLES
    roadmap,  \* the rows of roadmaps
    request,  \* each request's progress and what its session holds
    owner,    \* who holds each advisory lock
    launch,   \* the rows of task_launches
    report,   \* what the running_launches of each machine's row counts
    owned,    \* the launches that each machine's executor has
    sent,     \* the heartbeats on their way
    beats,    \* how many were sent
    missed,   \* history: the launches that some report should have counted
    stale     \* history: the batches that decided on outdated reports

vars == <<roadmap, request, owner, launch, report, owned, sent, beats, missed, stale>>

serverVars == <<roadmap, request, owner, stale>>
machineVars == <<owned, sent, beats>>

-----------------------------------------------------------------------------
Roadmap == [version : 0..MaxVersion, active : BOOLEAN]
Items == SUBSET (Tasks \X Machines)

NoLaunch == [status |-> "absent", machine |-> NoMachine, unreported |-> FALSE]

\* "overdue" is requested, and expired if nobody has noted it; "started" is
\* accepted, preparing or running.  unreported is created_at >
\* capabilities_reported_at.
Launch == [status     : {"absent", "requested", "overdue", "started", "over"},
           machine    : Machines \cup {NoMachine},
           unreported : BOOLEAN]

On(m) == {l \in Launches : launch[l].machine = m}
Requested(l) == launch[l].status = "requested"
Started(l) == launch[l].status = "started"

\* _ACTIVE_LAUNCH_STATUSES has no deadline.
Active(l) == launch[l].status \in {"requested", "overdue", "started"}
Busy == {t \in Tasks : \E r \in Requests : Active(<<r, t>>)}

-----------------------------------------------------------------------------
(* Slots and plans *)

\* Mutant: only what is started counts.
Mutant_Unreported(m) ==
    {l \in On(m) : Started(l) /\ launch[l].unreported}

\* unreported_launch_counts
Unreported(m) ==
    {l \in On(m) : Requested(l) \/ (Started(l) /\ launch[l].unreported)}

\* free_slots of a machine whose row says that so many launches run.
Free(running, m) == MaxLaunches - running - Cardinality(Unreported(m))

Eligible(rows) == {m \in Machines : Free(rows[m], m) > 0}

\* compose_dry_run, as far as its digest: what the plan says of a roadmap.
Plan(row, busy, rows) == [roadmap |-> row, busy |-> busy, eligible |-> Eligible(rows)]

Plans == [roadmap : Roadmap, busy : SUBSET Tasks, eligible : SUBSET Machines]

Launchable(plan, rm) ==
    IF plan.roadmap.active /\ plan.eligible # {} THEN Linked[rm] \ plan.busy ELSE {}

Running == [m \in Machines |-> Cardinality(report[m])]

\* The rows of machines as the session of b reads them: that of the caller is
\* the one that it was authenticated by.
Rows(b) ==
    [m \in Machines |-> IF m = Caller[b] THEN request[b].own ELSE Running[m]]

-----------------------------------------------------------------------------
(* Requests *)

\* since: the machines that have reported since the transaction began, which
\* dates its launches.
NoRequest == [stage |-> "idle", roadmap |-> 0, items |-> {}, plan |-> <<>>, row |-> <<>>,
              own |-> 0, busy |-> {}, rows |-> <<>>, since |-> {}]

Stages == {"idle", "confirmed", "locking", "read", "staged", "committed", "refused"}
\* Before it is known what a request is about, it is about roadmap 0.
Request == [stage : Stages, roadmap : Roadmaps \cup {0}, items : Items,
            plan : Plans \cup {<<>>}, row : Roadmap \cup {<<>>}, own : Nat,
            busy : SUBSET Tasks, rows : [Machines -> Nat] \cup {<<>>}, since : SUBSET Machines]

Open(r) == request[r].stage \in {"locking", "read", "staged"}

TasksOf(r) == {item[1] : item \in request[r].items}
MachinesOf(r) == {item[2] : item \in request[r].items}

\* Mutant: a batch locks its roadmap and its machines.
Mutant_KeysOf(r) ==
    {"machine-slots"} \X MachinesOf(r)
      \cup (IF r \in Batches THEN {<<"admission", request[r].roadmap>>}
                             ELSE {"task-launch"} \X TasksOf(r))

\* admit_batch, stage_launch
KeysOf(r) ==
    {"task-launch"} \X TasksOf(r) \cup {"machine-slots"} \X MachinesOf(r)
      \cup (IF r \in Batches THEN {<<"admission", request[r].roadmap>>} ELSE {})

Held(r) == {k \in Keys : owner[k] = r}

Rank(k) == CASE k[1] = "admission" -> 0 [] k[1] = "task-launch" -> 1 [] k[1] = "machine-slots" -> 2
Before(j, k) == Rank(j) < Rank(k) \/ (Rank(j) = Rank(k) /\ j[2] <= k[2])

\* Mutant: a request takes its locks in the order of its items.
Mutant_NextKey(r, k) == k \in KeysOf(r) \ Held(r)

NextKey(r, k) ==
    /\ k \in KeysOf(r) \ Held(r)
    /\ \A j \in KeysOf(r) \ Held(r) : Before(k, j)

Released(r) == [k \in Keys |-> IF owner[k] = r THEN "nobody" ELSE owner[k]]

-----------------------------------------------------------------------------
Init ==
    /\ roadmap = [rm \in Roadmaps |-> [version |-> 0, active |-> TRUE]]
    /\ request = [r \in Requests |-> NoRequest]
    /\ owner = [k \in Keys |-> "nobody"]
    /\ launch = [l \in Launches |-> NoLaunch]
    /\ report = [m \in Machines |-> {}]
    /\ owned = [m \in Machines |-> {}]
    /\ sent = [m \in Machines |-> {}]
    /\ beats = [m \in Machines |-> 0]
    /\ missed = {}
    /\ stale = {}

\* Every mutation of a roadmap increments its version, and some its status.
EditRoadmap(rm, active) ==
    /\ roadmap[rm].version < MaxVersion
    /\ roadmap' = [roadmap EXCEPT ![rm] = [version |-> @.version + 1, active |-> active]]
    /\ UNCHANGED <<request, owner, launch, report, machineVars, missed, stale>>

\* The client confirms a dry run.
Confirm(b, rm) ==
    /\ request[b].stage = "idle"
    /\ request' = [request EXCEPT
         ![b].stage = "confirmed", ![b].roadmap = rm,
         ![b].plan = Plan(roadmap[rm], Busy \cap Linked[rm], Running)]
    /\ UNCHANGED <<roadmap, owner, launch, report, machineVars, missed, stale>>

\* authorize_admit and the authentication load rows before any lock.
BeginBatch(b, items) ==
    /\ request[b].stage = "confirmed"
    /\ request' = [request EXCEPT
         ![b].stage = "locking", ![b].items = items,
         ![b].row = roadmap[request[b].roadmap],
         ![b].own = IF Caller[b] = NoMachine THEN 0 ELSE Running[Caller[b]]]
    /\ UNCHANGED <<roadmap, owner, launch, report, machineVars, missed, stale>>

\* create_launch and retry_launch: neither looks at the task's other launches
\* or at the machine's slots.
BeginUnit(u, t, m) ==
    /\ request[u].stage = "idle"
    /\ request' = [request EXCEPT ![u].stage = "locking", ![u].items = {<<t, m>>}]
    /\ UNCHANGED <<roadmap, owner, launch, report, machineVars, missed, stale>>

Acquire(r, k) ==
    /\ request[r].stage = "locking"
    /\ NextKey(r, k) /\ owner[k] = "nobody"
    /\ owner' = [owner EXCEPT ![k] = r]
    /\ UNCHANGED <<roadmap, request, launch, report, machineVars, missed, stale>>

\* dry_run, up to its list of machines.
ReadPlan(b) ==
    /\ request[b].stage = "locking" /\ KeysOf(b) = Held(b)
    /\ request' = [request EXCEPT
         ![b].stage = "read", ![b].busy = Busy \cap Linked[request[b].roadmap],
         ![b].rows = Rows(b)]
    /\ UNCHANGED <<roadmap, owner, launch, report, machineVars, missed, stale>>

\* The plan, its launches counted last.
FreshPlan(b) == Plan(request[b].row, request[b].busy, request[b].rows)

\* What admit_batch checks of the items, no task twice.
Fits(b) ==
    /\ FreshPlan(b) = request[b].plan
    /\ Cardinality(TasksOf(b)) = Cardinality(request[b].items)
    /\ TasksOf(b) \subseteq Launchable(FreshPlan(b), request[b].roadmap)
    /\ \A m \in MachinesOf(b) :
         Cardinality({item \in request[b].items : item[2] = m}) <= Free(request[b].rows[m], m)

StageBatch(b) ==
    /\ request[b].stage = "read" /\ Fits(b)
    /\ request' = [request EXCEPT ![b].stage = "staged"]
    /\ stale' = IF \E m \in MachinesOf(b) : request[b].rows[m] # Running[m]
                THEN stale \cup {b} ELSE stale
    /\ UNCHANGED <<roadmap, owner, launch, report, machineVars, missed>>

StageUnit(u) ==
    /\ request[u].stage = "locking" /\ KeysOf(u) = Held(u)
    /\ request' = [request EXCEPT ![u].stage = "staged"]
    /\ UNCHANGED <<roadmap, owner, launch, report, machineVars, missed, stale>>

\* Nothing of what a refused request has staged remains.
Refuse(r) ==
    /\ request' = [request EXCEPT ![r] = [NoRequest EXCEPT !.stage = "refused"]]
    /\ owner' = Released(r)
    /\ UNCHANGED <<roadmap, launch, report, machineVars, missed, stale>>

RefuseBatch(b) == request[b].stage = "read" /\ ~Fits(b) /\ Refuse(b)

\* A refusal by another check or the budget, or a failure.
RollBack(r) == Open(r) /\ Refuse(r)

Made(r) ==
    [l \in Launches |->
        IF l[1] = r /\ l[2] \in TasksOf(r)
        THEN LET m == CHOOSE n \in Machines : <<l[2], n>> \in request[r].items IN
             [status |-> "requested", machine |-> m, unreported |-> m \notin request[r].since]
        ELSE launch[l]]

\* Mutant: locks of the connection, not of the transaction.
Mutant_Commit(r) ==
    /\ request[r].stage = "staged"
    /\ launch' = Made(r)
    /\ request' = [request EXCEPT ![r] = [NoRequest EXCEPT !.stage = "committed"]]
    /\ UNCHANGED <<roadmap, owner, report, machineVars, missed, stale>>

Commit(r) ==
    /\ request[r].stage = "staged"
    /\ launch' = Made(r)
    /\ request' = [request EXCEPT ![r] = [NoRequest EXCEPT !.stage = "committed"]]
    /\ owner' = Released(r)
    /\ UNCHANGED <<roadmap, report, machineVars, missed, stale>>

-----------------------------------------------------------------------------
(* Machines, which module LaunchDaemon has in full *)

\* A launch that runs, that the report should count, and that it does not.
Blind(l) ==
    Started(l) /\ ~launch[l].unreported /\ l \notin report[launch[l].machine]

\* poll accepts a launch and the loop submits it, whether or not the report of
\* the acceptance could be sent (run).
PickUp(m, l) ==
    /\ l \in On(m) /\ Requested(l) /\ l \notin owned[m]
    /\ owned' = [owned EXCEPT ![m] = @ \cup {l}]
    /\ UNCHANGED <<serverVars, launch, report, sent, beats, missed>>

Accepted(m, l) ==
    /\ l \in owned[m] /\ Requested(l)
    /\ launch' = [launch EXCEPT ![l].status = "started"]
    /\ UNCHANGED <<serverVars, report, machineVars>>
    /\ missed' = missed \cup {k \in Launches : Blind(k)'}

\* The executor is done with a launch, or is restarted.
LetGo(m, l) ==
    /\ l \in owned[m]
    /\ owned' = [owned EXCEPT ![m] = @ \ {l}]
    /\ UNCHANGED <<serverVars, launch, report, sent, beats, missed>>

\* A final report, a cancellation, a rejection or an expiry.
End(l) ==
    /\ Active(l)
    /\ launch' = [launch EXCEPT ![l].status = "over"]
    /\ UNCHANGED <<serverVars, report, machineVars, missed>>

BecomeOverdue(l) ==
    /\ Requested(l)
    /\ launch' = [launch EXCEPT ![l].status = "overdue"]
    /\ UNCHANGED <<serverVars, report, machineVars, missed>>

SendHeartbeat(m) ==
    /\ beats[m] < MaxBeats /\ owned[m] \notin sent[m]
    /\ sent' = [sent EXCEPT ![m] = @ \cup {owned[m]}]
    /\ beats' = [beats EXCEPT ![m] = @ + 1]
    /\ UNCHANGED <<serverVars, launch, report, owned, missed>>

\* record_heartbeat, however late: the report is dated by the server.
HeartbeatLands(m, body) ==
    /\ sent' = [sent EXCEPT ![m] = @ \ {body}]
    /\ report' = [report EXCEPT ![m] = body]
    /\ launch' = [l \in Launches |->
         IF l \in On(m) THEN [launch[l] EXCEPT !.unreported = FALSE] ELSE launch[l]]
    /\ request' = [r \in Requests |->
         IF Open(r) THEN [request[r] EXCEPT !.since = @ \cup {m}] ELSE request[r]]
    /\ UNCHANGED <<roadmap, owner, stale, owned, beats>>
    /\ missed' = missed \cup {l \in Launches : Blind(l)'}

-----------------------------------------------------------------------------
Batch == {items \in Items : items # {} /\ Cardinality(items) <= MaxItems}

RequestStep(r) ==
    \/ \E k \in Keys : Acquire(r, k)
    \/ r \in Batches /\ (ReadPlan(r) \/ StageBatch(r) \/ RefuseBatch(r))
    \/ r \in Units /\ StageUnit(r)
    \/ Commit(r)

OutsideStep ==
    \/ \E b \in Batches : \/ \E rm \in Roadmaps : Confirm(b, rm)
                          \/ \E items \in Batch : BeginBatch(b, items)
    \/ \E u \in Units, t \in Tasks, m \in Machines : BeginUnit(u, t, m)
    \/ \E rm \in Roadmaps, active \in BOOLEAN : EditRoadmap(rm, active)
    \/ \E r \in Requests : RollBack(r)

MachineStep ==
    \/ \E m \in Machines, l \in Launches : PickUp(m, l) \/ Accepted(m, l) \/ LetGo(m, l)
    \/ \E l \in Launches : End(l) \/ BecomeOverdue(l)
    \/ \E m \in Machines : SendHeartbeat(m) \/ \E body \in sent[m] : HeartbeatLands(m, body)

Next == (\E r \in Requests : RequestStep(r)) \/ OutsideStep \/ MachineStep

Spec == Init /\ [][Next]_vars

-----------------------------------------------------------------------------
(* Properties *)

\* Every variable has its type, a lock is held by an open request that asked
\* for it, and an open batch knows its plan.
TypeOK ==
    /\ roadmap \in [Roadmaps -> Roadmap]
    /\ request \in [Requests -> Request]
    /\ \A r \in Requests :
         /\ Open(r) /\ r \in Batches => request[r].row \in Roadmap
         /\ Held(r) \subseteq KeysOf(r) /\ (Held(r) # {} => Open(r))
    /\ owner \in [Keys -> Requests \cup {"nobody"}]
    /\ launch \in [Launches -> Launch]
    /\ report \in [Machines -> SUBSET Launches] /\ owned \in [Machines -> SUBSET Launches]
    /\ sent \in [Machines -> SUBSET SUBSET Launches]
    /\ beats \in [Machines -> 0..MaxBeats]
    /\ missed \subseteq Launches /\ stale \subseteq Batches

Appears(l) == launch[l] = NoLaunch /\ launch'[l] # NoLaunch

\* A batch never launches a task that another launch is active for, whatever
\* other batches and single launches are under way (admit_batch, stage_launch).
BatchOfIdleTasks ==
    [][\A b \in Batches, t \in Tasks : Appears(<<b, t>>) => t \notin Busy]_vars

Load(m) == {l \in On(m) : (Requested(l) \/ Started(l)) /\ l \notin missed}

\* A batch that counted with a machine's last report never leaves the machine
\* with more launches than slots, but for those that the report was too early or
\* too late to count (admit_batch, unreported_launch_counts).
NoOverbookingUnlessStale ==
    [][\A b \in Batches \ stale, m \in Machines :
         (\E t \in Tasks : Appears(<<b, t>>) /\ launch'[<<b, t>>].machine = m)
           => Cardinality(Load(m)') <= MaxLaunches]_vars

\* Whether r waits for a lock that somebody has.
Waits(r) ==
    /\ request[r].stage = "locking"
    /\ \E k \in KeysOf(r) \ Held(r) : NextKey(r, k) /\ owner[k] # "nobody"

\* Requests never wait for each other in a circle, nor for one that has ended:
\* some open request goes on (the order of the locks).
SomebodyGoesOn == (\E r \in Requests : Open(r)) => \E r \in Requests : Open(r) /\ ~Waits(r)
=============================================================================
