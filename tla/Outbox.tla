------------------------------- MODULE Outbox -------------------------------
(***************************************************************************)
(* The workstation daemon's offline queue (outbox/store.py) and the        *)
(* replayer that drains it to the server (outbox/replay.py).               *)
(*                                                                         *)
(* Every coroutine of the daemon shares one SQLite connection: an enqueue  *)
(* joins whatever transaction is open on it and becomes durable with the   *)
(* next commit of anybody, or is discarded by the next rollback of         *)
(* anybody or by the end of the process.  A replay pass awaits the         *)
(* server's answer to each row, so passes, enqueues and other commits      *)
(* interleave: one step is what runs between two awaits.                   *)
(***************************************************************************)
EXTENDS Naturals, FiniteSets

CONSTANTS
    Rows,         \* row ids: event ids and idempotency keys
    Events,       \* the rows of pending_events; the others are mutations
    Guarded,      \* rows whose endpoint is not idempotent (launch reports)
    Repeats,      \* ids derived from content, which may be enqueued again
    Passes,       \* who may run a replay pass: the heartbeat, a drain
    Heartbeat,    \* the one that comes back for ever
    Limit,        \* the rows of each table a pass takes
    MaxEnqueues,  \* bound on the rows created
    MaxRestarts   \* bound on the ends of the daemon's process

ASSUME RowsAssumption == IsFiniteSet(Rows) /\ Events \subseteq Rows
ASSUME HeartbeatAssumption == Heartbeat \in Passes
ASSUME BoundsAssumption == Limit \in Nat /\ MaxEnqueues \in Nat /\ MaxRestarts \in Nat

VARIABLES
    queue,     \* created_at of each queued row as the connection sees it, or 0
    disk,      \* the same, as last committed
    tried,     \* rows with attempt_count > 0
    waiting,   \* rows whose next_attempt_at is still to come
    dead,      \* the ids in dead_letter
    pass,      \* per pass: the rows still to send, and the answer to the first
    applied,   \* the rows whose operation the server has carried out
    flying,    \* requests nobody waits for any more, which may still arrive
    stopping,  \* the daemon was asked to stop
    clock,     \* the last created_at given
    restarts,
    durable    \* history: the rows that were ever committed

vars == <<queue, disk, tried, waiting, dead, pass, applied, flying, stopping,
          clock, restarts, durable>>

storeVars  == <<queue, disk, tried, waiting, dead, durable, clock>>
serverVars == <<applied, flying>>
processVars == <<stopping, restarts>>

-----------------------------------------------------------------------------
Answers == {"none", "ok", "refused", "transient"}

\* A pass keeps the snapshot it took: created_at of the rows left, or 0.
Nothing == [r \in Rows |-> 0]
IdlePass == [todo |-> Nothing, answer |-> "none"]

Present(q) == {r \in Rows : q[r] # 0}
Table(r) == IF r \in Events THEN Events ELSE Rows \ Events

Busy(p) == Present(pass[p].todo) # {}

\* The row a pass is at: the first created of those it has left.
At(p, r) == /\ r \in Present(pass[p].todo)
            /\ \A s \in Present(pass[p].todo) : pass[p].todo[r] <= pass[p].todo[s]
Awaiting(p, r) == At(p, r) /\ pass[p].answer = "none"
Answered(p, r, a) == At(p, r) /\ pass[p].answer = a
Remove(q, r) == [q EXCEPT ![r] = 0]

\* Mutant: a row that failed once is given up.
Mutant_Ready == Present(queue) \ tried

\* list_pending of both tables: the rows not in backoff, oldest first, at most
\* Limit of each table.
Ready == Present(queue) \ waiting

Batch == {{r \in Ready :
            Cardinality({s \in Ready \cap Table(r) : queue[s] < queue[r]}) < Limit}}

Snapshot(B) == [r \in Rows |-> IF r \in B THEN queue[r] ELSE 0]

\* Every commit on the shared connection makes all of its rows durable.
Committed(q) ==
    /\ queue' = q
    /\ disk' = q
    /\ durable' = durable \cup Present(q)

-----------------------------------------------------------------------------
Init ==
    /\ queue = Nothing /\ disk = Nothing
    /\ tried = {} /\ waiting = {} /\ dead = {}
    /\ pass = [p \in Passes |-> IdlePass]
    /\ applied = {} /\ flying = {}
    /\ stopping = FALSE
    /\ clock = 0 /\ restarts = 0
    /\ durable = {}

\* An id is produced once, unless its caller derives it from content.
Fresh(r) == queue[r] = 0 /\ (r \in Repeats \/ r \notin durable)

\* enqueue_event, enqueue_mutation: INSERT OR IGNORE, committed by the caller
\* (transaction()) or left to whoever commits next.
Enqueue(r) ==
    /\ Fresh(r) /\ clock < MaxEnqueues
    /\ clock' = clock + 1
    /\ LET q == [queue EXCEPT ![r] = clock + 1] IN
         \/ Committed(q)
         \/ queue' = q /\ UNCHANGED <<disk, durable>>
    /\ UNCHANGED <<tried, waiting, dead, pass>>
    /\ UNCHANGED serverVars /\ UNCHANGED processVars

\* Somebody else's transaction() on the connection commits, or rolls back.
Commit ==
    /\ queue # disk
    /\ Committed(queue)
    /\ UNCHANGED <<tried, waiting, dead, pass, clock>>
    /\ UNCHANGED serverVars /\ UNCHANGED processVars

Rollback ==
    /\ queue # disk
    /\ queue' = disk
    /\ UNCHANGED <<disk, tried, waiting, dead, pass, durable, clock>>
    /\ UNCHANGED serverVars /\ UNCHANGED processVars

BackoffEnds(r) ==
    /\ r \in waiting
    /\ waiting' = waiting \ {r}
    /\ UNCHANGED <<queue, disk, tried, dead, pass, durable, clock>>
    /\ UNCHANGED serverVars /\ UNCHANGED processVars

-----------------------------------------------------------------------------
\* replay_ready begins: one snapshot for the whole pass.  request_stop starts
\* a drain beside the pass the heartbeat may be in; the drain's end stops the
\* daemon.
StartPass(p) ==
    /\ ~Busy(p) /\ Ready # {}
    /\ p = Heartbeat \/ ~stopping
    /\ stopping' = (stopping \/ p # Heartbeat)
    /\ \E B \in Batch : pass' = [pass EXCEPT ![p].todo = Snapshot(B)]
    /\ UNCHANGED storeVars /\ UNCHANGED serverVars /\ UNCHANGED restarts

\* A repeat of a request that was carried out changes nothing any more.
CarryOut(r) ==
    /\ applied' = applied \cup {r}
    /\ flying' = flying \ {r}

\* The server carries the current row out, or had already (idempotent replay).
Land(p, r) ==
    /\ r \in applied => r \notin Guarded
    /\ CarryOut(r)
    /\ pass' = [pass EXCEPT ![p].answer = "ok"]

\* A business error: the operation is refused, or was already carried out by
\* an endpoint that cannot tell a repeat from a stale write.
Refuse(p, r) ==
    /\ r \in applied => r \in Guarded
    /\ pass' = [pass EXCEPT ![p].answer = "refused"]
    /\ UNCHANGED <<applied, flying>>

\* Transport error, timeout, 429 or 5xx: the request may still arrive.
Fail(p, r) ==
    /\ pass' = [pass EXCEPT ![p].answer = "transient"]
    /\ flying' = flying \cup ({r} \ applied)
    /\ UNCHANGED applied

Decide(p, r) ==
    /\ Awaiting(p, r)
    /\ Land(p, r) \/ Refuse(p, r)
    /\ UNCHANGED storeVars /\ UNCHANGED processVars

LoseTouch(p, r) ==
    /\ Awaiting(p, r)
    /\ Fail(p, r)
    /\ UNCHANGED storeVars /\ UNCHANGED processVars

\* A request given up on reaches the server after all.
Arrive(r) ==
    /\ r \in flying
    /\ CarryOut(r)
    /\ UNCHANGED storeVars /\ UNCHANGED pass /\ UNCHANGED processVars

-----------------------------------------------------------------------------
\* What the pass does with the answer, up to its next await.

GoOn(p, r) == pass' = [pass EXCEPT ![p] = [todo   |-> Remove(@.todo, r),
                                         answer |-> "none"]]

GiveUp(p) == pass' = [pass EXCEPT ![p] = IdlePass]

\* The row leaves its table, in the transaction of the caller.
Delete(r) ==
    /\ Committed(Remove(queue, r))
    /\ tried' = tried \ {r}
    /\ waiting' = waiting \ {r}

MarkSucceeded(p, r) ==
    /\ Answered(p, r, "ok")
    /\ Delete(r)
    /\ GoOn(p, r)
    /\ UNCHANGED <<dead, clock>>
    /\ UNCHANGED serverVars /\ UNCHANGED processVars

\* Mutant: the row is deleted without its copy in dead_letter.
Mutant_MoveToDeadLetter(p, r) ==
    /\ Answered(p, r, "refused")
    /\ r \notin dead \/ queue[r] = 0
    /\ Delete(r)
    /\ GoOn(p, r)
    /\ UNCHANGED <<dead, clock>>
    /\ UNCHANGED serverVars /\ UNCHANGED processVars

\* A row another pass has already resolved is left alone.
MoveToDeadLetter(p, r) ==
    /\ Answered(p, r, "refused")
    /\ r \notin dead \/ queue[r] = 0
    /\ dead' = dead \cup ({r} \cap Present(queue))
    /\ Delete(r)
    /\ GoOn(p, r)
    /\ UNCHANGED clock
    /\ UNCHANGED serverVars /\ UNCHANGED processVars

\* Mutant: the failure is not recorded, and the pass goes on.
Mutant_MarkFailed(p, r) ==
    /\ Answered(p, r, "transient")
    /\ Committed(queue)
    /\ GoOn(p, r)
    /\ UNCHANGED <<dead, clock, tried, waiting>>
    /\ UNCHANGED serverVars /\ UNCHANGED processVars

\* The row goes into backoff and the pass stops.
MarkFailed(p, r) ==
    /\ Answered(p, r, "transient")
    /\ LET rows == {r} \cap Present(queue) IN
         tried' = tried \cup rows /\ waiting' = waiting \cup rows
    /\ Committed(queue)
    /\ GiveUp(p)
    /\ UNCHANGED <<dead, clock>>
    /\ UNCHANGED serverVars /\ UNCHANGED processVars

InFlight(P) == {r \in Rows : \E p \in P : Awaiting(p, r)}

\* The process ends: what was not committed is gone, and so are the passes.
EndProcess ==
    /\ queue' = disk
    /\ pass' = [p \in Passes |-> IdlePass]
    /\ flying' = flying \cup (InFlight(Passes) \ applied)
    /\ stopping' = FALSE
    /\ UNCHANGED <<disk, tried, waiting, dead, durable, clock, applied>>

\* dead_letter already holds the id: the INSERT violates its primary key and
\* the transaction rolls back.  The exception is no StudioApiError: it ends
\* the daemon from the heartbeat, and only the drain from request_stop.
Poisoned(p, r) ==
    /\ Answered(p, r, "refused")
    /\ r \in dead /\ queue[r] # 0
    /\ \/ p = Heartbeat /\ EndProcess
       \/ /\ p # Heartbeat
          /\ queue' = disk
          /\ GiveUp(p)
          /\ UNCHANGED <<disk, tried, waiting, dead, durable, clock>>
          /\ UNCHANGED serverVars /\ UNCHANGED stopping
    /\ UNCHANGED restarts

\* request_stop stops waiting for the drain it started.
Abandon(p) ==
    /\ p # Heartbeat /\ Busy(p)
    /\ flying' = flying \cup (InFlight({p}) \ applied)
    /\ GiveUp(p)
    /\ UNCHANGED storeVars /\ UNCHANGED applied /\ UNCHANGED processVars

\* The daemon stops or crashes, and is started again.
Restart ==
    /\ restarts < MaxRestarts
    /\ restarts' = restarts + 1
    /\ EndProcess

Handle(p, r) ==
    \/ MarkSucceeded(p, r) \/ MoveToDeadLetter(p, r)
    \/ MarkFailed(p, r) \/ Poisoned(p, r)

Next ==
    \/ \E r \in Rows : Enqueue(r) \/ BackoffEnds(r) \/ Arrive(r)
    \/ Commit \/ Rollback \/ Restart
    \/ \E p \in Passes :
         \/ StartPass(p) \/ Abandon(p)
         \/ \E r \in Rows : Decide(p, r) \/ LoseTouch(p, r) \/ Handle(p, r)

Spec == Init /\ [][Next]_vars

\* The heartbeat comes back for ever, a backoff ends, a stopped daemon is
\* started again, and the server does not fail every request for ever.
Fairness ==
    /\ WF_vars(StartPass(Heartbeat))
    /\ WF_vars(\E r \in Rows : Handle(Heartbeat, r))
    /\ WF_vars(\E r \in Rows : Decide(Heartbeat, r) \/ LoseTouch(Heartbeat, r))
    /\ SF_vars(\E r \in Rows : Decide(Heartbeat, r))
    /\ \A r \in Rows : WF_vars(BackoffEnds(r))

FairSpec == Spec /\ Fairness

-----------------------------------------------------------------------------
Stamps == 0..MaxEnqueues

\* The variables have their types.
TypeOK ==
    /\ queue \in [Rows -> Stamps] /\ disk \in [Rows -> Stamps]
    /\ tried \subseteq Rows /\ waiting \subseteq Rows /\ dead \subseteq Rows
    /\ pass \in [Passes -> [todo : [Rows -> Stamps], answer : Answers]]
    /\ applied \subseteq Rows /\ flying \subseteq Rows
    /\ stopping \in BOOLEAN
    /\ clock \in Stamps /\ restarts \in 0..MaxRestarts
    /\ durable \subseteq Rows

\* Work that was committed once is on disk, in dead_letter, or carried out by
\* the server: two passes over the same rows, lost answers, rollbacks of other
\* transactions and crashes lose none of it (replay_ready, mark_succeeded,
\* move_to_dead_letter).
NothingLost ==
    \A r \in durable : disk[r] # 0 \/ r \in dead \/ r \in applied

\* A pass does not let a row overtake an older row of its table that is still
\* queued and has never been attempted: only a row that already failed once can be
\* overtaken (the order of list_pending, and the break in replay_ready).
OnlyFailedRowsAreOvertaken ==
    [][\A p \in Passes, r \in Rows : Decide(p, r) \/ LoseTouch(p, r) =>
         \A s \in Table(r) :
            0 < queue[s] /\ queue[s] < pass[p].todo[r] => s \in tried]_vars

\* A committed row leaves the queue in the end, unless some queued row's id is
\* in dead_letter already (the heartbeat's passes and mark_failed's backoff).
Stuck == \E r \in dead : disk[r] # 0
Drains == \A r \in Rows : disk[r] # 0 ~> (disk[r] = 0 \/ Stuck)

=============================================================================
