---------------------------- MODULE LaunchDaemon ----------------------------
(***************************************************************************)
(* A machine's daemon executing launches: the heartbeat loop that replays  *)
(* the outbox and pulls launches (daemon/heartbeat.py), the puller that    *)
(* decides them (launch_puller.py), the reporter that numbers the reports  *)
(* (launch_report.py) and the executor that runs them (launch_executor.py) *)
(* composed with the server's version-guarded launch rows.                 *)
(*                                                                         *)
(* The daemon is one event loop: a step is what runs between two awaits,   *)
(* and a request of its is carried out by the server in the step that      *)
(* receives its answer, or loses it.  Reports are the only outbox rows     *)
(* here: module Outbox has the others, overlapping passes and rollbacks.   *)
(***************************************************************************)
EXTENDS FiniteSets, Integers, SequencesExt

CONSTANTS
    Launches,
    MaxConcurrent,   \* the policy's max_concurrent
    MaxFaults,       \* bound on requests that fail or whose answer is lost
    MaxCrashes,      \* bound on ends of the daemon's process
    MaxStops         \* bound on launches cancelled or expired

ASSUME LaunchesAssumption == IsFiniteSet(Launches)
ASSUME BoundsAssumption ==
    MaxConcurrent \in Nat /\ MaxFaults \in Nat /\ MaxCrashes \in Nat /\ MaxStops \in Nat

VARIABLES
    row,        \* the server's launches
    queue,      \* the reports in the outbox, as the daemon's connection sees them
    committed,  \* how many of them the daemon itself has committed
    dead,       \* the keys in dead_letter
    step,       \* where the heartbeat loop is
    batch,      \* the keys of the rows its replay pass has still to send
    accepted,   \* the launches accepted by the last pull, not submitted yet
    decided,    \* LaunchPuller._decided, by launch
    reconciled, \* LaunchPuller._reconciled
    sent,       \* LaunchReporter._sent: the reports enqueued by this process
    task,       \* the executor's tasks, by launch
    stopped,    \* LaunchExecutor._stopped
    faults, crashes,
    started     \* history: how often each launch's harness was started

memory == <<decided, reconciled>>
puller == <<accepted, memory>>
executor == <<task, stopped, started>>
outbox == <<queue, committed, dead>>
bounds == <<faults, crashes>>

vars == <<row, outbox, step, batch, puller, sent, executor, bounds>>

-----------------------------------------------------------------------------
OWNED_STATUSES == {"accepted", "preparing", "running"}

\* The executor's TERMINAL_STATUSES, which no machine reports: "cancelled" stands
\* for "expired" too, which the daemon treats alike.
StopStatuses == {"cancelled"}

\* The contract's.
TerminalStatuses == {"succeeded", "failed", "rejected"} \cup StopStatuses
Statuses == {"absent", "requested"} \cup OWNED_STATUSES \cup TerminalStatuses

MachineTransitions ==
    {<<"requested", "accepted">>, <<"requested", "rejected">>,
     <<"accepted", "preparing">>, <<"preparing", "running">>, <<"running", "succeeded">>}
       \cup (OWNED_STATUSES \X {"failed"})

Row == [status : Statuses, version : Nat]

\* A report's outbox row; its id is derived from what Key keeps of it.
Report == [launch : Launches, expected : Nat, status : Statuses, ready : BOOLEAN]

Key(report) == <<report.launch, report.expected>>
Keys == Launches \X Nat

Live(l) == row[l].status \notin TerminalStatuses \cup {"absent"}

-----------------------------------------------------------------------------
(* The reporter and the outbox *)

\* Mutant: the reports already enqueued are not counted.
Mutant_expected_version(l, version) == version

\* expected_version: the pulled version, plus the reports enqueued since.
expected_version(l, version) == version + sent[l]

NewReport(l, version, status) ==
    [launch |-> l, expected |-> expected_version(l, version), status |-> status, ready |-> TRUE]

\* Mutant: no report is ignored.
Mutant_Enqueued(q, reports) == q \o SetToSeq(reports)

\* INSERT OR IGNORE: a report whose key is queued already is dropped.
Enqueued(q, reports) ==
    q \o SetToSeq({report \in reports : \A i \in DOMAIN q : Key(q[i]) # Key(report)})

\* A report of the executor's, whose launch object comes from the pull that
\* accepted it: it was requested then, which is version 1.
SendReport(l, status) ==
    /\ queue' = Enqueued(queue, {NewReport(l, 1, status)})
    /\ sent' = [sent EXCEPT ![l] = @ + 1]

\* list_pending, whose rows a pass sends in the order of the queue.  Nobody else
\* deletes a row meanwhile, so that the rows themselves need not be kept.
ReadyRows == {Key(queue[i]) : i \in {j \in DOMAIN queue : queue[j].ready}}

Position ==
    CHOOSE i \in DOMAIN queue :
        Key(queue[i]) \in batch /\ \A j \in 1..(i - 1) : Key(queue[j]) \notin batch

First == queue[Position]
Rest == batch \ {Key(First)}

\* Rows are addressed by their key, when they are deleted and when a send failed.
Without == RemoveAt(queue, Position)

\* Mutant: a failed row is not kept.
Mutant_BackedOff == Without

BackedOff == [queue EXCEPT ![Position].ready = FALSE]

Commit == committed' = Len(queue')

-----------------------------------------------------------------------------
Init ==
    /\ row = [l \in Launches |-> [status |-> "absent", version |-> 0]]
    /\ queue = <<>> /\ committed = 0 /\ dead = {}
    /\ step = "beat" /\ batch = {}
    /\ accepted = {} /\ decided = [l \in Launches |-> "none"] /\ reconciled = FALSE
    /\ sent = [l \in Launches |-> 0]
    /\ task = [l \in Launches |-> "none"] /\ stopped = {}
    /\ faults = 0 /\ crashes = 0
    /\ started = [l \in Launches |-> 0]

\* The server's own moves, which module TaskLaunch has in full.
Request(l) ==
    /\ row[l].status = "absent"
    /\ row' = [row EXCEPT ![l] = [status |-> "requested", version |-> 1]]
    /\ UNCHANGED <<outbox, step, batch, puller, sent, executor, bounds>>

StopLaunch(l) ==
    /\ Live(l)
    /\ Cardinality({k \in Launches : row[k].status \in StopStatuses}) < MaxStops
    /\ \E status \in StopStatuses :
         row' = [row EXCEPT ![l] = [status |-> status, version |-> @.version + 1]]
    /\ UNCHANGED <<outbox, step, batch, puller, sent, executor, bounds>>

\* A request that does not reach the server, or whose answer does not arrive.
Fault == faults < MaxFaults /\ faults' = faults + 1 /\ UNCHANGED crashes

-----------------------------------------------------------------------------
(* The heartbeat loop: replay, pull, replay again and submit *)

\* submit, once per launch and never for one that was stopped.
Submit(launches) ==
    task' = [l \in Launches |->
               IF l \in launches \ stopped /\ task[l] = "none" THEN "resolving" ELSE task[l]]

\* A pass with rows left to send; after the last one, what the pull before it
\* has accepted is submitted, or the pull comes next.
Replay(rows, pulled) ==
    /\ batch' = rows
    /\ \/ rows # {} /\ step' = "sending" /\ accepted' = pulled /\ UNCHANGED task
       \/ rows = {} /\ pulled = {} /\ step' = "poll" /\ accepted' = {} /\ UNCHANGED task
       \/ rows = {} /\ pulled # {} /\ step' = "beat" /\ accepted' = {} /\ Submit(pulled)
    /\ UNCHANGED <<stopped, started>>

Beat ==
    /\ step = "beat"
    /\ Replay(ReadyRows, {})
    /\ UNCHANGED <<row, outbox, memory, sent, bounds>>

Lands(report) ==
    /\ row[report.launch].version = report.expected
    /\ <<row[report.launch].status, report.status>> \in MachineTransitions

Landed(report) ==
    [row EXCEPT ![report.launch] = [status |-> report.status, version |-> @.version + 1]]

SendLands ==
    /\ step = "sending" /\ batch # {}
    /\ Lands(First)
    /\ row' = Landed(First)
    /\ queue' = Without /\ Commit
    /\ Replay(Rest, accepted)
    /\ UNCHANGED <<dead, memory, sent, bounds>>

\* A refused report is dead-lettered and the pass goes on.
SendRefused ==
    /\ step = "sending" /\ batch # {}
    /\ ~Lands(First) /\ Key(First) \notin dead
    /\ dead' = dead \cup {Key(First)}
    /\ queue' = Without /\ Commit
    /\ Replay(Rest, accepted)
    /\ UNCHANGED <<row, memory, sent, bounds>>

\* A transient failure ends the pass, whether or not the report has landed.
SendFails ==
    /\ step = "sending" /\ batch # {}
    /\ Fault
    /\ \/ UNCHANGED row
       \/ Lands(First) /\ row' = Landed(First)
    /\ queue' = BackedOff /\ Commit
    /\ Replay({}, accepted)
    /\ UNCHANGED <<dead, memory, sent>>

BackoffEnds ==
    /\ \E i \in DOMAIN queue : ~queue[i].ready
    /\ queue' = [i \in DOMAIN queue |-> [queue[i] EXCEPT !.ready = TRUE]]
    /\ UNCHANGED <<row, committed, dead, step, batch, puller, sent, executor, bounds>>

-----------------------------------------------------------------------------
(* LaunchPuller.poll *)

Orphans ==
    IF reconciled THEN {}
    ELSE {l \in Launches : row[l].status \in OWNED_STATUSES /\ task[l] = "none"}

\* _decided, without the launches that are no longer live and with the orphans.
StillDecided ==
    [l \in Launches |-> IF l \in Orphans THEN "failed"
                        ELSE IF Live(l) THEN decided[l] ELSE "none"]

\* Mutant: decisions whose reports have not landed yet do not count.
Mutant_Active == {l \in Launches : row[l].status \in OWNED_STATUSES}

Active ==
    {l \in Launches : \/ row[l].status \in OWNED_STATUSES /\ StillDecided[l] = "none"
                      \/ StillDecided[l] = "accepted"}

Undecided == {l \in Launches : row[l].status = "requested" /\ StillDecided[l] = "none"}

\* One each, with the version it was pulled with, those of the orphans first.
PullReports(yes) ==
    Enqueued(
        Enqueued(queue, {NewReport(l, row[l].version, "failed") : l \in Orphans}),
        {NewReport(l, row[l].version, IF l \in yes THEN "accepted" ELSE "rejected") :
            l \in Undecided})

\* The policy accepts within its capacity, and may refuse for other reasons.
Poll ==
    /\ step = "poll"
    /\ \E yes \in SUBSET Undecided :
         /\ yes # {} => Cardinality(Active \cup yes) <= MaxConcurrent
         /\ decided' = [l \in Launches |-> IF l \in yes THEN "accepted"
                                           ELSE IF l \in Undecided THEN "rejected"
                                           ELSE StillDecided[l]]
         /\ queue' = PullReports(yes)
         /\ IF yes = {} THEN step' = "beat" /\ UNCHANGED <<batch, accepted, executor>>
                        ELSE Replay(ReadyRows', yes)
    /\ sent' = [l \in Launches |-> IF l \in Orphans \cup Undecided THEN sent[l] + 1 ELSE sent[l]]
    /\ reconciled' = TRUE
    /\ UNCHANGED <<row, committed, dead, bounds>>

PollFails ==
    /\ step = "poll"
    /\ Fault
    /\ step' = "beat"
    /\ UNCHANGED <<row, outbox, batch, puller, sent, executor>>

-----------------------------------------------------------------------------
(* LaunchExecutor: one task per launch, and the loop that watches them *)

EndTask(l) == task' = [task EXCEPT ![l] = "none"]

\* _is_terminal asks the server before and after the preparation, for a stop: a
\* launch that failed does not end its run.  No answer counts as a no, so a run
\* may go on whatever the status is.
FoundStopped(l) ==
    /\ task[l] \in {"resolving", "preparing"}
    /\ row[l].status \in StopStatuses
    /\ EndTask(l) /\ stopped' = stopped \cup {l}
    /\ UNCHANGED <<row, outbox, step, batch, puller, sent, started, bounds>>

Prepare(l) ==
    /\ task[l] = "resolving"
    /\ SendReport(l, "preparing")
    /\ task' = [task EXCEPT ![l] = "preparing"]
    /\ UNCHANGED <<row, committed, dead, step, batch, puller, stopped, started, bounds>>

\* Mutant: a credential is issued for any launch that is not over.
Mutant_Issuable(l) == Live(l)

\* issue_credential, on the server: no harness starts without.
Issuable(l) == row[l].status \in OWNED_STATUSES

StartHarness(l) ==
    /\ task[l] = "preparing"
    /\ Issuable(l)
    /\ SendReport(l, "running")
    /\ task' = [task EXCEPT ![l] = "running"]
    /\ started' = [started EXCEPT ![l] = @ + 1]
    /\ UNCHANGED <<row, committed, dead, step, batch, puller, stopped, bounds>>

\* Any of the steps may fail, and so may the harness: one that does not start
\* has been reported running too, and fails at once.
FailTask(l) ==
    /\ task[l] # "none"
    /\ SendReport(l, "failed")
    /\ EndTask(l)
    /\ UNCHANGED <<row, committed, dead, step, batch, puller, stopped, started, bounds>>

Succeed(l) ==
    /\ task[l] = "running"
    /\ SendReport(l, "succeeded")
    /\ EndTask(l)
    /\ UNCHANGED <<row, committed, dead, step, batch, puller, stopped, started, bounds>>

\* Mutant: stopping kills the harness, but leaves a task that has none yet.
Mutant_StopTask(l) ==
    IF task[l] = "running" THEN EndTask(l) ELSE UNCHANGED task

\* _stop cancels the task at the await it is at, and kills its harness.
StopTask(l) == EndTask(l)

Observe(l) ==
    /\ task[l] # "none" /\ l \notin stopped
    /\ row[l].status \in StopStatuses
    /\ stopped' = stopped \cup {l}
    /\ StopTask(l)
    /\ UNCHANGED <<row, outbox, step, batch, puller, sent, started, bounds>>

-----------------------------------------------------------------------------
(* The process *)

\* What the process had in memory is gone, its tasks with it; so are the last
\* rows, those that no other writer on its connection has committed by then.
\* A new process starts.
NewProcess ==
    /\ \E n \in committed..Len(queue) : queue' = SubSeq(queue, 1, n)
    /\ Commit
    /\ step' = "beat" /\ batch' = {}
    /\ accepted' = {} /\ decided' = [l \in Launches |-> "none"] /\ reconciled' = FALSE
    /\ sent' = [l \in Launches |-> 0]
    /\ task' = [l \in Launches |-> "none"] /\ stopped' = {}
    /\ UNCHANGED <<row, dead, started>>

Crash ==
    /\ crashes < MaxCrashes
    /\ crashes' = crashes + 1 /\ UNCHANGED faults
    /\ NewProcess

Blocking(report) == Key(report) \in dead /\ ~Lands(report)

\* A refused report whose key is in dead_letter cannot be moved there: the
\* error is no StudioApiError, and ends the heartbeat loop and the daemon.
PoisonedPass ==
    /\ step = "sending" /\ batch # {}
    /\ Blocking(First)
    /\ NewProcess
    /\ UNCHANGED bounds

-----------------------------------------------------------------------------
Loop ==
    \/ Beat
    \/ SendLands
    \/ SendRefused
    \/ SendFails
    \/ Poll
    \/ PollFails
    \/ PoisonedPass

Run(l) ==
    \/ FoundStopped(l)
    \/ Prepare(l)
    \/ StartHarness(l)
    \/ FailTask(l)
    \/ Succeed(l)

Next ==
    \/ \E l \in Launches : Request(l)
    \/ \E l \in Launches : StopLaunch(l)
    \/ Loop
    \/ BackoffEnds
    \/ \E l \in Launches : Run(l)
    \/ \E l \in Launches : Observe(l)
    \/ Crash

Spec == Init /\ [][Next]_vars

\* The loop beats, backoffs end, and the watch loop reads every launch that
\* runs again and again, with an answer in the end.  Nothing bounds how long a run takes.
Fairness ==
    /\ WF_vars(Loop) /\ WF_vars(BackoffEnds)
    /\ \A l \in Launches : WF_vars(Observe(l))

FairSpec == Spec /\ Fairness

-----------------------------------------------------------------------------
(* Properties *)

\* The rows, the queue and the daemon's memory are well formed, and no two
\* queued reports have the same key.
TypeOK ==
    /\ row \in [Launches -> Row]
    /\ queue \in Seq(Report) /\ committed \in 0..Len(queue) /\ batch \subseteq Keys
    /\ \A i, j \in DOMAIN queue : i # j => Key(queue[i]) # Key(queue[j])
    /\ dead \subseteq Keys
    /\ step \in {"beat", "sending", "poll"}
    /\ accepted \subseteq Launches /\ reconciled \in BOOLEAN
    /\ decided \in [Launches -> {"none", "accepted", "rejected", "failed"}]
    /\ sent \in [Launches -> Nat] /\ started \in [Launches -> Nat]
    /\ task \in [Launches -> {"none", "resolving", "preparing", "running"}]
    /\ stopped \subseteq Launches
    /\ faults \in 0..MaxFaults /\ crashes \in 0..MaxCrashes

\* "A crash or reconnect can never start the same attempt twice", even though
\* decisions are forgotten in a crash and their reports may not have landed.
StartedOnce == \A l \in Launches : started[l] <= 1

\* The machine never works on more live launches than its policy allows, though
\* the statuses it pulls lag behind what it has decided.
CapacityHonoured ==
    Cardinality({l \in Launches : Live(l) /\ (task[l] # "none" \/ l \in accepted)})
        <= MaxConcurrent

\* The reports' numbers follow the server's version: without a failed request
\* or a crash, none is refused but those of a launch the server has ended.
NoReportRefused ==
    faults = 0 /\ crashes = 0 =>
        \A key \in dead : row[key[1]].status \in StopStatuses

\* A launch that was cancelled, or expired, stops running on the machine, wherever
\* its task is when the status changes and whatever the daemon has forgotten of it.
\* One that a report from before a crash has failed need not: nothing looks for it.
CancelledRunStops ==
    \A l \in Launches :
        row[l].status \in StopStatuses /\ task[l] # "none" ~> task[l] = "none"

\* Every request is answered or ended, through lost answers, decisions forgotten
\* in a crash and reports that were never committed; unless a report that can be
\* neither sent nor dead-lettered blocks the queue.
RequestsAreAnswered ==
    \A l \in Launches :
        row[l].status = "requested" ~>
            \/ row[l].status # "requested"
            \/ \E i \in DOMAIN queue : Blocking(queue[i])

=============================================================================
