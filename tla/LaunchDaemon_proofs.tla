------------------------- MODULE LaunchDaemon_proofs -------------------------
(* Proofs about LaunchDaemon: for any set of launches, however many         *)
(* requests fail, processes crash and launches are stopped.  First that a   *)
(* harness starts once (IInv), then the capacity (CapacityInv), the types   *)
(* of the outbox (TypeInv) and the numbers of the reports (NumberInv).      *)
EXTENDS LaunchDaemon, FiniteSetTheorems, SequenceTheorems, NaturalsInduction, TLAPS

USE LaunchesAssumption, BoundsAssumption

Decisions == {"none", "accepted", "rejected", "failed"}
TaskSteps == {"none", "resolving", "preparing", "running"}

\* The types of what decides whether a harness is started.
MemoryOK ==
    /\ row \in [Launches -> Row]
    /\ accepted \subseteq Launches
    /\ decided \in [Launches -> Decisions]
    /\ task \in [Launches -> TaskSteps]
    /\ started \in [Launches -> Nat]

Untaken(l) == row[l].status \in {"absent", "requested"}

\* A launch the daemon is about to run or runs exists, and the daemon remembers
\* that it accepted it until the server has learnt so.
Remembered(l) ==
    l \in accepted \/ task[l] # "none" =>
        /\ row[l].status # "absent"
        /\ row[l].status = "requested" => decided[l] = "accepted"

\* A harness is started once: what has not come so far was never started, and a
\* launch that was is not offered again.
OnceSound(l) ==
    /\ l \in accepted => task[l] = "none" /\ started[l] = 0
    /\ task[l] \in {"resolving", "preparing"} => started[l] = 0
    /\ started[l] > 0 => ~Untaken(l)
    /\ started[l] <= 1

IInv == MemoryOK /\ \A l \in Launches : Remembered(l) /\ OnceSound(l)

\* The server's rows only move away from "absent" and "requested", but for new
\* requests.
RowsMoveOn ==
    /\ row' \in [Launches -> Row]
    /\ \A l \in Launches : row'[l].status = row[l].status \/ ~Untaken(l)'

-----------------------------------------------------------------------------
LEMMA InitInv == Init => IInv
BY DEF Init, IInv, MemoryOK, Decisions, TaskSteps, Row, Statuses, Remembered, OnceSound, Untaken

LEMMA SameRows == ASSUME MemoryOK, UNCHANGED row PROVE RowsMoveOn
BY DEF MemoryOK, RowsMoveOn

LEMMA LandedMovesOn ==
    ASSUME MemoryOK, NEW report, Lands(report), row' = Landed(report)
    PROVE  RowsMoveOn
<1>1. report.status \in Statuses \ {"absent", "requested"}
  BY DEF Lands, MachineTransitions, OWNED_STATUSES, Statuses, TerminalStatuses
<1>2. CASE report.launch \notin Launches
  <2>1. row' = row
    BY <1>2 DEF Landed, MemoryOK
  <2> QED BY <2>1, SameRows
<1>3. CASE report.launch \in Launches
  <2> DEFINE moved == [status |-> report.status, version |-> row[report.launch].version + 1]
  <2>1. row' = [row EXCEPT ![report.launch] = moved]
    BY DEF Landed
  <2>2. moved \in Row /\ moved.status \notin {"absent", "requested"}
    BY <1>1, <1>3 DEF MemoryOK, Row
  <2> HIDE DEF moved
  <2> QED BY <1>3, <2>1, <2>2 DEF RowsMoveOn, Untaken, MemoryOK
<1> QED BY <1>2, <1>3

\* A step that leaves the tasks, their history and the puller's memory alone.
LEMMA ServerAlone ==
    ASSUME IInv, RowsMoveOn, UNCHANGED <<accepted, decided, task, started>>
    PROVE  IInv'
BY DEF IInv, MemoryOK, RowsMoveOn, Remembered, OnceSound, Untaken

\* A pass keeps what is pulled until its end, and then submits it.
LEMMA ReplayEffect ==
    ASSUME MemoryOK, NEW rows, NEW pulled \in SUBSET Launches, Replay(rows, pulled)
    PROVE  /\ task' \in [Launches -> TaskSteps]
           /\ started' = started
           /\ \/ accepted' = pulled /\ task' = task
              \/ /\ accepted' = {}
                 /\ \A l \in Launches :
                      \/ task'[l] = task[l]
                      \/ l \in pulled /\ task[l] = "none" /\ task'[l] = "resolving"
BY DEF Replay, Submit, MemoryOK, TaskSteps

LEMMA ReplayStep ==
    ASSUME IInv, RowsMoveOn, UNCHANGED decided,
           NEW rows, NEW pulled \in {{}, accepted}, Replay(rows, pulled)
    PROVE  IInv'
<1>1. MemoryOK /\ pulled \in SUBSET Launches
  BY DEF IInv, MemoryOK
<1>2. MemoryOK'
  BY <1>1, ReplayEffect DEF MemoryOK, RowsMoveOn
<1>3. ASSUME NEW l \in Launches PROVE Remembered(l)' /\ OnceSound(l)'
  <2>1. Remembered(l) /\ OnceSound(l)
    BY DEF IInv
  <2>2. /\ started'[l] = started[l]
        /\ l \in accepted' => l \in pulled /\ task'[l] = task[l]
        /\ \/ task'[l] = task[l]
           \/ l \in pulled /\ task[l] = "none" /\ task'[l] = "resolving"
    BY <1>1, ReplayEffect
  <2>3. row'[l].status = row[l].status \/ ~Untaken(l)'
    BY DEF RowsMoveOn
  <2>4. l \in pulled => l \in accepted
    OBVIOUS
  <2> QED BY <2>1, <2>2, <2>3, <2>4 DEF Remembered, OnceSound, Untaken
<1> QED BY <1>2, <1>3 DEF IInv

-----------------------------------------------------------------------------
\* What the puller still has decided of a launch that nobody has taken.
LEMMA StillDecidedRequested ==
    ASSUME MemoryOK, NEW l \in Launches, row[l].status = "requested"
    PROVE  StillDecided[l] = decided[l]
BY DEF StillDecided, Orphans, OWNED_STATUSES, Live, TerminalStatuses, StopStatuses, MemoryOK

LEMMA PollStep == ASSUME IInv, Poll PROVE IInv'
<1> PICK yes \in SUBSET Undecided :
      /\ decided' = [l \in Launches |-> IF l \in yes THEN "accepted"
                                        ELSE IF l \in Undecided THEN "rejected"
                                        ELSE StillDecided[l]]
      /\ IF yes = {} THEN step' = "beat" /\ UNCHANGED <<batch, accepted, executor>>
                     ELSE Replay(ReadyRows', yes)
  BY DEF Poll
<1>0. MemoryOK /\ row' = row /\ Undecided \subseteq Launches
  BY DEF IInv, Poll, Undecided
<1>1. decided' \in [Launches -> Decisions]
  <2>1. \A l \in Launches : StillDecided[l] \in Decisions
    BY <1>0 DEF StillDecided, MemoryOK, Decisions
  <2> QED BY <2>1 DEF Decisions
<1>2. \A l \in yes : row[l].status = "requested" /\ StillDecided[l] = "none"
  BY DEF Undecided
<1>3. \A l \in yes : l \in Launches /\ task[l] = "none" /\ started[l] = 0
  <2> SUFFICES ASSUME NEW l \in yes PROVE l \in Launches /\ task[l] = "none" /\ started[l] = 0
    OBVIOUS
  <2>1. l \in Launches /\ row[l].status = "requested"
    BY <1>0, <1>2
  <2>2. decided[l] = "none"
    BY <1>0, <1>2, <2>1, StillDecidedRequested
  <2>3. task[l] = "none"
    BY <2>1, <2>2 DEF IInv, Remembered
  <2>4. started[l] = 0
    BY <2>1 DEF IInv, OnceSound, Untaken, MemoryOK
  <2> QED BY <2>1, <2>3, <2>4
<1>4. \A l \in Launches : row[l].status = "requested" /\ decided[l] = "accepted"
                             => decided'[l] = "accepted"
  <2> SUFFICES ASSUME NEW l \in Launches, row[l].status = "requested", decided[l] = "accepted"
               PROVE  decided'[l] = "accepted"
    OBVIOUS
  <2>1. StillDecided[l] = "accepted"
    BY <1>0, StillDecidedRequested
  <2>2. l \notin Undecided
    BY <2>1 DEF Undecided
  <2> QED BY <2>1, <2>2
<1>5. CASE yes = {}
  <2>1. UNCHANGED <<accepted, task, started>>
    BY <1>5 DEF executor
  <2>2. MemoryOK'
    BY <1>0, <1>1, <2>1 DEF MemoryOK
  <2> QED BY <1>0, <1>4, <2>1, <2>2 DEF IInv, Remembered, OnceSound, Untaken
<1>6. CASE yes # {}
  <2>0. yes \in SUBSET Launches
    BY <1>0
  <2>1. Replay(ReadyRows', yes)
    BY <1>6
  <2>2. /\ task' \in [Launches -> TaskSteps]
        /\ started' = started
        /\ \/ accepted' = yes /\ task' = task
           \/ /\ accepted' = {}
              /\ \A l \in Launches :
                   \/ task'[l] = task[l]
                   \/ l \in yes /\ task[l] = "none" /\ task'[l] = "resolving"
    BY <1>0, <2>0, <2>1, ReplayEffect
  <2>3. MemoryOK'
    BY <1>0, <1>1, <2>0, <2>2 DEF MemoryOK
  <2>4. ASSUME NEW l \in Launches PROVE Remembered(l)' /\ OnceSound(l)'
    <3>1. Remembered(l) /\ OnceSound(l) /\ row'[l] = row[l] /\ started'[l] = started[l]
      BY <1>0, <2>2 DEF IInv
    <3>2. CASE l \in yes
      <4>1. decided'[l] = "accepted" /\ row[l].status = "requested"
        BY <1>2, <3>2
      <4>2. task[l] = "none" /\ started[l] = 0
        BY <1>3, <3>2
      <4>3. task'[l] \in {"none", "resolving"} /\ (l \in accepted' => task'[l] = "none")
        BY <2>2, <4>2
      <4> QED BY <3>1, <4>1, <4>2, <4>3 DEF Remembered, OnceSound, Untaken
    <3>3. CASE l \notin yes
      <4>1. l \notin accepted' /\ task'[l] = task[l]
        BY <2>2, <3>3
      <4> QED BY <1>4, <3>1, <4>1 DEF Remembered, OnceSound, Untaken
    <3> QED BY <3>2, <3>3
  <2> QED BY <2>3, <2>4 DEF IInv
<1> QED BY <1>5, <1>6

\* A new process remembers nothing, runs nothing and has nothing to submit.
LEMMA NewProcessStep == ASSUME IInv, NewProcess PROVE IInv'
BY DEF NewProcess, IInv, MemoryOK, Decisions, TaskSteps, Remembered, OnceSound, Untaken

LEMMA LoopStep == ASSUME IInv, Loop PROVE IInv'
<1>0. MemoryOK
  BY DEF IInv
<1>1. CASE Beat
  BY <1>0, <1>1, SameRows, ReplayStep DEF Beat, memory
<1>2. CASE SendLands
  BY <1>0, <1>2, LandedMovesOn, ReplayStep DEF SendLands, memory
<1>3. CASE SendRefused
  BY <1>0, <1>3, SameRows, ReplayStep DEF SendRefused, memory
<1>4. CASE SendFails
  <2>1. RowsMoveOn
    BY <1>0, <1>4, SameRows, LandedMovesOn DEF SendFails
  <2> QED BY <1>4, <2>1, ReplayStep DEF SendFails, memory
<1>5. CASE PollFails
  BY <1>0, <1>5, SameRows, ServerAlone DEF PollFails, puller, memory, executor
<1>6. CASE PoisonedPass
  BY <1>6, NewProcessStep DEF PoisonedPass
<1> QED BY <1>1, <1>2, <1>3, <1>4, <1>5, <1>6, PollStep DEF Loop

-----------------------------------------------------------------------------
\* A step of a launch's own task that does not start its harness.
LEMMA TaskMoves ==
    ASSUME IInv, NEW l \in Launches, task[l] # "none",
           NEW s \in TaskSteps, task' = [task EXCEPT ![l] = s],
           s \in {"resolving", "preparing"} => task[l] \in {"resolving", "preparing"},
           UNCHANGED <<row, accepted, decided, started>>
    PROVE  IInv'
<1>1. MemoryOK' /\ task'[l] = s /\ \A k \in Launches : k # l => task'[k] = task[k]
  BY DEF IInv, MemoryOK
<1> QED BY <1>1 DEF IInv, Remembered, OnceSound, Untaken

LEMMA StartHarnessStep == ASSUME IInv, NEW l \in Launches, StartHarness(l) PROVE IInv'
<1>1. MemoryOK /\ Remembered(l) /\ OnceSound(l)
  BY DEF IInv
<1>2. /\ task'[l] = "running" /\ started'[l] = 1
      /\ \A k \in Launches : k # l => task'[k] = task[k] /\ started'[k] = started[k]
      /\ MemoryOK'
  BY <1>1 DEF StartHarness, MemoryOK, OnceSound, TaskSteps, puller, memory
<1>3. UNCHANGED <<row, accepted, decided>>
  BY DEF StartHarness, puller, memory
<1>4. ~Untaken(l)
  BY DEF StartHarness, Issuable, OWNED_STATUSES, Untaken
<1> QED BY <1>1, <1>2, <1>3, <1>4 DEF IInv, StartHarness, Remembered, OnceSound, Untaken

LEMMA RunStep == ASSUME IInv, NEW l \in Launches, Run(l) \/ Observe(l) PROVE IInv'
<1> USE DEF puller, memory, TaskSteps
<1>1. CASE FoundStopped(l)
  BY <1>1, TaskMoves DEF FoundStopped, EndTask
<1>2. CASE Prepare(l)
  BY <1>2, TaskMoves DEF Prepare
<1>3. CASE FailTask(l)
  BY <1>3, TaskMoves DEF FailTask, EndTask
<1>4. CASE Succeed(l)
  BY <1>4, TaskMoves DEF Succeed, EndTask
<1>5. CASE Observe(l)
  BY <1>5, TaskMoves DEF Observe, StopTask, EndTask
<1> QED BY <1>1, <1>2, <1>3, <1>4, <1>5, StartHarnessStep DEF Run

LEMMA ServerStep ==
    ASSUME IInv, NEW l \in Launches, Request(l) \/ StopLaunch(l)
    PROVE  IInv'
<1> USE DEF puller, memory, executor
<1>1. CASE Request(l)
  <2>1. /\ row[l].status = "absent"
        /\ row' \in [Launches -> Row]
        /\ \A k \in Launches : k # l => row'[k] = row[k]
        /\ UNCHANGED <<accepted, decided, task, started>>
    BY <1>1 DEF Request, IInv, MemoryOK, Row, Statuses
  <2>2. l \notin accepted /\ task[l] = "none" /\ started[l] = 0
    BY <2>1 DEF IInv, MemoryOK, Remembered, OnceSound, Untaken
  <2>3. MemoryOK'
    BY <2>1 DEF IInv, MemoryOK
  <2> QED BY <2>1, <2>2, <2>3 DEF IInv, Remembered, OnceSound, Untaken
<1>2. CASE StopLaunch(l)
  <2>1. RowsMoveOn
    BY <1>2 DEF StopLaunch, IInv, MemoryOK, RowsMoveOn, Row, Statuses, TerminalStatuses,
       StopStatuses, Untaken
  <2> QED BY <1>2, <2>1, ServerAlone DEF StopLaunch
<1> QED BY <1>1, <1>2

LEMMA StepInv == IInv /\ [Next]_vars => IInv'
<1> SUFFICES ASSUME IInv, [Next]_vars PROVE IInv'
  OBVIOUS
<1>1. CASE UNCHANGED vars
  BY <1>1 DEF vars, puller, memory, executor, IInv, MemoryOK, Remembered, OnceSound, Untaken
<1>2. CASE BackoffEnds
  BY <1>2, SameRows, ServerAlone DEF BackoffEnds, IInv, puller, memory, executor
<1>3. CASE Crash
  BY <1>3, NewProcessStep DEF Crash
<1> QED BY <1>1, <1>2, <1>3, ServerStep, LoopStep, RunStep DEF Next

-----------------------------------------------------------------------------
\* The puller and the executor never start a launch's harness a second time:
\* not after a crash that forgot the decision, not when reports are lost,
\* refused or sent again, not when the launch is still shown as requested.
THEOREM HarnessStartsOnce == Spec => []StartedOnce
<1>1. IInv => StartedOnce
  BY DEF IInv, OnceSound, StartedOnce
<1> QED BY <1>1, InitInv, StepInv, PTL DEF Spec

-----------------------------------------------------------------------------
(* The capacity.                                                            *)
Working(l) == task[l] # "none" \/ l \in accepted

\* A launch worked on counts as active until it is over, whatever its status;
\* a pull finds nothing accepted that is not submitted.
CapacityInv ==
    /\ CapacityHonoured
    /\ step # "sending" => accepted = {}
    /\ \A l \in Launches : Live(l) /\ Working(l) => decided[l] = "accepted"

\* A step that brings no new work keeps to the capacity.
LEMMA NoNewWork ==
    ASSUME CapacityInv, step' # "sending" => accepted' = {},
           \A l \in Launches : Live(l)' /\ Working(l)' =>
               Live(l) /\ Working(l) /\ decided'[l] = decided[l]
    PROVE  CapacityInv'
<1> DEFINE busy == {l \in Launches : Live(l) /\ (task[l] # "none" \/ l \in accepted)}
<1>1. busy \subseteq Launches /\ busy' \subseteq busy
  BY DEF Working
<1> HIDE DEF busy
<1>2. IsFiniteSet(busy) /\ Cardinality(busy') <= Cardinality(busy)
  BY <1>1, FS_Subset
<1>3. IsFiniteSet(busy')
  BY <1>1, <1>2, FS_Subset
<1>4. Cardinality(busy) \in Nat /\ Cardinality(busy') \in Nat
  BY <1>2, <1>3, FS_CardinalityType
<1>5. Cardinality(busy) <= MaxConcurrent
  BY DEF CapacityInv, CapacityHonoured, busy
<1>6. Cardinality(busy') <= MaxConcurrent
  BY <1>2, <1>4, <1>5
<1>7. CapacityHonoured'
  BY <1>6 DEF CapacityHonoured, busy
<1>8. \A l \in Launches : Live(l)' /\ Working(l)' => decided'[l] = "accepted"
  BY DEF CapacityInv
<1> QED BY <1>7, <1>8 DEF CapacityInv

LEMMA LandedStaysOver ==
    ASSUME MemoryOK, NEW report, Lands(report), row' = Landed(report)
    PROVE  \A l \in Launches : Live(l)' => Live(l)
<1>1. row[report.launch].status \notin TerminalStatuses \cup {"absent"}
  BY DEF Lands, MachineTransitions, OWNED_STATUSES, TerminalStatuses, StopStatuses
<1>2. \A l \in Launches : l # report.launch => row'[l] = row[l]
  BY DEF Landed, MemoryOK
<1> QED BY <1>1, <1>2 DEF Live

\* A replay submits what was accepted and nothing else.
LEMMA ReplayCapacity ==
    ASSUME IInv, CapacityInv, \A l \in Launches : Live(l)' => Live(l), UNCHANGED decided,
           NEW rows, NEW pulled \in {{}, accepted}, Replay(rows, pulled)
    PROVE  CapacityInv'
<1>1. step' # "sending" => accepted' = {}
  BY DEF Replay
<1>2. \A l \in Launches : Working(l)' => Working(l)
  BY ReplayEffect DEF Working, IInv, MemoryOK
<1> QED BY <1>1, <1>2, NoNewWork

\* What the daemon works on counts as active in the pull's decision.
LEMMA WorkIsActive ==
    ASSUME IInv, CapacityInv, step = "poll", NEW l \in Launches, Live(l), Working(l)
    PROVE  StillDecided[l] = "accepted" /\ l \in Active
<1>1. decided[l] = "accepted" /\ task[l] # "none"
  BY DEF CapacityInv, Working
<1>2. l \notin Orphans
  BY <1>1 DEF Orphans
<1>3. StillDecided[l] = "accepted"
  BY <1>1, <1>2 DEF StillDecided
<1> QED BY <1>3 DEF Active

LEMMA PollCapacity == ASSUME IInv, CapacityInv, Poll PROVE CapacityInv'
<1> PICK yes \in SUBSET Undecided :
      /\ yes # {} => Cardinality(Active \cup yes) <= MaxConcurrent
      /\ decided' = [l \in Launches |-> IF l \in yes THEN "accepted"
                                        ELSE IF l \in Undecided THEN "rejected"
                                        ELSE StillDecided[l]]
      /\ IF yes = {} THEN step' = "beat" /\ UNCHANGED <<batch, accepted, executor>>
                     ELSE Replay(ReadyRows', yes)
  BY DEF Poll
<1>1. /\ step = "poll" /\ accepted = {} /\ row' = row /\ Undecided \subseteq Launches
      /\ MemoryOK /\ \A l \in Launches : Live(l)' <=> Live(l)
  BY DEF Poll, CapacityInv, IInv, Undecided, Live
<1>2. \A l \in Launches : Live(l) /\ Working(l) =>
        l \in Active /\ decided'[l] = "accepted" /\ decided[l] = "accepted"
  <2> SUFFICES ASSUME NEW l \in Launches, Live(l), Working(l)
               PROVE  l \in Active /\ decided'[l] = "accepted" /\ decided[l] = "accepted"
    OBVIOUS
  <2>1. StillDecided[l] = "accepted" /\ l \in Active
    BY <1>1, WorkIsActive
  <2>2. l \notin Undecided
    BY <2>1 DEF Undecided
  <2> QED BY <2>1, <2>2 DEF CapacityInv
<1>3. CASE yes = {}
  <2>1. step' = "beat" /\ accepted' = {} /\ task' = task
    BY <1>1, <1>3 DEF executor
  <2> QED BY <1>1, <1>2, <2>1, NoNewWork DEF Working
<1>4. CASE yes # {}
  <2>1. yes \in SUBSET Launches /\ Replay(ReadyRows', yes)
    BY <1>1, <1>4
  <2>2. step' # "sending" => accepted' = {}
    BY <2>1 DEF Replay
  <2>3. \A l \in Launches : Working(l)' => Working(l) \/ l \in yes
    BY <1>1, <2>1, ReplayEffect DEF Working
  <2>4. \A l \in Launches : Live(l)' /\ Working(l)' =>
          l \in Active \cup yes /\ decided'[l] = "accepted"
    BY <1>1, <1>2, <2>3
  <2> DEFINE busy == {l \in Launches : Live(l) /\ (task[l] # "none" \/ l \in accepted)}
  <2>5. busy' \subseteq Active \cup yes
    BY <2>4 DEF Working
  <2>6. Active \cup yes \subseteq Launches
    BY <2>1 DEF Active
  <2> HIDE DEF busy
  <2>7. IsFiniteSet(Active \cup yes)
    BY <2>6, FS_Subset
  <2>8. IsFiniteSet(busy') /\ Cardinality(busy') <= Cardinality(Active \cup yes)
    BY <2>5, <2>7, FS_Subset
  <2>9. Cardinality(busy') \in Nat /\ Cardinality(Active \cup yes) \in Nat
    BY <2>7, <2>8, FS_CardinalityType
  <2>10. Cardinality(busy') <= MaxConcurrent
    BY <1>4, <2>8, <2>9
  <2>11. CapacityHonoured'
    BY <2>10 DEF CapacityHonoured, busy
  <2> QED BY <2>2, <2>4, <2>11 DEF CapacityInv
<1> QED BY <1>3, <1>4

LEMMA CapacityStep == IInv /\ CapacityInv /\ [Next]_vars => CapacityInv'
<1> SUFFICES ASSUME IInv, CapacityInv, [Next]_vars PROVE CapacityInv'
  OBVIOUS
<1>1. MemoryOK
  BY DEF IInv
<1>2. CASE UNCHANGED <<row, step, accepted, decided, task>>
  BY <1>2, NoNewWork DEF CapacityInv, Live, Working
<1>3. CASE NewProcess
  BY <1>3, NoNewWork DEF NewProcess, Working
<1>4. ASSUME NEW l \in Launches, Request(l) PROVE CapacityInv'
  <2>1. /\ row[l].status = "absent" /\ \A k \in Launches : k # l => row'[k] = row[k]
        /\ UNCHANGED <<step, accepted, decided, task>>
    BY <1>1, <1>4 DEF Request, MemoryOK, puller, memory, executor
  <2>2. ~Working(l) /\ ~Working(l)'
    BY <2>1 DEF IInv, Remembered, Working
  <2> QED BY <2>1, <2>2, NoNewWork DEF CapacityInv, Live, Working
<1>5. ASSUME NEW l \in Launches, StopLaunch(l) PROVE CapacityInv'
  <2>1. /\ Live(l) /\ \A k \in Launches : k # l => row'[k] = row[k]
        /\ UNCHANGED <<step, accepted, decided, task>>
    BY <1>1, <1>5 DEF StopLaunch, MemoryOK, puller, memory, executor
  <2> QED BY <2>1, NoNewWork DEF CapacityInv, Live, Working
<1>6. CASE Beat
  BY <1>1, <1>6, ReplayCapacity DEF Beat, memory, Live
<1>7. CASE SendLands
  BY <1>1, <1>7, LandedStaysOver, ReplayCapacity DEF SendLands, memory
<1>8. CASE SendRefused
  BY <1>1, <1>8, ReplayCapacity DEF SendRefused, memory, Live
<1>9. CASE SendFails
  <2>1. \A l \in Launches : Live(l)' => Live(l)
    BY <1>1, <1>9, LandedStaysOver DEF SendFails, Live
  <2> QED BY <1>9, <2>1, ReplayCapacity DEF SendFails, memory
<1>10. CASE PollFails
  BY <1>10, NoNewWork DEF PollFails, CapacityInv, puller, memory, executor, Live, Working
<1>11. ASSUME NEW l \in Launches, Run(l) \/ Observe(l) PROVE CapacityInv'
  <2>1. UNCHANGED <<row, step, accepted, decided>>
    BY <1>11 DEF Run, FoundStopped, Prepare, StartHarness, FailTask, Succeed, Observe,
       puller, memory
  <2>2. \A k \in Launches : task'[k] # "none" => task[k] # "none"
    BY <1>1, <1>11 DEF Run, FoundStopped, Prepare, StartHarness, FailTask, Succeed, Observe,
       EndTask, StopTask, MemoryOK
  <2> QED BY <2>1, <2>2, NoNewWork DEF CapacityInv, Live, Working
<1>12. CASE BackoffEnds \/ UNCHANGED vars
  BY <1>2, <1>12 DEF BackoffEnds, vars, puller, memory, executor
<1> QED
  BY <1>3, <1>4, <1>5, <1>6, <1>7, <1>8, <1>9, <1>10, <1>11, <1>12, PollCapacity
     DEF Next, Loop, Crash, PoisonedPass

LEMMA CapacityInit == Init => CapacityInv
<1> SUFFICES ASSUME Init PROVE CapacityInv
  OBVIOUS
<1>1. {l \in Launches : Live(l) /\ (task[l] # "none" \/ l \in accepted)} = {}
  BY DEF Init
<1>2. CapacityHonoured
  BY <1>1, FS_EmptySet DEF CapacityHonoured
<1> QED BY <1>2 DEF Init, CapacityInv, Working

\* The machine never works on more live launches than max_concurrent, though a
\* pull shows statuses that lag behind what the daemon has decided.
THEOREM CapacityIsHonoured == Spec => []CapacityHonoured
<1>1. CapacityInv => CapacityHonoured
  BY DEF CapacityInv
<1> QED BY <1>1, InitInv, StepInv, CapacityInit, CapacityStep, PTL DEF Spec

-----------------------------------------------------------------------------
(* The queue's operators.                                                   *)

\* SetToSeq lists every element of a finite set, once.
LEMMA SetToSeqLists ==
    ASSUME NEW S, IsFiniteSet(S)
    PROVE  /\ SetToSeq(S) \in Seq(S)
           /\ \A i, j \in DOMAIN SetToSeq(S) : i # j => SetToSeq(S)[i] # SetToSeq(S)[j]
           /\ \A x \in S : \E i \in DOMAIN SetToSeq(S) : SetToSeq(S)[i] = x
<1> DEFINE n == Cardinality(S)
           s == SetToSeq(S)
<1>1. n \in Nat /\ ExistsBijection(1..n, S)
  BY FS_CardinalityType
<1>2. \E f \in [1..n -> S] : IsInjective(f)
  BY <1>1 DEF ExistsBijection, Bijection, Injection
<1>3. s \in [1..n -> S] /\ IsInjective(s)
  BY <1>2 DEF SetToSeq
<1>4. s \in Seq(S)
  BY <1>1, <1>3, SeqDef
<1>5. Cardinality(1..n) = n /\ IsFiniteSet(1..n)
  BY <1>1, FS_Interval
<1>6. s \in Surjection(1..n, S)
  BY <1>3, <1>5, FS_Injection DEF Injection
<1> QED BY <1>3, <1>4, <1>6 DEF Surjection, IsInjective

\* No two of these have the same key.
OneByKey(reports) == \A r, s \in reports : Key(r) = Key(s) => r = s
Distinct(q) == \A i, j \in DOMAIN q : i # j => Key(q[i]) # Key(q[j])

\* An insert keeps the queue and appends, once each, the reports whose key was
\* not queued.
LEMMA EnqueuedAppends ==
    ASSUME NEW q \in Seq(Report), NEW reports \in SUBSET Report, IsFiniteSet(reports),
           NEW e, e = Enqueued(q, reports)
    PROVE  /\ e \in Seq(Report) /\ Len(q) <= Len(e)
           /\ \A i \in DOMAIN q : i \in DOMAIN e /\ e[i] = q[i]
           /\ \A i \in DOMAIN e \ DOMAIN q :
                 e[i] \in reports /\ \A j \in DOMAIN q : Key(q[j]) # Key(e[i])
           /\ \A i, j \in DOMAIN e \ DOMAIN q : i # j => e[i] # e[j]
           /\ \A report \in reports : \E i \in DOMAIN e : Key(e[i]) = Key(report)
<1> DEFINE new == {report \in reports : \A i \in DOMAIN q : Key(q[i]) # Key(report)}
           s == SetToSeq(new)
<1>1. IsFiniteSet(new)
  BY FS_Subset
<1>2. /\ s \in Seq(new)
      /\ \A i, j \in DOMAIN s : i # j => s[i] # s[j]
      /\ \A x \in new : \E i \in DOMAIN s : s[i] = x
  BY <1>1, SetToSeqLists
<1> HIDE DEF s
<1>3. s \in Seq(Report) /\ DOMAIN s = 1..Len(s) /\ Len(s) \in Nat
      /\ \A i \in DOMAIN s : s[i] \in new
  <2>1. s \in Seq(Report)
    BY <1>2, SeqMonotonic
  <2> QED BY <1>2, <2>1, LenProperties, ElementOfSeq
<1>4. DOMAIN q = 1..Len(q) /\ Len(q) \in Nat
  BY LenProperties
<1>5. e = q \o s
  BY DEF Enqueued, s
<1>6. /\ e \in Seq(Report) /\ Len(e) = Len(q) + Len(s) /\ DOMAIN e = 1..Len(e)
      /\ \A i \in 1..(Len(q) + Len(s)) : e[i] = IF i <= Len(q) THEN q[i] ELSE s[i - Len(q)]
  BY <1>3, <1>5, ConcatProperties, LenProperties
<1>7. \A i \in DOMAIN q : i \in DOMAIN e /\ e[i] = q[i]
  BY <1>3, <1>4, <1>6
<1>8. \A i \in DOMAIN e \ DOMAIN q : i - Len(q) \in DOMAIN s /\ e[i] = s[i - Len(q)]
  BY <1>3, <1>4, <1>6
<1>9. \A i \in DOMAIN s : i + Len(q) \in DOMAIN e /\ e[i + Len(q)] = s[i]
  BY <1>3, <1>4, <1>6
<1>10. \A i \in DOMAIN e \ DOMAIN q :
          e[i] \in reports /\ \A j \in DOMAIN q : Key(q[j]) # Key(e[i])
  BY <1>3, <1>8
<1>11. \A i, j \in DOMAIN e \ DOMAIN q : i # j => e[i] # e[j]
  <2> SUFFICES ASSUME NEW i \in DOMAIN e \ DOMAIN q, NEW j \in DOMAIN e \ DOMAIN q, i # j
               PROVE  e[i] # e[j]
    OBVIOUS
  <2>1. i - Len(q) # j - Len(q)
    BY <1>4, <1>6
  <2> QED BY <1>2, <1>8, <2>1
<1>12. \A report \in reports : \E i \in DOMAIN e : Key(e[i]) = Key(report)
  <2> SUFFICES ASSUME NEW report \in reports PROVE \E i \in DOMAIN e : Key(e[i]) = Key(report)
    OBVIOUS
  <2>1. CASE report \in new
    <3>1. PICK i \in DOMAIN s : s[i] = report
      BY <1>2, <2>1
    <3> QED BY <1>9, <3>1
  <2>2. CASE report \notin new
    <3>1. PICK i \in DOMAIN q : Key(q[i]) = Key(report)
      BY <2>2
    <3> QED BY <1>7, <3>1
  <2> QED BY <2>1, <2>2
<1>13. Len(q) <= Len(e)
  BY <1>3, <1>4, <1>6
<1> QED BY <1>6, <1>7, <1>10, <1>11, <1>12, <1>13

\* No two queued reports get the same key, when no two of the new ones have.
LEMMA EnqueuedDistinct ==
    ASSUME NEW q \in Seq(Report), Distinct(q),
           NEW reports \in SUBSET Report, IsFiniteSet(reports),
           OneByKey(reports)
    PROVE  Distinct(Enqueued(q, reports))
<1> DEFINE e == Enqueued(q, reports)
<1>1. /\ \A i \in DOMAIN q : i \in DOMAIN e /\ e[i] = q[i]
      /\ \A i \in DOMAIN e \ DOMAIN q :
            e[i] \in reports /\ \A j \in DOMAIN q : Key(q[j]) # Key(e[i])
      /\ \A i, j \in DOMAIN e \ DOMAIN q : i # j => e[i] # e[j]
  BY EnqueuedAppends
<1> HIDE DEF e
<1> SUFFICES ASSUME NEW i \in DOMAIN e, NEW j \in DOMAIN e, i # j PROVE Key(e[i]) # Key(e[j])
  BY DEF Distinct, e
<1>2. CASE i \in DOMAIN q /\ j \in DOMAIN q
  BY <1>1, <1>2 DEF Distinct
<1>3. CASE i \in DOMAIN q /\ j \notin DOMAIN q
  BY <1>1, <1>3
<1>4. CASE i \notin DOMAIN q /\ j \in DOMAIN q
  BY <1>1, <1>4
<1>5. CASE i \notin DOMAIN q /\ j \notin DOMAIN q
  BY <1>1, <1>5 DEF OneByKey
<1> QED BY <1>2, <1>3, <1>4, <1>5

\* Deleting a row moves the later ones up by one.
LEMMA RemoveAtShifts ==
    ASSUME NEW q \in Seq(Report), NEW k \in DOMAIN q, NEW r, r = RemoveAt(q, k)
    PROVE  /\ r \in Seq(Report) /\ Len(r) = Len(q) - 1
           /\ \A i \in DOMAIN r : i + 1 \in DOMAIN q /\ i \in DOMAIN q
           /\ \A i \in DOMAIN r : r[i] = IF i < k THEN q[i] ELSE q[i + 1]
<1> DEFINE s == SubSeq(q, 1, k - 1)
           t == SubSeq(q, k + 1, Len(q))
<1>1. Len(q) \in Nat /\ DOMAIN q = 1..Len(q) /\ \A i \in 1..Len(q) : q[i] \in Report
  BY LenProperties, ElementOfSeq
<1>2. /\ s \in Seq(Report)
      /\ Len(s) = k - 1
      /\ \A i \in 1..(k - 1) : s[i] = q[i]
  <2>1. \A i \in 1..(k - 1) : q[i] \in Report
    BY <1>1
  <2>2. 1 \in Int /\ k - 1 \in Int
    BY <1>1
  <2>3. /\ s \in Seq(Report)
        /\ Len(s) = IF 1 <= k - 1 THEN (k - 1) - 1 + 1 ELSE 0
        /\ \A i \in 1..((k - 1) - 1 + 1) : s[i] = q[1 + i - 1]
    BY <2>1, <2>2, SubSeqProperties
  <2> QED BY <1>1, <2>3
<1>3. /\ t \in Seq(Report)
      /\ Len(t) = Len(q) - k
      /\ \A i \in 1..(Len(q) - k) : t[i] = q[i + k]
  <2>1. \A i \in (k + 1)..Len(q) : q[i] \in Report
    BY <1>1
  <2>2. k + 1 \in Int /\ Len(q) \in Int
    BY <1>1
  <2>3. /\ t \in Seq(Report)
        /\ Len(t) = IF k + 1 <= Len(q) THEN Len(q) - (k + 1) + 1 ELSE 0
        /\ \A i \in 1..(Len(q) - (k + 1) + 1) : t[i] = q[(k + 1) + i - 1]
    BY <2>1, <2>2, SubSeqProperties
  <2> HIDE DEF t
  <2>4. Len(t) = Len(q) - k
    BY <1>1, <2>3
  <2>5. ASSUME NEW i \in 1..(Len(q) - k) PROVE t[i] = q[i + k]
    <3>1. i \in 1..(Len(q) - (k + 1) + 1) /\ (k + 1) + i - 1 = i + k
      BY <1>1
    <3> QED BY <2>3, <3>1
  <2> QED BY <2>3, <2>4, <2>5
<1>4. r = s \o t
  BY DEF RemoveAt
<1> HIDE DEF s, t
<1>5. /\ r \in Seq(Report) /\ Len(r) = Len(s) + Len(t) /\ DOMAIN r = 1..Len(r)
      /\ \A i \in 1..(Len(s) + Len(t)) : r[i] = IF i <= Len(s) THEN s[i] ELSE t[i - Len(s)]
  BY <1>2, <1>3, <1>4, ConcatProperties, LenProperties
<1>6. Len(r) = Len(q) - 1
  BY <1>1, <1>2, <1>3, <1>5
<1>7. \A i \in DOMAIN r : i + 1 \in DOMAIN q /\ i \in DOMAIN q
  BY <1>1, <1>5, <1>6
<1>8. ASSUME NEW i \in DOMAIN r PROVE r[i] = IF i < k THEN q[i] ELSE q[i + 1]
  <2>1. CASE i < k
    BY <1>1, <1>2, <1>5, <1>6, <2>1
  <2>2. CASE ~(i < k)
    <3>1. i - (k - 1) \in 1..(Len(q) - k) /\ (i - (k - 1)) + k = i + 1 /\ ~(i <= k - 1)
      BY <1>1, <1>5, <1>6, <2>2
    <3> QED BY <1>2, <1>3, <1>5, <2>2, <3>1
  <2> QED BY <2>1, <2>2
<1> QED BY <1>5, <1>6, <1>7, <1>8

-----------------------------------------------------------------------------
(* The types.                                                               *)
QueuedKeys(q) == {Key(q[i]) : i \in DOMAIN q}

\* No key is queued twice, no committed row is missing, and what a pass has
\* still to send is queued.
QueueOK(q, c, rows) ==
    q \in Seq(Report) /\ c \in 0..Len(q) /\ Distinct(q) /\ rows \subseteq QueuedKeys(q)

TypeInv ==
    /\ QueueOK(queue, committed, batch)
    /\ dead \subseteq Keys
    /\ step \in {"beat", "sending", "poll"}
    /\ reconciled \in BOOLEAN
    /\ sent \in [Launches -> Nat]
    /\ stopped \subseteq Launches
    /\ faults \in 0..MaxFaults /\ crashes \in 0..MaxCrashes

\* What is read off a well-formed report, and off a queue of them.
LEMMA KeyOf ==
    ASSUME NEW report \in Report
    PROVE  Key(report) \in Keys /\ Key(report)[1] = report.launch
           /\ Key(report)[2] = report.expected
           /\ report.launch \in Launches /\ report.expected \in Nat /\ report.status \in Statuses
BY DEF Report, Key, Keys

LEMMA QueueTypes ==
    ASSUME NEW q \in Seq(Report)
    PROVE  /\ DOMAIN q = 1..Len(q) /\ Len(q) \in Nat
           /\ \A i \in DOMAIN q : q[i] \in Report
           /\ QueuedKeys(q) \subseteq Keys
<1>1. /\ DOMAIN q = 1..Len(q) /\ Len(q) \in Nat
      /\ \A i \in DOMAIN q : q[i] \in Report
  BY LenProperties, ElementOfSeq
<1> QED BY <1>1, KeyOf DEF QueuedKeys

\* A pass sends the first of its rows that is queued.
LEMMA FirstOf ==
    ASSUME TypeInv, batch # {}
    PROVE  /\ Position \in DOMAIN queue /\ First = queue[Position] /\ First \in Report
           /\ Key(First) \in batch
           /\ \A i \in DOMAIN queue : i < Position => Key(queue[i]) \notin batch
<1> DEFINE own == {i \in DOMAIN queue : Key(queue[i]) \in batch}
<1>1. /\ DOMAIN queue = 1..Len(queue) /\ Len(queue) \in Nat
      /\ \A i \in DOMAIN queue : queue[i] \in Report
  BY QueueTypes DEF TypeInv, QueueOK
<1>2. own # {}
  BY DEF TypeInv, QueueOK, QueuedKeys
<1>3. own \subseteq Nat
  BY <1>1
<1> HIDE DEF own
<1>4. PICK i \in own : \A j \in own : ~(<<j, i>> \in OpToRel(<, Nat))
  BY <1>2, <1>3, NatLessThanWellFounded, WFMin, Zenon
<1>5. \A j \in own : i <= j
  <2> SUFFICES ASSUME NEW j \in own PROVE i <= j
    OBVIOUS
  <2>1. ~(<<j, i>> \in OpToRel(<, Nat))
    BY <1>4
  <2> QED BY <1>3, <2>1 DEF OpToRel
<1>6. i \in DOMAIN queue /\ Key(queue[i]) \in batch
  BY DEF own
<1>7. \A j \in 1..(i - 1) : Key(queue[j]) \notin batch
  <2> SUFFICES ASSUME NEW j \in 1..(i - 1) PROVE Key(queue[j]) \notin batch
    OBVIOUS
  <2>1. j \in DOMAIN queue /\ ~(i <= j)
    BY <1>1, <1>6
  <2> QED BY <1>5, <2>1 DEF own
<1>8. /\ Position \in DOMAIN queue /\ Key(queue[Position]) \in batch
      /\ \A j \in 1..(Position - 1) : Key(queue[j]) \notin batch
  BY <1>6, <1>7 DEF Position
<1>9. \A j \in DOMAIN queue : j < Position => j \in 1..(Position - 1)
  BY <1>1, <1>8
<1> QED BY <1>1, <1>8, <1>9 DEF First

\* A row that is deleted takes its key along, and no other.
LEMMA DeletedRow ==
    ASSUME TypeInv, batch # {}, NEW q, q = Without
    PROVE  /\ QueueOK(q, Len(q), Rest)
           /\ \A i \in DOMAIN q : \E j \in DOMAIN queue :
                 q[i] = queue[j] /\ j # Position /\ (j = i \/ j = i + 1)
<1>1. /\ Position \in DOMAIN queue /\ First = queue[Position]
      /\ queue \in Seq(Report) /\ Distinct(queue) /\ batch \subseteq QueuedKeys(queue)
  BY FirstOf DEF TypeInv, QueueOK
<1>2. /\ q \in Seq(Report) /\ Len(q) = Len(queue) - 1
      /\ \A i \in DOMAIN q : i + 1 \in DOMAIN queue /\ i \in DOMAIN queue
      /\ \A i \in DOMAIN q : q[i] = IF i < Position THEN queue[i] ELSE queue[i + 1]
  <2>1. q = RemoveAt(queue, Position)
    BY DEF Without
  <2> QED BY <1>1, <2>1, RemoveAtShifts, Zenon
<1>3. /\ DOMAIN q = 1..Len(q) /\ Len(q) \in Nat
      /\ DOMAIN queue = 1..Len(queue) /\ Len(queue) \in Nat
  BY <1>1, <1>2, QueueTypes
<1>4. Distinct(q)
  <2> SUFFICES ASSUME NEW i \in DOMAIN q, NEW j \in DOMAIN q, i # j PROVE Key(q[i]) # Key(q[j])
    BY DEF Distinct
  <2> DEFINE k == IF i < Position THEN i ELSE i + 1
             l == IF j < Position THEN j ELSE j + 1
  <2>1. k \in DOMAIN queue /\ q[i] = queue[k] /\ l \in DOMAIN queue /\ q[j] = queue[l]
    BY <1>2
  <2>2. k # l
    BY <1>1, <1>3
  <2> QED BY <1>1, <2>1, <2>2 DEF Distinct
<1>5. Rest \subseteq QueuedKeys(q)
  <2> SUFFICES ASSUME NEW key \in Rest PROVE key \in QueuedKeys(q)
    OBVIOUS
  <2>1. PICK i \in DOMAIN queue : Key(queue[i]) = key
    BY <1>1 DEF Rest, QueuedKeys
  <2>2. i # Position
    BY <1>1, <2>1 DEF Rest
  <2> DEFINE k == IF i < Position THEN i ELSE i - 1
  <2>3. k \in DOMAIN q
    BY <1>1, <1>2, <1>3, <2>2
  <2>4. IF k < Position THEN k = i ELSE k + 1 = i
    BY <1>1, <1>3, <2>2
  <2>5. q[k] = queue[i]
    BY <1>2, <2>3, <2>4
  <2> HIDE DEF k
  <2> QED BY <2>1, <2>3, <2>5 DEF QueuedKeys
<1>6. \A i \in DOMAIN q : \E j \in DOMAIN queue :
          q[i] = queue[j] /\ j # Position /\ (j = i \/ j = i + 1)
  <2> SUFFICES ASSUME NEW i \in DOMAIN q
               PROVE  \E j \in DOMAIN queue :
                         q[i] = queue[j] /\ j # Position /\ (j = i \/ j = i + 1)
    OBVIOUS
  <2>1. CASE i < Position
    BY <1>1, <1>2, <1>3, <2>1
  <2>2. CASE ~(i < Position)
    <3>1. q[i] = queue[i + 1] /\ i + 1 # Position /\ i + 1 \in DOMAIN queue
      BY <1>1, <1>2, <1>3, <2>2
    <3> QED BY <3>1
  <2> QED BY <2>1, <2>2
<1> QED BY <1>2, <1>3, <1>4, <1>5, <1>6 DEF QueueOK

\* A queue of the same reports, whatever their readiness.
LEMMA SameKeys ==
    ASSUME TypeInv, NEW q \in Seq(Report), DOMAIN q = DOMAIN queue,
           \A i \in DOMAIN queue : Key(q[i]) = Key(queue[i])
    PROVE  QueueOK(q, committed, batch) /\ QueueOK(q, Len(q), batch)
<1>1. queue \in Seq(Report) /\ Len(q) = Len(queue) /\ Len(q) \in Nat
  BY QueueTypes DEF TypeInv, QueueOK
<1>2. Distinct(q) /\ QueuedKeys(q) = QueuedKeys(queue)
  BY DEF TypeInv, QueueOK, Distinct, QueuedKeys
<1> QED BY <1>1, <1>2 DEF TypeInv, QueueOK

\* A row that is put back keeps its place.
LEMMA BackedOffRow ==
    ASSUME TypeInv, batch # {}, NEW q, q = BackedOff
    PROVE  QueueOK(q, Len(q), batch) /\ QueueOK(q, Len(q), {})
<1>1. Position \in DOMAIN queue /\ queue \in Seq(Report) /\ queue[Position] \in Report
  BY FirstOf, QueueTypes DEF TypeInv, QueueOK
<1> DEFINE off == [queue[Position] EXCEPT !.ready = FALSE]
<1>2. off \in Report /\ Key(off) = Key(queue[Position])
  BY <1>1 DEF Report, Key
<1>3. q = [queue EXCEPT ![Position] = off]
  BY DEF BackedOff
<1> HIDE DEF off
<1>4. Position \in 1..Len(queue)
  BY <1>1, QueueTypes
<1>5. q \in Seq(Report) /\ DOMAIN q = DOMAIN queue
  BY <1>1, <1>2, <1>3, <1>4, ExceptSeq
<1>6. \A i \in DOMAIN queue : Key(q[i]) = Key(queue[i])
  BY <1>1, <1>2, <1>3
<1>7. QueueOK(q, Len(q), batch)
  BY <1>5, <1>6, SameKeys
<1> QED BY <1>7 DEF QueueOK

\* The ends of backoffs.
LEMMA ReadyAgain ==
    ASSUME TypeInv, NEW q, q = [i \in DOMAIN queue |-> [queue[i] EXCEPT !.ready = TRUE]]
    PROVE  QueueOK(q, committed, batch)
<1>1. /\ queue \in Seq(Report) /\ DOMAIN queue = 1..Len(queue) /\ Len(queue) \in Nat
      /\ \A i \in DOMAIN queue : queue[i] \in Report
  BY QueueTypes DEF TypeInv, QueueOK
<1>2. ASSUME NEW i \in DOMAIN queue PROVE q[i] \in Report /\ Key(q[i]) = Key(queue[i])
  <2>1. queue[i] \in Report /\ q[i] = [queue[i] EXCEPT !.ready = TRUE]
    BY <1>1
  <2> QED BY <2>1 DEF Report, Key
<1>3. q \in [1..Len(queue) -> Report] /\ DOMAIN q = DOMAIN queue
  BY <1>1, <1>2
<1>4. q \in Seq(Report)
  BY <1>1, <1>3, SeqDef
<1> QED BY <1>2, <1>3, <1>4, SameKeys

\* What was queued stays queued when reports are added.
LEMMA AddedRows ==
    ASSUME NEW q, NEW c, NEW rows, QueueOK(q, c, rows),
           NEW reports \in SUBSET Report, IsFiniteSet(reports),
           OneByKey(reports),
           NEW e, e = Enqueued(q, reports)
    PROVE  QueueOK(e, c, rows)
<1>1. q \in Seq(Report) /\ Len(q) \in Nat
  BY QueueTypes DEF QueueOK
<1>2. e \in Seq(Report) /\ Len(q) <= Len(e) /\ \A i \in DOMAIN q : i \in DOMAIN e /\ e[i] = q[i]
  BY <1>1, EnqueuedAppends
<1>3. Distinct(e)
  BY <1>1, EnqueuedDistinct DEF QueueOK
<1>4. Len(e) \in Nat
  BY <1>2, QueueTypes
<1>5. QueuedKeys(q) \subseteq QueuedKeys(e)
  BY <1>2 DEF QueuedKeys
<1> QED BY <1>1, <1>2, <1>3, <1>4, <1>5 DEF QueueOK

\* A report made by the daemon.
LEMMA NewReportOf ==
    ASSUME TypeInv, NEW l \in Launches, NEW version \in Nat, NEW status \in Statuses,
           NEW report, report = NewReport(l, version, status)
    PROVE  /\ report \in Report /\ Key(report) = <<l, version + sent[l]>>
           /\ report.launch = l /\ report.expected = version + sent[l]
           /\ report.status = status /\ report.ready
<1>1. version + sent[l] \in Nat
  BY DEF TypeInv
<1> QED BY <1>1 DEF NewReport, expected_version, Report, Key

\* One report each for some launches.
LEMMA OneEach ==
    ASSUME TypeInv, NEW L \in SUBSET Launches, NEW version \in [L -> Nat],
           NEW status \in [L -> Statuses],
           NEW reports,
           \A r \in reports : \E l \in L : r = NewReport(l, version[l], status[l])
    PROVE  /\ reports \in SUBSET Report /\ IsFiniteSet(reports)
           /\ OneByKey(reports)
<1> DEFINE f == [l \in L |-> NewReport(l, version[l], status[l])]
<1>1. ASSUME NEW l \in L PROVE f[l] \in Report /\ f[l].launch = l
  BY NewReportOf
<1> DEFINE image == {f[l] : l \in L}
<1>2. \A r \in reports : \E l \in L : r = f[l]
  OBVIOUS
<1>3. f \in [L -> image] /\ \A r \in image : \E l \in L : f[l] = r
  OBVIOUS
<1>4. IsFiniteSet(L)
  BY FS_Subset
<1>5. f \in Surjection(L, image)
  BY <1>3 DEF Surjection
<1>6. IsFiniteSet(reports)
  <2>1. reports \subseteq image
    BY <1>2
  <2>2. IsFiniteSet(image)
    BY <1>4, <1>5, FS_Surjection
  <2> HIDE DEF image
  <2> QED BY <2>1, <2>2, FS_Subset
<1> HIDE DEF f
<1>7. reports \in SUBSET Report
  BY <1>1, <1>2
<1>8. ASSUME NEW r \in reports, NEW s \in reports, Key(r) = Key(s) PROVE r = s
  <2>1. PICK k \in L : r = f[k]
    BY <1>2
  <2>2. PICK l \in L : s = f[l]
    BY <1>2
  <2>3. r.launch = s.launch
    BY <1>7, <1>8, KeyOf
  <2> QED BY <1>1, <2>1, <2>2, <2>3
<1> QED BY <1>6, <1>7, <1>8 DEF OneByKey

\* A pull's reports are added to the queue.
LEMMA PulledRows ==
    ASSUME TypeInv, MemoryOK, NEW yes, NEW e, e = PullReports(yes)
    PROVE  QueueOK(e, committed, batch) /\ QueueOK(e, committed, {})
<1> DEFINE orphans == {NewReport(l, row[l].version, "failed") : l \in Orphans}
           answers == {NewReport(l, row[l].version, IF l \in yes THEN "accepted" ELSE "rejected") :
                          l \in Undecided}
<1>1. Orphans \subseteq Launches /\ Undecided \subseteq Launches
  BY DEF Orphans, Undecided
<1>2. \A l \in Launches : row[l].version \in Nat
  BY DEF MemoryOK, Row
<1>3. {"failed", "accepted", "rejected"} \subseteq Statuses
  BY DEF Statuses, OWNED_STATUSES, TerminalStatuses
<1>4. /\ orphans \in SUBSET Report /\ IsFiniteSet(orphans)
      /\ OneByKey(orphans)
  <2> DEFINE version == [l \in Orphans |-> row[l].version]
             status == [l \in Orphans |-> "failed"]
  <2>1. /\ Orphans \in SUBSET Launches
        /\ version \in [Orphans -> Nat] /\ status \in [Orphans -> Statuses]
    BY <1>1, <1>2, <1>3
  <2>2. \A r \in orphans : \E l \in Orphans : r = NewReport(l, version[l], status[l])
    OBVIOUS
  <2> HIDE DEF version, status, orphans
  <2> QED BY <2>1, <2>2, OneEach, Zenon
<1>5. /\ answers \in SUBSET Report /\ IsFiniteSet(answers)
      /\ OneByKey(answers)
  <2> DEFINE version == [l \in Undecided |-> row[l].version]
             status == [l \in Undecided |-> IF l \in yes THEN "accepted" ELSE "rejected"]
  <2>1. /\ Undecided \in SUBSET Launches
        /\ version \in [Undecided -> Nat] /\ status \in [Undecided -> Statuses]
    BY <1>1, <1>2, <1>3
  <2>2. \A r \in answers : \E l \in Undecided : r = NewReport(l, version[l], status[l])
    OBVIOUS
  <2> HIDE DEF version, status, answers
  <2> QED BY <2>1, <2>2, OneEach, Zenon
<1>6. e = Enqueued(Enqueued(queue, orphans), answers)
  BY DEF PullReports
<1> HIDE DEF orphans, answers
<1>7. QueueOK(queue, committed, batch)
  BY DEF TypeInv
<1>8. QueueOK(Enqueued(queue, orphans), committed, batch)
  BY <1>4, <1>7, AddedRows
<1>9. QueueOK(e, committed, batch)
  BY <1>5, <1>6, <1>8, AddedRows
<1> QED BY <1>9 DEF QueueOK

\* A run's report is added to the queue.
LEMMA SentRow ==
    ASSUME TypeInv, NEW l \in Launches, NEW status \in Statuses, SendReport(l, status)
    PROVE  QueueOK(queue', committed, batch) /\ sent' \in [Launches -> Nat]
<1> DEFINE reports == {NewReport(l, 1, status)}
<1>0. NewReport(l, 1, status) \in Report
  BY NewReportOf
<1>1. reports \in SUBSET Report /\ IsFiniteSet(reports)
  BY <1>0, FS_Singleton
<1>2. OneByKey(reports)
  BY DEF OneByKey
<1>3. queue' = Enqueued(queue, reports)
  BY DEF SendReport
<1> HIDE DEF reports
<1>4. QueueOK(queue', committed, batch)
  BY <1>1, <1>2, <1>3, AddedRows DEF TypeInv
<1> QED BY <1>4 DEF SendReport, TypeInv

\* The committed rows, and maybe some of the others, are what is left.
LEMMA KeptRows ==
    ASSUME TypeInv, NEW n \in committed..Len(queue), NEW q, q = SubSeq(queue, 1, n)
    PROVE  QueueOK(q, Len(q), {})
<1>1. /\ queue \in Seq(Report) /\ DOMAIN queue = 1..Len(queue) /\ Len(queue) \in Nat
      /\ \A i \in DOMAIN queue : queue[i] \in Report
  BY QueueTypes DEF TypeInv, QueueOK
<1>2. n \in 0..Len(queue)
  BY <1>1 DEF TypeInv, QueueOK
<1>3. /\ q \in Seq(Report)
      /\ Len(q) = IF 1 <= n THEN n - 1 + 1 ELSE 0
      /\ \A i \in 1..(n - 1 + 1) : q[i] = queue[1 + i - 1]
  <2>1. \A i \in 1..n : queue[i] \in Report
    BY <1>1, <1>2
  <2> QED BY <1>2, <2>1, SubSeqProperties
<1>4. Len(q) = n /\ DOMAIN q = 1..n
  BY <1>2, <1>3, QueueTypes
<1>5. \A i \in DOMAIN q : q[i] = queue[i] /\ i \in DOMAIN queue
  <2> SUFFICES ASSUME NEW i \in DOMAIN q PROVE q[i] = queue[i] /\ i \in DOMAIN queue
    OBVIOUS
  <2>1. i \in 1..(n - 1 + 1) /\ 1 + i - 1 = i /\ i \in DOMAIN queue
    BY <1>1, <1>2, <1>4
  <2>2. q[i] = queue[1 + i - 1]
    BY <1>3, <2>1
  <2> QED BY <2>1, <2>2
<1>6. Distinct(q)
  BY <1>5 DEF Distinct, TypeInv, QueueOK
<1> QED BY <1>2, <1>3, <1>4, <1>6 DEF QueueOK

\* A new process finds a well-formed outbox.
LEMMA NewProcessTypes == ASSUME TypeInv, NewProcess, faults' \in 0..MaxFaults,
                                crashes' \in 0..MaxCrashes
                         PROVE  TypeInv'
<1>1. PICK n \in committed..Len(queue) : queue' = SubSeq(queue, 1, n)
  BY DEF NewProcess
<1>2. QueueOK(queue', Len(queue'), {})
  BY <1>1, KeptRows
<1> QED BY <1>2 DEF NewProcess, Commit, TypeInv

\* A pass that goes on or ends with these rows left.
LEMMA ReplayTypes ==
    ASSUME TypeInv, NEW rows, NEW pulled, Replay(rows, pulled),
           QueueOK(queue', committed', rows), dead' \subseteq Keys,
           sent' \in [Launches -> Nat], reconciled' \in BOOLEAN,
           faults' \in 0..MaxFaults, crashes' \in 0..MaxCrashes
    PROVE  TypeInv'
BY DEF Replay, TypeInv

\* A pass starts with rows that are queued.
LEMMA ReadyRowsOK ==
    ASSUME NEW q, NEW c, QueueOK(q, c, {}),
           NEW rows, rows = {Key(q[i]) : i \in {j \in DOMAIN q : q[j].ready}}
    PROVE  QueueOK(q, c, rows)
BY DEF QueueOK, QueuedKeys

\* The steps, as for IInv.
LEMMA LoopTypes == ASSUME TypeInv, MemoryOK, Loop PROVE TypeInv'
<1> USE DEF outbox, memory, bounds
<1>0. QueueOK(queue, committed, {})
  BY DEF TypeInv, QueueOK
<1>1. CASE Beat
  <2>1. QueueOK(queue', committed', ReadyRows)
    BY <1>0, <1>1, ReadyRowsOK DEF Beat, ReadyRows
  <2> QED BY <1>1, <2>1, ReplayTypes DEF Beat, TypeInv
<1>2. CASE SendLands
  <2>1. QueueOK(queue', committed', Rest)
    BY <1>2, DeletedRow DEF SendLands, Commit
  <2> QED BY <1>2, <2>1, ReplayTypes DEF SendLands, TypeInv
<1>3. CASE SendRefused
  <2>1. QueueOK(queue', committed', Rest)
    BY <1>3, DeletedRow DEF SendRefused, Commit
  <2>2. dead' \subseteq Keys
    BY <1>3, FirstOf, KeyOf DEF SendRefused, TypeInv
  <2> QED BY <1>3, <2>1, <2>2, ReplayTypes DEF SendRefused, TypeInv
<1>4. CASE SendFails
  <2>1. QueueOK(queue', committed', {})
    BY <1>4, BackedOffRow DEF SendFails, Commit
  <2>2. faults' \in 0..MaxFaults /\ crashes' = crashes
    BY <1>4 DEF SendFails, Fault, TypeInv
  <2> QED BY <1>4, <2>1, <2>2, ReplayTypes DEF SendFails, TypeInv
<1>5. CASE Poll
  <2>1. PICK yes : /\ queue' = PullReports(yes)
                   /\ IF yes = {}
                        THEN step' = "beat" /\ UNCHANGED <<batch, accepted, executor>>
                        ELSE Replay(ReadyRows', yes)
    BY <1>5 DEF Poll
  <2>2. QueueOK(queue', committed', {}) /\ QueueOK(queue', committed', batch)
    BY <1>5, <2>1, PulledRows DEF Poll
  <2>3. sent' \in [Launches -> Nat] /\ reconciled' \in BOOLEAN
    BY <1>5 DEF Poll, TypeInv
  <2>4. CASE yes = {}
    <3>1. step' = "beat" /\ batch' = batch /\ stopped' = stopped
      BY <2>1, <2>4 DEF executor
    <3> QED BY <1>5, <2>2, <2>3, <3>1 DEF Poll, TypeInv
  <2>5. CASE yes # {}
    <3>1. QueueOK(queue', committed', ReadyRows')
      BY <2>2, ReadyRowsOK DEF ReadyRows
    <3> QED BY <1>5, <2>1, <2>3, <2>5, <3>1, ReplayTypes DEF Poll, TypeInv
  <2> QED BY <2>4, <2>5
<1>6. CASE PollFails
  BY <1>6 DEF PollFails, Fault, TypeInv, puller, executor
<1>7. CASE PoisonedPass
  BY <1>7, NewProcessTypes DEF PoisonedPass, TypeInv
<1> QED BY <1>1, <1>2, <1>3, <1>4, <1>5, <1>6, <1>7 DEF Loop
LEMMA RunTypes == ASSUME TypeInv, NEW l \in Launches, Run(l) \/ Observe(l) PROVE TypeInv'
<1> USE DEF outbox, puller, memory, bounds
<1>0. {"preparing", "running", "failed", "succeeded"} \subseteq Statuses
  BY DEF Statuses, OWNED_STATUSES, TerminalStatuses
<1>1. CASE FoundStopped(l)
  BY <1>1 DEF FoundStopped, TypeInv
<1>2. CASE Prepare(l)
  <2>1. QueueOK(queue', committed, batch) /\ sent' \in [Launches -> Nat]
    BY <1>0, <1>2, SentRow DEF Prepare
  <2> QED BY <1>2, <2>1 DEF Prepare, TypeInv
<1>3. CASE StartHarness(l)
  <2>1. QueueOK(queue', committed, batch) /\ sent' \in [Launches -> Nat]
    BY <1>0, <1>3, SentRow DEF StartHarness
  <2> QED BY <1>3, <2>1 DEF StartHarness, TypeInv
<1>4. CASE FailTask(l)
  <2>1. QueueOK(queue', committed, batch) /\ sent' \in [Launches -> Nat]
    BY <1>0, <1>4, SentRow DEF FailTask
  <2> QED BY <1>4, <2>1 DEF FailTask, TypeInv
<1>5. CASE Succeed(l)
  <2>1. QueueOK(queue', committed, batch) /\ sent' \in [Launches -> Nat]
    BY <1>0, <1>5, SentRow DEF Succeed
  <2> QED BY <1>5, <2>1 DEF Succeed, TypeInv
<1>6. CASE Observe(l)
  BY <1>6 DEF Observe, TypeInv
<1> QED BY <1>1, <1>2, <1>3, <1>4, <1>5, <1>6 DEF Run

LEMMA TypeStep == TypeInv /\ IInv /\ [Next]_vars => TypeInv'
<1> SUFFICES ASSUME TypeInv, MemoryOK, [Next]_vars PROVE TypeInv'
  BY DEF IInv
<1> USE DEF outbox, puller, memory, executor, bounds
<1>1. ASSUME NEW l \in Launches, Request(l) \/ StopLaunch(l) PROVE TypeInv'
  BY <1>1 DEF Request, StopLaunch, TypeInv
<1>2. CASE BackoffEnds
  <2>1. QueueOK(queue', committed, batch)
    BY <1>2, ReadyAgain DEF BackoffEnds
  <2> QED BY <1>2, <2>1 DEF BackoffEnds, TypeInv
<1>3. CASE Crash
  <2>1. faults' \in 0..MaxFaults /\ crashes' \in 0..MaxCrashes
    BY <1>3 DEF Crash, TypeInv
  <2> QED BY <1>3, <2>1, NewProcessTypes DEF Crash
<1>4. CASE UNCHANGED vars
  BY <1>4 DEF vars, TypeInv
<1> QED BY <1>1, <1>2, <1>3, <1>4, LoopTypes, RunTypes DEF Next

LEMMA InitTypes == Init => TypeInv
<1> SUFFICES ASSUME Init PROVE TypeInv
  OBVIOUS
<1>1. queue \in Seq(Report) /\ Len(queue) = 0 /\ DOMAIN queue = {} /\ committed = 0 /\ batch = {}
  BY EmptySeq DEF Init
<1>2. QueueOK(queue, committed, batch)
  BY <1>1 DEF QueueOK, Distinct
<1>3. dead = {} /\ {} \subseteq Keys /\ step = "beat" /\ reconciled = FALSE /\ stopped = {}
  BY DEF Init
<1>4. sent \in [Launches -> Nat] /\ faults \in 0..MaxFaults /\ crashes \in 0..MaxCrashes
  BY DEF Init
<1> QED BY <1>2, <1>3, <1>4 DEF TypeInv

\* The outbox stays well formed: no two queued reports share a key, whatever is
\* enqueued again after a crash, sent, refused, dead-lettered or put back.
THEOREM TypeCorrect == Spec => []TypeOK
<1>1. TypeInv /\ IInv => TypeOK
  <2> SUFFICES ASSUME TypeInv, IInv PROVE TypeOK
    OBVIOUS
  <2>1. queue \in Seq(Report) /\ committed \in 0..Len(queue) /\ batch \subseteq Keys
    BY QueueTypes DEF TypeInv, QueueOK
  <2>2. \A i, j \in DOMAIN queue : i # j => Key(queue[i]) # Key(queue[j])
    BY DEF TypeInv, QueueOK, Distinct
  <2> QED BY <2>1, <2>2 DEF TypeInv, IInv, MemoryOK, Decisions, TaskSteps, TypeOK
<1> QED BY <1>1, InitInv, StepInv, InitTypes, TypeStep, PTL DEF Spec

-----------------------------------------------------------------------------
(* The numbers of the reports.                                              *)
Clean == faults = 0 /\ crashes = 0
Stopped(l) == row[l].status \in StopStatuses

\* The statuses no report comes after, and what a launch's nth report may say.
Final == {"rejected", "succeeded", "failed"}
Numbered ==
    {<<1, "accepted">>, <<1, "rejected">>, <<2, "preparing">>, <<2, "failed">>,
     <<3, "running">>, <<3, "failed">>, <<4, "succeeded">>, <<4, "failed">>}

\* The statuses and versions of a launch that is not over.
Ladder ==
    {<<"absent", 0>>, <<"requested", 1>>, <<"accepted", 2>>, <<"preparing", 3>>,
     <<"running", 4>>}

\* How many reports a launch worked on has made.
Stage(l) ==
    IF task[l] = "resolving" \/ l \in accepted THEN 1 ELSE IF task[l] = "preparing" THEN 2 ELSE 3

\* A queued report is ready, was made by this process and has not been refused.
RowsFresh ==
    \A i \in DOMAIN queue :
        /\ queue[i].ready
        /\ queue[i].expected >= 1 /\ queue[i].expected <= sent[queue[i].launch]
        /\ Key(queue[i]) \notin dead

\* A pass has still to send a first part of the queue.
BatchFirst ==
    \A i, j \in DOMAIN queue : i < j /\ Key(queue[j]) \in batch => Key(queue[i]) \in batch

DeadSound ==
    \A l \in Launches, n \in Nat : <<l, n>> \in dead => Stopped(l) /\ n <= sent[l]

NothingSent == ~reconciled => \A l \in Launches : sent[l] = 0 /\ ~Working(l)

\* The queued reports of a launch are those made of it that the server has not
\* applied yet, in the order they were made.
ReportsSound(l) ==
    /\ row[l].version <= sent[l] + 1
    /\ \A n \in Nat :
          n >= 1 /\ n >= row[l].version /\ n <= sent[l] => <<l, n>> \in QueuedKeys(queue)
    /\ \A i \in DOMAIN queue : queue[i].launch = l =>
         /\ row[l].version <= queue[i].expected
         /\ <<queue[i].expected, queue[i].status>> \in Numbered
         /\ queue[i].status \in Final => queue[i].expected = sent[l]
    /\ \A i, j \in DOMAIN queue :
         i < j /\ queue[i].launch = l /\ queue[j].launch = l =>
           queue[i].expected < queue[j].expected

RowSound(l) ==
    /\ \/ <<row[l].status, row[l].version>> \in Ladder
       \/ row[l].status \in Final /\ row[l].version = sent[l] + 1 /\ sent[l] > 0
    /\ row[l].status = "absent" => sent[l] = 0
    /\ row[l].status = "requested" /\ decided[l] = "none" => sent[l] = 0

NothingFinal(l) == \A i \in DOMAIN queue : queue[i].launch = l => queue[i].status \notin Final

WorkSound(l) ==
    Working(l) => sent[l] = Stage(l) /\ row[l].status \notin Final /\ NothingFinal(l)

NumberInv ==
    Clean =>
        /\ RowsFresh /\ BatchFirst /\ DeadSound /\ NothingSent
        /\ \A l \in Launches : ~Stopped(l) => ReportsSound(l) /\ RowSound(l) /\ WorkSound(l)

-----------------------------------------------------------------------------
\* Reports are made: one more each for some launches.
LEMMA GrowStep ==
    ASSUME TypeInv, TypeInv', MemoryOK, RowsFresh, DeadSound,
           \A l \in Launches : ~Stopped(l) => ReportsSound(l),
           NEW reports \in SUBSET Report, IsFiniteSet(reports),
           queue' = Enqueued(queue, reports),
           NEW L \in SUBSET Launches,
           UNCHANGED <<row, dead>>,
           \A l \in Launches : sent'[l] = IF l \in L THEN sent[l] + 1 ELSE sent[l],
           \A r \in reports : r.ready /\ r.launch \in L /\ r.expected = sent[r.launch] + 1,
           \A l \in L : \E r \in reports : r.launch = l,
           \A r \in reports : ~Stopped(r.launch) =>
               <<r.expected, r.status>> \in Numbered /\ NothingFinal(r.launch)
    PROVE  /\ RowsFresh' /\ DeadSound'
           /\ \A l \in Launches : ~Stopped(l)' => ReportsSound(l)'
<1>1. /\ queue \in Seq(Report) /\ queue' \in Seq(Report) /\ Distinct(queue')
      /\ sent \in [Launches -> Nat] /\ sent' \in [Launches -> Nat]
  BY DEF TypeInv, QueueOK
<1>2. /\ \A i \in DOMAIN queue : i \in DOMAIN queue' /\ queue'[i] = queue[i]
      /\ \A i \in DOMAIN queue' \ DOMAIN queue : queue'[i] \in reports
      /\ \A r \in reports : \E i \in DOMAIN queue' : Key(queue'[i]) = Key(r)
  BY <1>1, EnqueuedAppends
<1>3. /\ DOMAIN queue = 1..Len(queue) /\ Len(queue) \in Nat
      /\ DOMAIN queue' = 1..Len(queue') /\ Len(queue') \in Nat
      /\ \A i \in DOMAIN queue : queue[i] \in Report
      /\ \A i \in DOMAIN queue' : queue'[i] \in Report
  BY <1>1, QueueTypes
<1>4. ASSUME NEW l \in Launches
      PROVE  sent[l] \in Nat /\ sent'[l] \in Nat /\ sent[l] <= sent'[l]
  <2>1. sent[l] \in Nat /\ sent'[l] \in Nat
    BY <1>1
  <2>2. sent'[l] = sent[l] + 1 \/ sent'[l] = sent[l]
    OBVIOUS
  <2> QED BY <2>1, <2>2
<1>5. ASSUME NEW i \in DOMAIN queue' \ DOMAIN queue
      PROVE  /\ queue'[i].ready /\ queue'[i].launch \in L
             /\ queue'[i].expected = sent[queue'[i].launch] + 1
             /\ queue'[i].expected = sent'[queue'[i].launch]
             /\ Key(queue'[i]) = <<queue'[i].launch, sent[queue'[i].launch] + 1>>
  BY <1>2 DEF Key
<1>6. RowsFresh'
  <2> SUFFICES ASSUME NEW i \in DOMAIN queue'
               PROVE  /\ queue'[i].ready
                      /\ queue'[i].expected >= 1
                      /\ queue'[i].expected <= sent'[queue'[i].launch]
                      /\ Key(queue'[i]) \notin dead
    BY DEF RowsFresh
  <2>1. CASE i \in DOMAIN queue
    <3>1. queue'[i] = queue[i] /\ queue[i].launch \in Launches /\ queue[i].expected \in Nat
      BY <1>2, <1>3, <2>1, KeyOf
    <3> QED BY <1>4, <2>1, <3>1 DEF RowsFresh
  <2>2. CASE i \notin DOMAIN queue
    <3> DEFINE l == queue'[i].launch
    <3>1. /\ queue'[i].ready /\ l \in Launches /\ queue'[i].expected = sent[l] + 1
          /\ queue'[i].expected = sent'[l] /\ Key(queue'[i]) = <<l, sent[l] + 1>>
      BY <1>5, <2>2
    <3> HIDE DEF l
    <3>2. <<l, sent[l] + 1>> \notin dead
      BY <1>4, <3>1 DEF DeadSound
    <3> QED BY <1>4, <3>1, <3>2 DEF l
  <2> QED BY <2>1, <2>2
<1>7. DeadSound'
  BY <1>4 DEF DeadSound, Stopped
<1>8. ASSUME NEW l \in Launches, ~Stopped(l)' PROVE ReportsSound(l)'
  <2>0. ~Stopped(l) /\ row[l].version \in Nat /\ ReportsSound(l)
    BY <1>8 DEF Stopped, MemoryOK, Row
  <2>1. row[l].version <= sent'[l] + 1
    BY <1>4, <2>0 DEF ReportsSound
  <2>2. ASSUME NEW n \in Nat, n >= 1, n >= row[l].version, n <= sent'[l]
        PROVE  <<l, n>> \in QueuedKeys(queue')
    <3>1. CASE n <= sent[l]
      <4>1. <<l, n>> \in QueuedKeys(queue)
        BY <2>0, <2>2, <3>1 DEF ReportsSound
      <4> QED BY <1>2, <4>1 DEF QueuedKeys
    <3>2. CASE ~(n <= sent[l])
      <4>1. l \in L /\ n = sent[l] + 1
        BY <1>4, <2>2, <3>2
      <4>2. PICK r \in reports : r.launch = l
        BY <4>1
      <4>3. Key(r) = <<l, n>>
        BY <4>1, <4>2 DEF Key
      <4>4. PICK i \in DOMAIN queue' : Key(queue'[i]) = Key(r)
        BY <1>2
      <4> QED BY <4>3, <4>4 DEF QueuedKeys
    <3> QED BY <3>1, <3>2
  <2>3. ASSUME NEW i \in DOMAIN queue', queue'[i].launch = l
        PROVE  /\ row[l].version <= queue'[i].expected
               /\ <<queue'[i].expected, queue'[i].status>> \in Numbered
               /\ queue'[i].status \in Final => queue'[i].expected = sent'[l]
    <3>1. CASE i \in DOMAIN queue
      <4>1. queue'[i] = queue[i]
        BY <1>2, <3>1
      <4>2. l \in L => queue[i].status \notin Final
        <5> SUFFICES ASSUME l \in L PROVE queue[i].status \notin Final
          OBVIOUS
        <5>1. PICK r \in reports : r.launch = l
          OBVIOUS
        <5>2. NothingFinal(l)
          BY <2>0, <5>1
        <5> QED BY <2>3, <3>1, <4>1, <5>2 DEF NothingFinal
      <4> QED BY <2>0, <2>3, <3>1, <4>1, <4>2 DEF ReportsSound
    <3>2. CASE i \notin DOMAIN queue
      <4>1. /\ queue'[i] \in reports
            /\ queue'[i].expected = sent[l] + 1 /\ queue'[i].expected = sent'[l]
        BY <1>2, <1>5, <2>3, <3>2
      <4> QED BY <2>0, <2>3, <4>1 DEF ReportsSound
    <3> QED BY <3>1, <3>2
  <2>4. ASSUME NEW i \in DOMAIN queue', NEW j \in DOMAIN queue', i < j,
               queue'[i].launch = l, queue'[j].launch = l
        PROVE  queue'[i].expected < queue'[j].expected
    <3>1. CASE j \in DOMAIN queue
      <4>1. i \in DOMAIN queue
        BY <1>3, <2>4, <3>1
      <4> QED BY <1>2, <2>0, <2>4, <3>1, <4>1 DEF ReportsSound
    <3>2. CASE j \notin DOMAIN queue /\ i \in DOMAIN queue
      <4>1. queue'[i] = queue[i] /\ queue[i].expected \in Nat /\ queue[i].expected <= sent[l]
        BY <1>2, <1>3, <2>4, <3>2, KeyOf DEF RowsFresh
      <4>2. queue'[j].expected = sent[l] + 1
        BY <1>5, <2>4, <3>2
      <4> QED BY <1>4, <4>1, <4>2
    <3>3. CASE j \notin DOMAIN queue /\ i \notin DOMAIN queue
      <4>1. Key(queue'[i]) = Key(queue'[j])
        BY <1>5, <2>4, <3>3
      <4>2. i # j
        BY <1>3, <2>4
      <4> QED BY <1>1, <4>1, <4>2 DEF Distinct
    <3> QED BY <3>1, <3>2, <3>3
  <2> QED BY <2>1, <2>2, <2>3, <2>4 DEF ReportsSound
<1> QED BY <1>6, <1>7, <1>8
-----------------------------------------------------------------------------
\* A pass sends the head of the queue.
LEMMA FirstIsHead ==
    ASSUME TypeInv, BatchFirst, batch # {}
    PROVE  /\ Position = 1 /\ 1 \in DOMAIN queue /\ First = queue[1]
           /\ DOMAIN queue = 1..Len(queue) /\ Len(queue) \in Nat
           /\ \A i \in DOMAIN queue : queue[i] \in Report
<1>1. /\ Position \in DOMAIN queue /\ First = queue[Position] /\ Key(First) \in batch
      /\ \A i \in DOMAIN queue : i < Position => Key(queue[i]) \notin batch
  BY FirstOf
<1>2. /\ DOMAIN queue = 1..Len(queue) /\ Len(queue) \in Nat
      /\ \A i \in DOMAIN queue : queue[i] \in Report
  BY QueueTypes DEF TypeInv, QueueOK
<1>3. 1 \in DOMAIN queue /\ (Position # 1 => 1 < Position)
  BY <1>1, <1>2
<1>4. Position = 1
  BY <1>1, <1>3 DEF BatchFirst
<1> QED BY <1>1, <1>2, <1>3, <1>4

\* The head's number is the server's version, when its launch is not over: the
\* server takes the report.
LEMMA HeadLands ==
    ASSUME TypeInv, MemoryOK, RowsFresh, BatchFirst, batch # {},
           ~Stopped(First.launch), ReportsSound(First.launch), RowSound(First.launch)
    PROVE  /\ Lands(First)
           /\ First.expected = row[First.launch].version
           /\ \/ <<First.status, First.expected + 1>> \in Ladder \ {<<"requested", 1>>}
              \/ First.status \in Final /\ First.expected = sent[First.launch]
<1> DEFINE l == First.launch
           n == row[l].version
<1>1. /\ 1 \in DOMAIN queue /\ First = queue[1] /\ DOMAIN queue = 1..Len(queue)
      /\ Len(queue) \in Nat /\ \A i \in DOMAIN queue : queue[i] \in Report
  BY FirstIsHead
<1>2. l \in Launches /\ First.expected \in Nat /\ n \in Nat /\ sent[l] \in Nat
  BY <1>1, KeyOf DEF MemoryOK, Row, TypeInv
<1>3. /\ First.expected >= 1 /\ First.expected <= sent[l] /\ n <= First.expected
      /\ <<First.expected, First.status>> \in Numbered
      /\ First.status \in Final => First.expected = sent[l]
  BY <1>1 DEF RowsFresh, ReportsSound
<1>4. row[l].status # "absent" /\ <<row[l].status, n>> \in Ladder /\ n >= 1
  BY <1>2, <1>3 DEF RowSound, Ladder, Final
<1>5. First.expected = n
  <2>1. <<l, n>> \in QueuedKeys(queue)
    BY <1>2, <1>3, <1>4 DEF ReportsSound
  <2>2. PICK i \in DOMAIN queue : Key(queue[i]) = <<l, n>>
    BY <2>1 DEF QueuedKeys
  <2>3. queue[i].launch = l /\ queue[i].expected = n
    BY <1>1, <2>2 DEF Key
  <2>4. CASE i = 1
    BY <1>1, <2>3, <2>4
  <2>5. CASE i # 1
    <3>1. 1 < i
      BY <1>1, <2>5
    <3>2. First.expected < n
      BY <1>1, <2>3, <3>1 DEF ReportsSound
    <3> QED BY <1>2, <1>3, <3>2
  <2> QED BY <2>4, <2>5
<1> HIDE DEF l, n
<1>6. <<row[l].status, First.status>> \in MachineTransitions
  BY <1>3, <1>4, <1>5 DEF Numbered, Ladder, MachineTransitions, OWNED_STATUSES
<1>7. \/ <<First.status, First.expected + 1>> \in Ladder \ {<<"requested", 1>>}
      \/ First.status \in Final
  BY <1>3 DEF Numbered, Ladder, Final
<1> QED BY <1>3, <1>5, <1>6, <1>7 DEF Lands, l, n

\* The head is deleted.
LEMMA HeadDeleted ==
    ASSUME TypeInv, BatchFirst, batch # {}, queue' = Without
    PROVE  /\ queue' \in Seq(Report) /\ DOMAIN queue' = 1..(Len(queue) - 1)
           /\ \A i \in DOMAIN queue' : i + 1 \in DOMAIN queue /\ queue'[i] = queue[i + 1]
           /\ \A i \in DOMAIN queue : i # 1 => i - 1 \in DOMAIN queue' /\ queue'[i - 1] = queue[i]
           /\ \A i \in DOMAIN queue' : Key(queue'[i]) # Key(First)
<1>1. /\ Position = 1 /\ 1 \in DOMAIN queue /\ First = queue[1]
      /\ DOMAIN queue = 1..Len(queue) /\ Len(queue) \in Nat
      /\ queue \in Seq(Report) /\ Distinct(queue)
  BY FirstIsHead DEF TypeInv, QueueOK
<1>2. /\ queue' \in Seq(Report) /\ Len(queue') = Len(queue) - 1
      /\ \A i \in DOMAIN queue' : i + 1 \in DOMAIN queue
      /\ \A i \in DOMAIN queue' : queue'[i] = IF i < 1 THEN queue[i] ELSE queue[i + 1]
  <2>1. queue' = RemoveAt(queue, 1)
    BY <1>1 DEF Without
  <2> QED BY <1>1, <2>1, RemoveAtShifts
<1>3. DOMAIN queue' = 1..(Len(queue) - 1)
  BY <1>2, QueueTypes
<1>4. \A i \in DOMAIN queue' : i + 1 \in DOMAIN queue /\ queue'[i] = queue[i + 1]
  BY <1>1, <1>2, <1>3
<1>5. ASSUME NEW i \in DOMAIN queue, i # 1 PROVE i - 1 \in DOMAIN queue' /\ queue'[i - 1] = queue[i]
  <2>1. i - 1 \in DOMAIN queue' /\ (i - 1) + 1 = i
    BY <1>1, <1>3, <1>5
  <2>2. queue'[i - 1] = queue[(i - 1) + 1]
    BY <1>4, <2>1
  <2> QED BY <2>1, <2>2
<1>6. ASSUME NEW i \in DOMAIN queue' PROVE Key(queue'[i]) # Key(First)
  <2>1. i + 1 \in DOMAIN queue /\ queue'[i] = queue[i + 1] /\ i + 1 # 1
    BY <1>3, <1>4
  <2> QED BY <1>1, <2>1 DEF Distinct
<1> QED BY <1>2, <1>3, <1>4, <1>5, <1>6

\* What is left of the queue, and of the launches the head was not about.
LEMMA ShrinkStep ==
    ASSUME TypeInv, MemoryOK, RowsFresh, BatchFirst, batch # {},
           queue' = Without, batch' = Rest, sent' = sent, dead' \subseteq dead \cup {Key(First)}
    PROVE  /\ RowsFresh' /\ BatchFirst'
           /\ \A l \in Launches : NothingFinal(l) => NothingFinal(l)'
           /\ \A l \in Launches :
                 l # First.launch /\ row'[l] = row[l] /\ ReportsSound(l) => ReportsSound(l)'
<1>1. /\ DOMAIN queue' = 1..(Len(queue) - 1) /\ Len(queue) \in Nat
      /\ \A i \in DOMAIN queue' : i + 1 \in DOMAIN queue /\ queue'[i] = queue[i + 1]
      /\ \A i \in DOMAIN queue : i # 1 => i - 1 \in DOMAIN queue' /\ queue'[i - 1] = queue[i]
      /\ \A i \in DOMAIN queue' : Key(queue'[i]) # Key(First)
  BY HeadDeleted, FirstIsHead
<1>2. First = queue[1] /\ First \in Report
  BY FirstIsHead
<1>3. RowsFresh'
  BY <1>1 DEF RowsFresh
<1>4. BatchFirst'
  <2> SUFFICES ASSUME NEW i \in DOMAIN queue', NEW j \in DOMAIN queue', i < j,
                      Key(queue'[j]) \in Rest
               PROVE  Key(queue'[i]) \in Rest
    BY DEF BatchFirst
  <2>1. i + 1 < j + 1 /\ i + 1 \in DOMAIN queue /\ j + 1 \in DOMAIN queue
    BY <1>1
  <2>2. Key(queue[j + 1]) \in batch
    BY <1>1 DEF Rest
  <2>3. Key(queue[i + 1]) \in batch
    BY <2>1, <2>2 DEF BatchFirst
  <2> QED BY <1>1, <2>3 DEF Rest
<1>5. \A l \in Launches : NothingFinal(l) => NothingFinal(l)'
  BY <1>1 DEF NothingFinal
<1>6. ASSUME NEW l \in Launches, l # First.launch, row'[l] = row[l], ReportsSound(l)
      PROVE  ReportsSound(l)'
  <2>1. row[l].version <= sent[l] + 1
    BY <1>6 DEF ReportsSound
  <2>2. ASSUME NEW n \in Nat, n >= 1, n >= row[l].version, n <= sent[l]
        PROVE  <<l, n>> \in QueuedKeys(queue')
    <3>1. PICK i \in DOMAIN queue : Key(queue[i]) = <<l, n>>
      BY <1>6, <2>2 DEF ReportsSound, QueuedKeys
    <3>2. i # 1
      BY <1>2, <1>6, <3>1 DEF Key
    <3> QED BY <1>1, <3>1, <3>2 DEF QueuedKeys
  <2>3. ASSUME NEW i \in DOMAIN queue', queue'[i].launch = l
        PROVE  /\ row[l].version <= queue'[i].expected
               /\ <<queue'[i].expected, queue'[i].status>> \in Numbered
               /\ queue'[i].status \in Final => queue'[i].expected = sent[l]
    BY <1>1, <1>6, <2>3 DEF ReportsSound
  <2>4. ASSUME NEW i \in DOMAIN queue', NEW j \in DOMAIN queue', i < j,
               queue'[i].launch = l, queue'[j].launch = l
        PROVE  queue'[i].expected < queue'[j].expected
    <3>1. i + 1 < j + 1 /\ i + 1 \in DOMAIN queue /\ j + 1 \in DOMAIN queue
      BY <1>1, <2>4
    <3> QED BY <1>1, <1>6, <2>4, <3>1 DEF ReportsSound
  <2> QED BY <1>6, <2>1, <2>2, <2>3, <2>4 DEF ReportsSound
<1> QED BY <1>3, <1>4, <1>5, <1>6
\* The head's launch, when the server has applied the head.
LEMMA LandedSound ==
    ASSUME TypeInv, MemoryOK, RowsFresh, BatchFirst, batch # {}, NEW l, l = First.launch,
           ~Stopped(l), ReportsSound(l), RowSound(l), UNCHANGED <<sent, decided>>,
           row' = Landed(First), queue' = Without
    PROVE  ReportsSound(l)' /\ RowSound(l)'
<1>1. /\ DOMAIN queue' = 1..(Len(queue) - 1) /\ Len(queue) \in Nat
      /\ \A i \in DOMAIN queue' : i + 1 \in DOMAIN queue /\ queue'[i] = queue[i + 1]
      /\ \A i \in DOMAIN queue : i # 1 => i - 1 \in DOMAIN queue' /\ queue'[i - 1] = queue[i]
      /\ \A i \in DOMAIN queue' : Key(queue'[i]) # Key(First)
  BY HeadDeleted, FirstIsHead
<1>2. /\ First = queue[1] /\ 1 \in DOMAIN queue /\ First \in Report
      /\ \A i \in DOMAIN queue : queue[i] \in Report
  BY FirstIsHead
<1>3. l \in Launches /\ row[l].version \in Nat /\ First.expected \in Nat /\ sent[l] \in Nat
  BY <1>2, KeyOf DEF MemoryOK, Row, TypeInv
<1>4. /\ First.expected = row[l].version
      /\ \/ <<First.status, First.expected + 1>> \in Ladder \ {<<"requested", 1>>}
         \/ First.status \in Final /\ First.expected = sent[l]
  BY HeadLands
<1>5. First.expected >= 1 /\ First.expected <= sent[l]
  BY <1>2 DEF RowsFresh
<1>6. row'[l].status = First.status /\ row'[l].version = First.expected + 1
  BY <1>3, <1>4 DEF Landed, MemoryOK
<1>7. RowSound(l)'
  BY <1>3, <1>4, <1>5, <1>6 DEF RowSound, Ladder, Final
<1>8. row'[l].version <= sent[l] + 1
  BY <1>3, <1>5, <1>6
<1>9. ASSUME NEW n \in Nat, n >= 1, n >= row'[l].version, n <= sent[l]
      PROVE  <<l, n>> \in QueuedKeys(queue')
  <2>1. n >= row[l].version /\ n # First.expected
    BY <1>3, <1>4, <1>6, <1>9
  <2>2. PICK i \in DOMAIN queue : Key(queue[i]) = <<l, n>>
    BY <1>9, <2>1 DEF ReportsSound, QueuedKeys
  <2>3. i # 1
    BY <1>2, <2>1, <2>2 DEF Key
  <2> QED BY <1>1, <2>2, <2>3 DEF QueuedKeys
<1>10. ASSUME NEW i \in DOMAIN queue', queue'[i].launch = l
       PROVE  /\ row'[l].version <= queue'[i].expected
              /\ <<queue'[i].expected, queue'[i].status>> \in Numbered
              /\ queue'[i].status \in Final => queue'[i].expected = sent[l]
  <2>1. /\ i + 1 \in DOMAIN queue /\ queue'[i] = queue[i + 1] /\ 1 < i + 1
        /\ queue[i + 1].expected \in Nat
    BY <1>1, <1>2, KeyOf
  <2>2. First.expected < queue[i + 1].expected
    BY <1>2, <1>10, <2>1 DEF ReportsSound
  <2>3. row'[l].version <= queue'[i].expected
    BY <1>3, <1>6, <2>1, <2>2
  <2> QED BY <1>10, <2>1, <2>3 DEF ReportsSound
<1>11. ASSUME NEW i \in DOMAIN queue', NEW j \in DOMAIN queue', i < j,
              queue'[i].launch = l, queue'[j].launch = l
       PROVE  queue'[i].expected < queue'[j].expected
  <2>1. i + 1 < j + 1 /\ i + 1 \in DOMAIN queue /\ j + 1 \in DOMAIN queue
    BY <1>1, <1>11
  <2> QED BY <1>1, <1>11, <2>1 DEF ReportsSound
<1>12. ReportsSound(l)'
  BY <1>8, <1>9, <1>10, <1>11 DEF ReportsSound
<1> QED BY <1>7, <1>12

-----------------------------------------------------------------------------
\* What a pass leaves of the work: it submits what was accepted.
LEMMA ReplayNumbers ==
    ASSUME IInv, TypeInv, NumberInv, Clean,
           NEW rows, NEW pulled \in {{}, accepted}, Replay(rows, pulled),
           UNCHANGED <<reconciled, sent>>,
           RowsFresh', BatchFirst', DeadSound',
           \A l \in Launches : ~Stopped(l)' =>
               /\ ~Stopped(l) /\ ReportsSound(l)' /\ RowSound(l)'
               /\ NothingFinal(l) => NothingFinal(l)'
               /\ Working(l) => row'[l].status \notin Final
    PROVE  NumberInv'
<1>1. /\ MemoryOK /\ pulled \in SUBSET Launches
      /\ NothingSent /\ \A l \in Launches : ~Stopped(l) => WorkSound(l)
  BY DEF IInv, MemoryOK, NumberInv
<1>2. ASSUME NEW l \in Launches, Working(l)' PROVE Working(l) /\ Stage(l)' = Stage(l)
  <2>1. /\ l \in accepted' => l \in accepted /\ task'[l] = task[l]
        /\ \/ task'[l] = task[l]
           \/ l \in accepted /\ task[l] = "none" /\ task'[l] = "resolving"
    BY <1>1, ReplayEffect
  <2>2. l \in accepted => task[l] = "none"
    BY DEF IInv, OnceSound
  <2> QED BY <1>2, <2>1, <2>2 DEF Working, Stage
<1>3. NothingSent'
  BY <1>1, <1>2 DEF NothingSent
<1>4. \A l \in Launches : ~Stopped(l)' => WorkSound(l)'
  BY <1>1, <1>2 DEF WorkSound
<1> QED BY <1>3, <1>4 DEF NumberInv

\* The steps of the heartbeat loop.
LEMMA BeatNumbers ==
    ASSUME IInv, TypeInv, NumberInv, Clean, Beat
    PROVE  NumberInv'
<1> USE DEF outbox, memory, bounds
<1>1. /\ RowsFresh /\ DeadSound
      /\ \A l \in Launches : ~Stopped(l) => ReportsSound(l) /\ RowSound(l) /\ WorkSound(l)
  BY DEF NumberInv
<1>2. /\ UNCHANGED <<row, queue, dead, sent, decided, reconciled>> /\ batch' = ReadyRows
      /\ Replay(ReadyRows, {})
  BY DEF Beat, Replay
<1>3. RowsFresh' /\ DeadSound'
  BY <1>1, <1>2 DEF RowsFresh, DeadSound, Stopped
<1>4. BatchFirst'
  BY <1>1, <1>2 DEF BatchFirst, RowsFresh, ReadyRows
<1>5. \A l \in Launches : ~Stopped(l)' =>
        /\ ~Stopped(l) /\ ReportsSound(l)' /\ RowSound(l)'
        /\ NothingFinal(l) => NothingFinal(l)'
        /\ Working(l) => row'[l].status \notin Final
  BY <1>1, <1>2 DEF Stopped, ReportsSound, RowSound, NothingFinal, WorkSound
<1> QED BY <1>2, <1>3, <1>4, <1>5, ReplayNumbers

LEMMA SendLandsNumbers ==
    ASSUME IInv, TypeInv, NumberInv, Clean, SendLands
    PROVE  NumberInv'
<1> USE DEF memory, bounds
<1>1. /\ RowsFresh /\ BatchFirst /\ DeadSound /\ MemoryOK
      /\ \A l \in Launches : ~Stopped(l) => ReportsSound(l) /\ RowSound(l) /\ WorkSound(l)
  BY DEF NumberInv, IInv
<1>2. /\ batch # {} /\ Lands(First) /\ row' = Landed(First) /\ queue' = Without
      /\ Replay(Rest, accepted) /\ batch' = Rest
      /\ UNCHANGED <<dead, decided, reconciled, sent>>
  BY DEF SendLands, Replay
<1>3. First.launch \in Launches /\ 1 \in DOMAIN queue /\ First = queue[1]
  BY <1>2, <1>1, FirstIsHead, KeyOf
<1> PICK k \in Launches : k = First.launch
  BY <1>3
<1>4. ~Stopped(k)
  BY <1>2 DEF Lands, Stopped, StopStatuses, MachineTransitions, OWNED_STATUSES
<1>5. /\ \A l \in Launches : l # k => row'[l] = row[l]
      /\ row'[k].status = First.status
  BY <1>2, <1>3 DEF Landed, MemoryOK, IInv
<1>6. /\ RowsFresh' /\ BatchFirst'
      /\ \A l \in Launches : NothingFinal(l) => NothingFinal(l)'
      /\ \A l \in Launches :
            l # k /\ row'[l] = row[l] /\ ReportsSound(l) => ReportsSound(l)'
  BY <1>1, <1>2, ShrinkStep
<1>7. ReportsSound(k)' /\ RowSound(k)'
  BY <1>1, <1>2, <1>3, <1>4, LandedSound
<1>8. \A l \in Launches : Stopped(l) => Stopped(l)'
  BY <1>4, <1>5 DEF Stopped
<1>9. DeadSound'
  BY <1>1, <1>2, <1>8 DEF DeadSound
<1>10. ASSUME NEW l \in Launches, ~Stopped(l)'
       PROVE  /\ ~Stopped(l) /\ ReportsSound(l)' /\ RowSound(l)'
              /\ NothingFinal(l) => NothingFinal(l)'
              /\ Working(l) => row'[l].status \notin Final
  <2>1. ~Stopped(l)
    BY <1>8, <1>10
  <2>2. CASE l = k
    <3>1. Working(l) => First.status \notin Final
      BY <1>1, <1>3, <2>1, <2>2 DEF WorkSound, NothingFinal
    <3> QED BY <1>5, <1>6, <1>7, <2>1, <2>2, <3>1
  <2>3. CASE l # k
    <3>1. row'[l] = row[l]
      BY <1>5, <2>3
    <3>2. ReportsSound(l)'
      <4>1. ReportsSound(l)
        BY <1>1, <2>1
      <4> QED BY <1>6, <2>3, <3>1, <4>1
    <3>3. RowSound(l)'
      BY <1>1, <1>2, <2>1, <3>1 DEF RowSound
    <3>4. Working(l) => row'[l].status \notin Final
      BY <1>1, <2>1, <3>1 DEF WorkSound
    <3> QED BY <1>6, <2>1, <3>2, <3>3, <3>4
  <2> QED BY <2>2, <2>3
<1> QED BY <1>2, <1>6, <1>9, <1>10, ReplayNumbers

\* A report is refused only when its launch has been ended.
LEMMA SendRefusedNumbers ==
    ASSUME IInv, TypeInv, NumberInv, Clean, SendRefused
    PROVE  NumberInv'
<1> USE DEF memory, bounds
<1>1. /\ RowsFresh /\ BatchFirst /\ DeadSound /\ MemoryOK
      /\ \A l \in Launches : ~Stopped(l) => ReportsSound(l) /\ RowSound(l) /\ WorkSound(l)
  BY DEF NumberInv, IInv
<1>2. /\ batch # {} /\ ~Lands(First) /\ dead' = dead \cup {Key(First)} /\ queue' = Without
      /\ Replay(Rest, accepted) /\ batch' = Rest
      /\ UNCHANGED <<row, decided, reconciled, sent>>
  BY DEF SendRefused, Replay
<1>3. First.launch \in Launches /\ 1 \in DOMAIN queue /\ First = queue[1]
  BY <1>2, <1>1, FirstIsHead, KeyOf
<1> PICK k \in Launches : k = First.launch
  BY <1>3
<1>4. Stopped(k)
  BY <1>1, <1>2, <1>3, HeadLands
<1>5. /\ RowsFresh' /\ BatchFirst'
      /\ \A l \in Launches : NothingFinal(l) => NothingFinal(l)'
      /\ \A l \in Launches :
            l # k /\ row'[l] = row[l] /\ ReportsSound(l) => ReportsSound(l)'
  BY <1>1, <1>2, ShrinkStep
<1>6. First.expected <= sent[k]
  BY <1>1, <1>3 DEF RowsFresh
<1>7. Key(First) = <<k, First.expected>>
  BY DEF Key
<1>8. DeadSound'
  BY <1>1, <1>2, <1>4, <1>6, <1>7 DEF DeadSound, Stopped
<1>9. ASSUME NEW l \in Launches, ~Stopped(l)'
      PROVE  /\ ~Stopped(l) /\ ReportsSound(l)' /\ RowSound(l)'
             /\ NothingFinal(l) => NothingFinal(l)'
             /\ Working(l) => row'[l].status \notin Final
  <2>1. ~Stopped(l) /\ l # k
    BY <1>2, <1>4, <1>9 DEF Stopped
  <2>2. ReportsSound(l) /\ RowSound(l) /\ WorkSound(l) /\ row'[l] = row[l]
    BY <1>1, <1>2, <2>1
  <2>3. ReportsSound(l)'
    BY <1>5, <2>1, <2>2
  <2> QED BY <1>2, <1>5, <2>1, <2>2, <2>3 DEF RowSound, WorkSound
<1> QED BY <1>2, <1>5, <1>8, <1>9, ReplayNumbers
-----------------------------------------------------------------------------
\* No reports, no change.
LEMMA EnqueuedNone == ASSUME NEW q \in Seq(Report) PROVE Enqueued(q, {}) = q
<1> DEFINE e == Enqueued(q, {})
<1>1. IsFiniteSet({}) /\ {} \in SUBSET Report
  BY FS_EmptySet
<1>2. /\ e \in Seq(Report) /\ Len(q) <= Len(e)
      /\ \A i \in DOMAIN q : i \in DOMAIN e /\ e[i] = q[i]
      /\ \A i \in DOMAIN e \ DOMAIN q : e[i] \in {}
  BY <1>1, EnqueuedAppends
<1> HIDE DEF e
<1>3. /\ DOMAIN q = 1..Len(q) /\ Len(q) \in Nat
      /\ DOMAIN e = 1..Len(e) /\ Len(e) \in Nat
  BY <1>2, QueueTypes
<1>4. Len(e) \in DOMAIN q \/ Len(e) = 0
  BY <1>2, <1>3
<1>5. Len(e) = Len(q)
  <2>1. Len(e) <= Len(q) \/ Len(e) = 0
    BY <1>3, <1>4
  <2>2. Len(q) <= Len(e) /\ Len(q) \in Nat /\ Len(e) \in Nat
    BY <1>2, <1>3
  <2> QED BY <2>1, <2>2
<1>6. e = q
  BY <1>2, <1>3, <1>5, SeqEqual
<1> QED BY <1>6 DEF e

\* Reports that are added do not get in front of what a pass has still to send.
LEMMA BatchStaysFirst ==
    ASSUME TypeInv, BatchFirst, NEW reports \in SUBSET Report, IsFiniteSet(reports),
           queue' = Enqueued(queue, reports), TypeInv', batch' = batch
    PROVE  BatchFirst'
<1>1. queue \in Seq(Report) /\ queue' \in Seq(Report) /\ batch \subseteq QueuedKeys(queue)
  BY DEF TypeInv, QueueOK
<1>2. /\ \A i \in DOMAIN queue : i \in DOMAIN queue' /\ queue'[i] = queue[i]
      /\ \A i \in DOMAIN queue' \ DOMAIN queue :
            \A j \in DOMAIN queue : Key(queue[j]) # Key(queue'[i])
  BY <1>1, EnqueuedAppends
<1>3. /\ DOMAIN queue = 1..Len(queue) /\ Len(queue) \in Nat
      /\ DOMAIN queue' = 1..Len(queue') /\ Len(queue') \in Nat
  BY <1>1, QueueTypes
<1> SUFFICES ASSUME NEW i \in DOMAIN queue', NEW j \in DOMAIN queue', i < j,
                    Key(queue'[j]) \in batch
             PROVE  Key(queue'[i]) \in batch
  BY DEF BatchFirst
<1>4. j \in DOMAIN queue
  BY <1>1, <1>2 DEF QueuedKeys
<1>5. i \in DOMAIN queue
  BY <1>3, <1>4
<1> QED BY <1>2, <1>4, <1>5 DEF BatchFirst

\* No launch is orphaned before the first pull of the first process.
LEMMA NoOrphans == ASSUME NumberInv, Clean, MemoryOK, TypeInv PROVE Orphans = {}
<1>1. CASE reconciled
  BY <1>1 DEF Orphans
<1>2. CASE ~reconciled
  <2> SUFFICES ASSUME NEW l \in Launches, row[l].status \in OWNED_STATUSES PROVE FALSE
    BY DEF Orphans
  <2>1. ~Stopped(l) /\ row[l].status \notin Final
    BY DEF Stopped, StopStatuses, Final, OWNED_STATUSES
  <2>2. sent[l] = 0 /\ row[l].version <= sent[l] + 1 /\ <<row[l].status, row[l].version>> \in Ladder
    BY <1>2, <2>1 DEF NumberInv, NothingSent, ReportsSound, RowSound
  <2> QED BY <2>2 DEF Ladder, OWNED_STATUSES
<1> QED BY <1>1, <1>2

\* A pull answers launches that nothing has been reported of.
LEMMA PollNumbers ==
    ASSUME IInv, CapacityInv, TypeInv, TypeInv', NumberInv, Clean, Poll
    PROVE  NumberInv'
<1> PICK yes \in SUBSET Undecided :
      /\ decided' = [l \in Launches |-> IF l \in yes THEN "accepted"
                                        ELSE IF l \in Undecided THEN "rejected"
                                        ELSE StillDecided[l]]
      /\ queue' = PullReports(yes)
      /\ IF yes = {} THEN step' = "beat" /\ UNCHANGED <<batch, accepted, executor>>
                     ELSE Replay(ReadyRows', yes)
  BY DEF Poll
<1>1. /\ RowsFresh /\ BatchFirst /\ DeadSound /\ MemoryOK
      /\ \A l \in Launches : ~Stopped(l) => ReportsSound(l) /\ RowSound(l) /\ WorkSound(l)
  BY DEF NumberInv, IInv
<1>2. Orphans = {}
  BY <1>1, NoOrphans
<1>3. /\ UNCHANGED <<row, dead>> /\ reconciled' = TRUE /\ accepted = {}
      /\ Undecided \subseteq Launches
      /\ \A l \in Launches : sent'[l] = IF l \in Undecided THEN sent[l] + 1 ELSE sent[l]
  BY <1>2 DEF Poll, CapacityInv, Undecided
<1>4. ASSUME NEW l \in Undecided
      PROVE  /\ ~Stopped(l) /\ sent[l] = 0 /\ row[l].version = 1 /\ row[l].status = "requested"
             /\ \A i \in DOMAIN queue : queue[i].launch # l
             /\ task[l] = "none"
  <2>1. l \in Launches /\ row[l].status = "requested" /\ StillDecided[l] = "none"
    BY <1>3 DEF Undecided
  <2>2. decided[l] = "none"
    BY <1>1, <2>1, StillDecidedRequested
  <2>3. ~Stopped(l)
    BY <2>1 DEF Stopped, StopStatuses
  <2>4. sent[l] = 0 /\ row[l].version = 1
    BY <1>1, <2>1, <2>2, <2>3 DEF RowSound, Ladder, Final
  <2>5. ASSUME NEW i \in DOMAIN queue, queue[i].launch = l PROVE FALSE
    <3>1. queue[i].expected >= 1 /\ queue[i].expected <= 0
      BY <1>1, <2>4, <2>5 DEF RowsFresh
    <3>2. queue[i].expected \in Nat
      BY QueueTypes, KeyOf DEF TypeInv, QueueOK
    <3> QED BY <3>1, <3>2
  <2>6. task[l] = "none"
    BY <2>1, <2>2 DEF IInv, Remembered
  <2> QED BY <2>1, <2>3, <2>4, <2>5, <2>6
<1> DEFINE reports ==
      {NewReport(l, row[l].version, IF l \in yes THEN "accepted" ELSE "rejected") : l \in Undecided}
<1>5. queue' = Enqueued(queue, reports)
  <2>1. queue' = Enqueued(Enqueued(queue, {}), reports)
    BY <1>2 DEF PullReports
  <2>2. queue \in Seq(Report)
    BY DEF TypeInv, QueueOK
  <2> HIDE DEF reports
  <2> QED BY <2>1, <2>2, EnqueuedNone
<1>6. reports \in SUBSET Report /\ IsFiniteSet(reports)
  <2> DEFINE version == [l \in Undecided |-> row[l].version]
             status == [l \in Undecided |-> IF l \in yes THEN "accepted" ELSE "rejected"]
  <2>1. {"accepted", "rejected"} \subseteq Statuses
    BY DEF Statuses, OWNED_STATUSES, TerminalStatuses
  <2>2. /\ Undecided \in SUBSET Launches
        /\ version \in [Undecided -> Nat] /\ status \in [Undecided -> Statuses]
    BY <1>3, <1>4, <2>1
  <2>3. \A r \in reports : \E l \in Undecided : r = NewReport(l, version[l], status[l])
    OBVIOUS
  <2> HIDE DEF version, status, reports
  <2> QED BY <2>2, <2>3, OneEach, Zenon
<1>7. ASSUME NEW r \in reports
      PROVE  /\ r.ready /\ r.launch \in Undecided /\ r.expected = 1
             /\ r.status = IF r.launch \in yes THEN "accepted" ELSE "rejected"
  <2>1. PICK l \in Undecided :
          r = NewReport(l, row[l].version, IF l \in yes THEN "accepted" ELSE "rejected")
    OBVIOUS
  <2>2. row[l].version + sent[l] = 1
    BY <1>4
  <2> HIDE DEF reports
  <2> QED BY <2>1, <2>2 DEF NewReport, expected_version
<1>8. \A l \in Undecided : \E r \in reports : r.launch = l
  <2> SUFFICES ASSUME NEW l \in Undecided PROVE \E r \in reports : r.launch = l
    OBVIOUS
  <2>1. NewReport(l, row[l].version, IF l \in yes THEN "accepted" ELSE "rejected") \in reports
    OBVIOUS
  <2>2. NewReport(l, row[l].version, IF l \in yes THEN "accepted" ELSE "rejected").launch = l
    BY DEF NewReport
  <2> HIDE DEF reports
  <2> QED BY <2>1, <2>2
<1> HIDE DEF reports
<1>9. /\ RowsFresh' /\ DeadSound'
      /\ \A l \in Launches : ~Stopped(l)' => ReportsSound(l)'
  <2>1. \A r \in reports : r.ready /\ r.launch \in Undecided /\ r.expected = sent[r.launch] + 1
    BY <1>4, <1>7
  <2>2. \A r \in reports : <<r.expected, r.status>> \in Numbered /\ NothingFinal(r.launch)
    BY <1>4, <1>7 DEF Numbered, NothingFinal
  <2>3. Undecided \in SUBSET Launches /\ \A l \in Launches : ~Stopped(l) => ReportsSound(l)
    BY <1>1, <1>3
  <2> QED BY <1>1, <1>3, <1>5, <1>6, <1>8, <2>1, <2>2, <2>3, GrowStep
<1>10. /\ \A i \in DOMAIN queue' \ DOMAIN queue : queue'[i] \in reports
       /\ \A i \in DOMAIN queue : queue'[i] = queue[i]
  BY <1>5, <1>6, EnqueuedAppends DEF TypeInv, QueueOK
<1>11. BatchFirst'
  <2>1. CASE yes = {}
    BY <1>1, <1>5, <1>6, <2>1, BatchStaysFirst
  <2>2. CASE yes # {}
    <3>1. batch' = ReadyRows'
      BY <2>2 DEF Replay
    <3> QED BY <1>9, <3>1 DEF BatchFirst, RowsFresh, ReadyRows
  <2> QED BY <2>1, <2>2
<1>12. NothingSent'
  BY <1>3 DEF NothingSent
<1>13. /\ \A l \in Launches : l \in accepted' => l \in yes
       /\ \A l \in Launches : task'[l] = task[l] \/ (l \in yes /\ task'[l] = "resolving")
  <2>1. CASE yes = {}
    BY <1>3, <2>1 DEF executor
  <2>2. CASE yes # {}
    <3>1. yes \in SUBSET Launches /\ Replay(ReadyRows', yes)
      BY <1>3, <2>2
    <3> QED BY <1>1, <3>1, ReplayEffect
  <2> QED BY <2>1, <2>2
<1>14. ASSUME NEW l \in Launches, ~Stopped(l)' PROVE RowSound(l)' /\ WorkSound(l)'
  <2>0. ~Stopped(l) /\ ReportsSound(l) /\ RowSound(l) /\ WorkSound(l)
    BY <1>1, <1>3, <1>14 DEF Stopped
  <2>1. CASE l \in Undecided
    <3>1. /\ sent'[l] = 1 /\ row'[l] = row[l] /\ row[l].status = "requested"
          /\ row[l].version = 1 /\ task[l] = "none" /\ decided'[l] # "none"
      BY <1>3, <1>4, <2>1
    <3>2. RowSound(l)'
      BY <3>1 DEF RowSound, Ladder
    <3>3. ASSUME Working(l)'
         PROVE  sent'[l] = Stage(l)' /\ row'[l].status \notin Final /\ NothingFinal(l)'
      <4>1. l \in yes /\ Stage(l)' = 1
        BY <1>13, <3>1, <3>3 DEF Working, Stage
      <4>2. NothingFinal(l)'
        BY <1>4, <1>7, <1>10, <2>1, <4>1 DEF NothingFinal, Final
      <4> QED BY <3>1, <4>1, <4>2 DEF Final
    <3> QED BY <3>2, <3>3 DEF WorkSound
  <2>2. CASE l \notin Undecided
    <3>1. /\ sent'[l] = sent[l] /\ row'[l] = row[l] /\ l \notin yes
          /\ decided'[l] = StillDecided[l]
      BY <1>3, <2>2
    <3>2. RowSound(l)'
      BY <2>0, <2>2, <3>1 DEF RowSound, Undecided
    <3>3. l \notin accepted' /\ task'[l] = task[l] /\ l \notin accepted
      BY <1>3, <1>13, <3>1
    <3>4. NothingFinal(l) => NothingFinal(l)'
      BY <1>7, <1>10, <2>2 DEF NothingFinal
    <3>5. Working(l)' <=> Working(l)
      BY <3>3 DEF Working
    <3>6. Stage(l)' = Stage(l)
      BY <3>3 DEF Stage
    <3> QED BY <2>0, <3>1, <3>2, <3>4, <3>5, <3>6 DEF WorkSound
  <2> QED BY <2>1, <2>2
<1> QED BY <1>9, <1>11, <1>12, <1>14 DEF NumberInv
\* A run reports what it has come to, and goes on or ends.
LEMMA ReportNumbers ==
    ASSUME IInv, TypeInv, TypeInv', NumberInv, Clean,
           NEW k \in Launches, task[k] # "none",
           NEW status \in Statuses, SendReport(k, status),
           NEW t \in TaskSteps, task' = [task EXCEPT ![k] = t],
           UNCHANGED <<row, dead, batch, accepted, decided, reconciled>>,
           \/ t = "preparing" /\ status = "preparing" /\ task[k] = "resolving"
           \/ t = "running" /\ status = "running" /\ task[k] = "preparing"
           \/ t = "none" /\ status = "succeeded" /\ task[k] = "running"
           \/ t = "none" /\ status = "failed"
    PROVE  NumberInv'
<1>1. /\ RowsFresh /\ BatchFirst /\ DeadSound /\ NothingSent /\ MemoryOK
      /\ \A l \in Launches : ~Stopped(l) => ReportsSound(l) /\ RowSound(l) /\ WorkSound(l)
      /\ sent \in [Launches -> Nat] /\ queue \in Seq(Report)
  BY DEF NumberInv, IInv, TypeInv, QueueOK
<1>2. /\ k \notin accepted /\ row[k].status # "absent"
      /\ row[k].status = "requested" => decided[k] = "accepted"
  BY DEF IInv, OnceSound, Remembered
<1>3. ~Stopped(k) =>
        /\ sent[k] = Stage(k) /\ row[k].status \notin Final /\ NothingFinal(k)
        /\ RowSound(k)
  BY <1>1 DEF WorkSound, Working
<1>4. /\ task'[k] = t /\ sent'[k] = sent[k] + 1
      /\ \A l \in Launches : l # k => task'[l] = task[l] /\ sent'[l] = sent[l]
  BY <1>1 DEF MemoryOK, SendReport
<1>5. PICK report \in Report : report = NewReport(k, 1, status)
  BY NewReportOf
<1>6. /\ report.ready /\ report.launch = k /\ report.expected = sent[k] + 1
      /\ report.status = status
  BY <1>1, <1>5, NewReportOf
<1>7. ~Stopped(k) => <<report.expected, report.status>> \in Numbered
  <2> SUFFICES ASSUME ~Stopped(k) PROVE <<report.expected, report.status>> \in Numbered
    OBVIOUS
  <2>1. task[k] \in TaskSteps /\ sent[k] = Stage(k)
    BY <1>1, <1>3 DEF MemoryOK
  <2> QED BY <1>2, <1>6, <2>1 DEF Stage, TaskSteps, Numbered
<1>8. queue' = Enqueued(queue, {report}) /\ {report} \in SUBSET Report /\ IsFiniteSet({report})
  BY <1>5, FS_Singleton DEF SendReport
<1>9. /\ RowsFresh' /\ DeadSound'
      /\ \A l \in Launches : ~Stopped(l)' => ReportsSound(l)'
  <2>1. {k} \in SUBSET Launches /\ \A l \in {k} : \E r \in {report} : r.launch = l
    BY <1>6
  <2>2. \A l \in Launches : sent'[l] = IF l \in {k} THEN sent[l] + 1 ELSE sent[l]
    BY <1>4
  <2>3. \A r \in {report} : r.ready /\ r.launch \in {k} /\ r.expected = sent[r.launch] + 1
    BY <1>6
  <2>4. \A r \in {report} : ~Stopped(r.launch) =>
          <<r.expected, r.status>> \in Numbered /\ NothingFinal(r.launch)
    BY <1>3, <1>6, <1>7
  <2>5. \A l \in Launches : ~Stopped(l) => ReportsSound(l)
    BY <1>1
  <2> QED BY <1>1, <1>8, <2>1, <2>2, <2>3, <2>4, <2>5, GrowStep
<1>10. /\ \A i \in DOMAIN queue' \ DOMAIN queue : queue'[i] = report
       /\ \A i \in DOMAIN queue : queue'[i] = queue[i]
  <2>1. \A i \in DOMAIN queue' \ DOMAIN queue : queue'[i] \in {report}
    BY <1>1, <1>8, EnqueuedAppends
  <2>2. \A i \in DOMAIN queue : queue'[i] = queue[i]
    BY <1>1, <1>8, EnqueuedAppends
  <2> QED BY <2>1, <2>2
<1>11. BatchFirst'
  BY <1>1, <1>8, BatchStaysFirst
<1>12. NothingSent'
  BY <1>1 DEF NothingSent, Working
<1>13. ASSUME NEW l \in Launches, ~Stopped(l)' PROVE RowSound(l)' /\ WorkSound(l)'
  <2>0. ~Stopped(l) /\ RowSound(l) /\ WorkSound(l)
    BY <1>1, <1>13 DEF Stopped
  <2>1. CASE l = k
    <3>1. RowSound(k)'
      BY <1>2, <1>3, <2>0, <2>1 DEF RowSound
    <3>2. ASSUME Working(k)'
         PROVE  sent'[k] = Stage(k)' /\ row'[k].status \notin Final /\ NothingFinal(k)'
      <4>1. status \notin Final /\ sent'[k] = Stage(k)'
        BY <1>2, <1>3, <1>4, <2>0, <2>1, <3>2 DEF Working, Stage, Final
      <4>2. NothingFinal(k)'
        BY <1>3, <1>6, <1>10, <2>0, <2>1, <4>1 DEF NothingFinal
      <4> QED BY <1>3, <2>0, <2>1, <4>1, <4>2
    <3> QED BY <2>1, <3>1, <3>2 DEF WorkSound
  <2>2. CASE l # k
    <3>1. sent'[l] = sent[l] /\ task'[l] = task[l]
      BY <1>4, <2>2
    <3>2. NothingFinal(l) => NothingFinal(l)'
      BY <1>6, <1>10, <2>2 DEF NothingFinal
    <3> QED BY <2>0, <3>1, <3>2 DEF RowSound, WorkSound, Working, Stage
  <2> QED BY <2>1, <2>2
<1> QED BY <1>9, <1>11, <1>12, <1>13 DEF NumberInv

\* The steps of a launch's own task.
LEMMA RunNumbers ==
    ASSUME IInv, TypeInv, TypeInv', NumberInv, Clean, NEW l \in Launches, Run(l) \/ Observe(l)
    PROVE  NumberInv'
<1> USE DEF outbox, puller, memory, bounds
<1>0. /\ {"preparing", "running", "failed", "succeeded"} \subseteq Statuses
      /\ {"preparing", "running", "none"} \subseteq TaskSteps
  BY DEF Statuses, OWNED_STATUSES, TerminalStatuses, TaskSteps
<1>1. CASE Prepare(l)
  BY <1>0, <1>1, ReportNumbers DEF Prepare
<1>2. CASE StartHarness(l)
  BY <1>0, <1>2, ReportNumbers DEF StartHarness
<1>3. CASE FailTask(l)
  BY <1>0, <1>3, ReportNumbers DEF FailTask, EndTask
<1>4. CASE Succeed(l)
  BY <1>0, <1>4, ReportNumbers DEF Succeed, EndTask
<1>5. CASE FoundStopped(l) \/ Observe(l)
  <2>1. /\ task' = [task EXCEPT ![l] = "none"]
        /\ UNCHANGED <<row, queue, dead, batch, accepted, decided, reconciled, sent>>
    BY <1>5 DEF FoundStopped, Observe, EndTask, StopTask
  <2>2. /\ task'[l] = "none" /\ \A k \in Launches : k # l => task'[k] = task[k]
        /\ task[l] # "none" => l \notin accepted
    BY <2>1 DEF IInv, MemoryOK, OnceSound
  <2>3. task[l] # "none"
    BY <1>5 DEF FoundStopped, Observe
  <2>4. /\ RowsFresh' /\ BatchFirst' /\ DeadSound'
        /\ \A k \in Launches : ~Stopped(k)' => ~Stopped(k) /\ ReportsSound(k)' /\ RowSound(k)'
    BY <2>1 DEF NumberInv, RowsFresh, BatchFirst, DeadSound, Stopped, ReportsSound, RowSound
  <2>5. ASSUME NEW k \in Launches, Working(k)' PROVE Working(k) /\ Stage(k)' = Stage(k)
    BY <2>1, <2>2, <2>3, <2>5 DEF Working, Stage
  <2>6. NothingSent'
    BY <2>1, <2>5 DEF NumberInv, NothingSent
  <2>7. \A k \in Launches : ~Stopped(k) => WorkSound(k)'
    BY <2>1, <2>5 DEF NumberInv, WorkSound, NothingFinal
  <2> QED BY <2>4, <2>6, <2>7 DEF NumberInv
<1> QED BY <1>1, <1>2, <1>3, <1>4, <1>5 DEF Run

\* The server's own moves.
LEMMA ServerNumbers ==
    ASSUME IInv, TypeInv, NumberInv, Clean, NEW k \in Launches, Request(k) \/ StopLaunch(k)
    PROVE  NumberInv'
<1> USE DEF outbox, puller, memory, executor
<1>1. /\ UNCHANGED <<queue, dead, batch, accepted, decided, reconciled, sent, task>>
      /\ \A l \in Launches : l # k => row'[l] = row[l]
      /\ \/ row[k].status = "absent" /\ row'[k].status = "requested" /\ row'[k].version = 1
         \/ Live(k) /\ Stopped(k)'
  BY DEF Request, StopLaunch, IInv, MemoryOK, Stopped
<1>2. /\ RowsFresh /\ BatchFirst /\ DeadSound /\ NothingSent
      /\ \A l \in Launches : ~Stopped(l) => ReportsSound(l) /\ RowSound(l) /\ WorkSound(l)
      /\ ~Stopped(k)
  BY <1>1 DEF NumberInv, Stopped, Live, TerminalStatuses, StopStatuses
<1>3. RowsFresh' /\ BatchFirst'
  BY <1>1, <1>2 DEF RowsFresh, BatchFirst
<1>4. DeadSound' /\ NothingSent'
  BY <1>1, <1>2 DEF DeadSound, Stopped, NothingSent, Working
<1>5. ASSUME NEW l \in Launches, ~Stopped(l)'
      PROVE  ReportsSound(l)' /\ RowSound(l)' /\ WorkSound(l)'
  <2>1. CASE l = k
    <3>1. row[k].status = "absent" /\ row'[k].status = "requested" /\ row'[k].version = 1
      BY <1>1, <1>5, <2>1
    <3>2. sent[k] = 0 /\ ~Working(k)
      BY <1>2, <3>1 DEF RowSound, IInv, Remembered, Working
    <3>3. \A i \in DOMAIN queue : queue[i].launch # k
      <4> SUFFICES ASSUME NEW i \in DOMAIN queue, queue[i].launch = k PROVE FALSE
        OBVIOUS
      <4>1. queue[i].expected >= 1 /\ queue[i].expected <= 0
        BY <1>2, <3>2 DEF RowsFresh
      <4>2. queue[i].expected \in Nat
        BY QueueTypes, KeyOf DEF TypeInv, QueueOK
      <4> QED BY <4>1, <4>2
    <3>4. ReportsSound(k)'
      BY <1>1, <3>1, <3>2, <3>3 DEF ReportsSound
    <3>5. RowSound(k)' /\ WorkSound(k)'
      BY <1>1, <3>1, <3>2 DEF RowSound, Ladder, WorkSound, Working
    <3> QED BY <2>1, <3>4, <3>5
  <2>2. CASE l # k
    <3>1. row'[l] = row[l] /\ ~Stopped(l)
      BY <1>1, <1>5, <2>2 DEF Stopped
    <3>2. ReportsSound(l) /\ RowSound(l) /\ WorkSound(l)
      BY <1>2, <3>1
    <3> QED
      BY <1>1, <3>1, <3>2 DEF ReportsSound, RowSound, WorkSound, Working, Stage, NothingFinal
  <2> QED BY <2>1, <2>2
<1> QED BY <1>3, <1>4, <1>5 DEF NumberInv

\* A pass that finds a row it cannot dead-letter takes a crash to come about.
LEMMA NotPoisoned == ASSUME TypeInv, NumberInv, Clean PROVE ~PoisonedPass
<1> SUFFICES ASSUME PoisonedPass PROVE FALSE
  OBVIOUS
<1>1. batch # {} /\ Key(First) \in dead
  BY DEF PoisonedPass, Blocking
<1>2. 1 \in DOMAIN queue /\ First = queue[1]
  BY <1>1, FirstIsHead DEF NumberInv
<1> QED BY <1>1, <1>2 DEF NumberInv, RowsFresh

LEMMA NumberStep == IInv /\ CapacityInv /\ TypeInv /\ NumberInv /\ [Next]_vars => NumberInv'
<1> SUFFICES ASSUME IInv, CapacityInv, TypeInv, NumberInv, [Next]_vars, Clean'
             PROVE  NumberInv'
  BY DEF NumberInv
<1>0. TypeInv'
  BY TypeStep
<1>1. Clean /\ ~Fault /\ ~Crash
  <2>1. /\ faults \in Nat /\ crashes \in Nat
        /\ faults' = 0 /\ crashes' = 0
    BY DEF TypeInv, Clean
  <2>2. ~Fault /\ ~Crash
    BY <2>1 DEF Fault, Crash
  <2>3. UNCHANGED bounds
    BY <2>2 DEF Next, vars, Request, StopLaunch, Loop, Beat, SendLands, SendRefused, SendFails,
       Poll, PollFails, PoisonedPass, BackoffEnds, Run, FoundStopped, Prepare, StartHarness,
       FailTask, Succeed, Observe
  <2> QED BY <2>1, <2>2, <2>3 DEF bounds, Clean
<1>2. CASE Loop
  <2>1. ~SendFails /\ ~PollFails /\ ~PoisonedPass
    BY <1>1, NotPoisoned DEF SendFails, PollFails
  <2> QED
    BY <1>0, <1>1, <1>2, <2>1, BeatNumbers, SendLandsNumbers, SendRefusedNumbers, PollNumbers
       DEF Loop
<1>3. CASE BackoffEnds
  BY <1>1, <1>3 DEF BackoffEnds, NumberInv, RowsFresh
<1>4. CASE UNCHANGED vars
  BY <1>4 DEF vars, outbox, puller, memory, executor, bounds, NumberInv, Clean, RowsFresh,
     BatchFirst, DeadSound, NothingSent, ReportsSound, RowSound, WorkSound, Working, Stage,
     NothingFinal, Stopped
<1> QED BY <1>0, <1>1, <1>2, <1>3, <1>4, ServerNumbers, RunNumbers DEF Next

\* No report is refused but those of a launch the server has ended: as long as no
\* request fails and no process crashes, each is numbered with the version the
\* server has when it arrives, through any interleaving of the pull, the runs and
\* the passes.
THEOREM NoReportIsRefused == Spec => []NoReportRefused
<1>1. Init => NumberInv
  <2> SUFFICES ASSUME Init PROVE NumberInv
    OBVIOUS
  <2>1. /\ DOMAIN queue = {} /\ dead = {}
        /\ \A l \in Launches :
              /\ row[l].status = "absent" /\ row[l].version = 0 /\ sent[l] = 0 /\ ~Working(l)
    BY DEF Init, Working
  <2> QED
    BY <2>1 DEF NumberInv, RowsFresh, BatchFirst, DeadSound, NothingSent, ReportsSound, RowSound,
       Ladder, WorkSound
<1>2. TypeInv /\ NumberInv => NoReportRefused
  <2> SUFFICES ASSUME TypeInv, NumberInv, Clean, NEW key \in dead
               PROVE  row[key[1]].status \in StopStatuses
    BY DEF NoReportRefused, Clean
  <2>1. PICK l \in Launches, n \in Nat : key = <<l, n>>
    BY DEF TypeInv, Keys
  <2> QED BY <2>1 DEF NumberInv, DeadSound, Stopped
<1>3. Init => CapacityInv
  BY CapacityInit
<1> QED
  BY <1>1, <1>2, <1>3, InitInv, StepInv, CapacityStep, InitTypes, TypeStep, NumberStep, PTL DEF Spec
=============================================================================
