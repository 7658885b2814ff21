--------------------------- MODULE Outbox_proofs ---------------------------
(* Proofs about Outbox: for every set of rows and of passes, every batch   *)
(* limit, and however often the daemon is restarted.                       *)
EXTENDS Outbox, FiniteSetTheorems, TLAPS

USE RowsAssumption, HeartbeatAssumption, BoundsAssumption

PassType == [todo : [Rows -> Stamps], answer : Answers]

\* The connection sees every committed row: what it has not committed yet are
\* new rows only.
DiskQueued == \A r \in Rows : disk[r] # 0 => queue[r] = disk[r]

\* created_at orders the rows, and is never ahead of the clock.
QueueOrdered ==
    /\ \A r \in Rows : queue[r] <= clock
    /\ \A r, s \in Rows : queue[r] = queue[s] /\ queue[r] # 0 => r = s

TodoOrdered(p) ==
    /\ \A r \in Rows : pass[p].todo[r] <= clock
    /\ \A r, s \in Rows : pass[p].todo[r] = pass[p].todo[s] /\ pass[p].todo[r] # 0
                            => r = s

\* A row a pass still has to send is queued as of the snapshot, or was put
\* back later.
TodoOlder(p) ==
    \A r \in Rows : pass[p].todo[r] # 0 /\ queue[r] # 0 => pass[p].todo[r] <= queue[r]

\* A row older than one the pass has to send, and not among those itself, has
\* failed before.
LeftOutTried(p) ==
    \A r \in Rows : pass[p].todo[r] # 0 =>
        \A s \in Table(r) :
            0 < queue[s] /\ queue[s] < pass[p].todo[r] /\ pass[p].todo[s] = 0
              => s \in tried

\* The row whose success a pass is about to record was carried out.
OkLanded(p) == \A r \in Rows : Answered(p, r, "ok") => r \in applied

\* An idle pass holds no answer.
Quiet(p) == pass[p].answer # "none" => Busy(p)

PassSound(p) == Quiet(p) /\ TodoOrdered(p) /\ TodoOlder(p) /\ LeftOutTried(p) /\ OkLanded(p)

IInv ==
    /\ TypeOK
    /\ DiskQueued
    /\ QueueOrdered
    /\ waiting \subseteq tried
    /\ NothingLost
    /\ \A p \in Passes : PassSound(p)

-----------------------------------------------------------------------------
LEMMA TableIsRows == \A r \in Rows : Table(r) \subseteq Rows /\ r \in Table(r)
BY DEF Table

LEMMA SameTable == ASSUME NEW r \in Rows, NEW s \in Table(r) PROVE Table(s) = Table(r)
BY DEF Table

\* What the three ways to write a pass do.
LEMMA AnswerEffect ==
    ASSUME TypeOK, NEW p \in Passes, NEW a \in Answers,
           pass' = [pass EXCEPT ![p].answer = a]
    PROVE  /\ pass' \in [Passes -> PassType]
           /\ pass'[p].todo = pass[p].todo /\ pass'[p].answer = a
           /\ \A q \in Passes : q # p => pass'[q] = pass[q]
           /\ \A q \in Passes : pass'[q].todo = pass[q].todo
BY DEF TypeOK, PassType

LEMMA GoOnEffect ==
    ASSUME TypeOK, NEW p \in Passes, NEW r \in Rows, GoOn(p, r)
    PROVE  /\ pass' \in [Passes -> PassType]
           /\ pass'[p].answer = "none"
           /\ pass'[p].todo[r] = 0
           /\ \A s \in Rows : s # r => pass'[p].todo[s] = pass[p].todo[s]
           /\ \A q \in Passes : q # p => pass'[q] = pass[q]
<1>1. pass \in [Passes -> PassType]
  BY DEF TypeOK, PassType
<1>2. pass[p].todo \in [Rows -> Stamps]
  BY <1>1 DEF PassType
<1> DEFINE t == Remove(pass[p].todo, r)
<1>3. t \in [Rows -> Stamps] /\ t[r] = 0 /\ \A s \in Rows : s # r => t[s] = pass[p].todo[s]
  BY <1>2 DEF Remove, Stamps
<1>4. pass' = [pass EXCEPT ![p] = [todo |-> t, answer |-> "none"]]
  BY <1>1 DEF GoOn
<1> HIDE DEF t
<1>5. [todo |-> t, answer |-> "none"] \in PassType
  BY <1>3 DEF PassType, Answers
<1> QED BY <1>1, <1>3, <1>4, <1>5

LEMMA IdleEffect ==
    /\ IdlePass \in PassType
    /\ IdlePass.answer = "none"
    /\ \A r \in Rows : IdlePass.todo[r] = 0
BY DEF IdlePass, PassType, Nothing, Stamps, Answers

LEMMA GiveUpEffect ==
    ASSUME TypeOK, NEW p \in Passes, GiveUp(p)
    PROVE  /\ pass' \in [Passes -> PassType]
           /\ pass'[p] = IdlePass
           /\ \A q \in Passes : q # p => pass'[q] = pass[q]
BY IdleEffect DEF TypeOK, PassType, GiveUp

\* The effect of deleting a row.
LEMMA DeleteEffect ==
    ASSUME IInv, NEW r \in Rows, Delete(r)
    PROVE  /\ queue' \in [Rows -> Stamps] /\ disk' = queue'
           /\ queue'[r] = 0 /\ \A s \in Rows : s # r => queue'[s] = queue[s]
           /\ tried' = tried \ {r} /\ waiting' = waiting \ {r}
           /\ durable' = durable \cup Present(queue') /\ durable' \subseteq Rows
BY DEF IInv, TypeOK, Delete, Committed, Remove, Present, Stamps

\* A pass that has nothing to send is sound.
LEMMA IdleSound ==
    ASSUME IInv, clock' \in Nat, NEW p \in Passes, pass'[p] = IdlePass
    PROVE  PassSound(p)'
BY IdleEffect DEF PassSound, Quiet, TodoOrdered, TodoOlder, LeftOutTried, OkLanded, Answered,
   At, Present

\* A pass stays sound while it is left alone, rows are only added behind the
\* clock or removed, attempts are only forgotten with their row, and the
\* server only carries out more.
LEMMA OtherSound ==
    ASSUME IInv, NEW p \in Passes, pass'[p] = pass[p],
           clock' \in Nat, clock <= clock',
           queue' \in [Rows -> Stamps],
           \A r \in Rows : queue'[r] \in {0, queue[r]} \/ clock < queue'[r],
           \A r \in Rows : r \in tried => r \in tried' \/ queue'[r] = 0,
           applied \subseteq applied'
    PROVE  PassSound(p)'
<1> USE DEF IInv, TypeOK, Stamps
<1>1. pass[p] \in PassType /\ PassSound(p) /\ pass[p].todo \in [Rows -> Stamps]
  BY DEF PassType
<1>2. TodoOrdered(p)'
  BY <1>1 DEF PassSound, TodoOrdered
<1>3. TodoOlder(p)'
  BY <1>1 DEF PassSound, TodoOrdered, TodoOlder
<1>4. LeftOutTried(p)'
  BY <1>1, TableIsRows, SMTT(30) DEF PassSound, TodoOrdered, LeftOutTried
<1>5. OkLanded(p)'
  BY <1>1 DEF PassSound, OkLanded, Answered, At
<1>6. Quiet(p)'
  BY <1>1 DEF PassSound, Quiet, Busy, Present
<1> QED BY <1>2, <1>3, <1>4, <1>5, <1>6 DEF PassSound

-----------------------------------------------------------------------------
LEMMA InitInv == Init => IInv
<1> SUFFICES ASSUME Init PROVE IInv
  OBVIOUS
<1>1. TypeOK
  <2>1. pass \in [Passes -> PassType]
    BY IdleEffect DEF Init
  <2>2. queue \in [Rows -> Stamps] /\ disk \in [Rows -> Stamps]
    BY DEF Init, Nothing, Stamps
  <2>3. clock \in Stamps /\ restarts \in 0..MaxRestarts
    BY DEF Init, Stamps
  <2>4. /\ tried \subseteq Rows /\ waiting \subseteq Rows /\ dead \subseteq Rows
        /\ applied \subseteq Rows /\ flying \subseteq Rows /\ durable \subseteq Rows
    BY DEF Init
  <2>5. stopping \in BOOLEAN
    BY DEF Init
  <2> QED BY <2>1, <2>2, <2>3, <2>4, <2>5, Zenon DEF TypeOK, PassType
<1>2. \A p \in Passes : pass[p] = IdlePass
  BY DEF Init
<1>3. \A p \in Passes : PassSound(p)
  BY <1>2, IdleEffect DEF Init, PassSound, Quiet, TodoOrdered, TodoOlder, LeftOutTried,
     OkLanded, Answered, At, Present
<1>4. DiskQueued /\ QueueOrdered
  BY DEF Init, DiskQueued, QueueOrdered, Nothing
<1>5. NothingLost /\ waiting \subseteq tried
  BY DEF Init, NothingLost
<1> QED BY <1>1, <1>3, <1>4, <1>5 DEF IInv

LEMMA EnqueueStep ==
    ASSUME IInv, NEW r \in Rows, Enqueue(r)
    PROVE  IInv'
<1> USE DEF serverVars, processVars
<1> DEFINE q == [queue EXCEPT ![r] = clock + 1]
<1>1. /\ q \in [Rows -> Stamps] /\ q[r] = clock + 1 /\ q[r] # 0
      /\ \A s \in Rows : s # r => q[s] = queue[s]
      /\ queue' = q /\ clock' = clock + 1 /\ clock' \in Stamps
  BY DEF IInv, TypeOK, Stamps, Enqueue, Committed
<1>2. \/ disk' = q /\ durable' = durable \cup Present(q)
      \/ disk' = disk /\ durable' = durable
  BY DEF Enqueue, Committed
<1>3. queue[r] = 0 /\ disk[r] = 0
  BY DEF Enqueue, Fresh, IInv, DiskQueued
<1>4. UNCHANGED <<tried, waiting, dead, pass, applied, flying, stopping, restarts>>
  BY DEF Enqueue
<1> HIDE DEF q
<1>5. TypeOK'
  BY <1>1, <1>2, <1>4 DEF IInv, TypeOK, Present
<1>6. DiskQueued'
  BY <1>1, <1>2, <1>3 DEF IInv, DiskQueued
<1>7. QueueOrdered'
  <2>1. clock \in Nat /\ \A s \in Rows : queue[s] \in Nat /\ queue[s] <= clock
    BY DEF IInv, TypeOK, Stamps, QueueOrdered
  <2>2. \A s \in Rows : queue'[s] <= clock'
    BY <1>1, <2>1
  <2>3. \A s, t \in Rows : queue'[s] = queue'[t] /\ queue'[s] # 0 => s = t
    <3> SUFFICES ASSUME NEW s \in Rows, NEW t \in Rows,
                        queue'[s] = queue'[t], queue'[s] # 0
                 PROVE  s = t
      OBVIOUS
    <3>1. CASE s # r /\ t # r
      BY <1>1, <3>1 DEF IInv, QueueOrdered
    <3>2. CASE s = r \/ t = r
      BY <1>1, <2>1, <3>2
    <3> QED BY <3>1, <3>2
  <2> QED BY <2>2, <2>3 DEF QueueOrdered
<1>8. NothingLost'
  BY <1>1, <1>2, <1>3, <1>4 DEF IInv, TypeOK, DiskQueued, NothingLost, Present
<1>9. ASSUME NEW p \in Passes PROVE PassSound(p)'
  <2>1. clock' \in Nat /\ clock <= clock' /\ queue' \in [Rows -> Stamps]
        /\ \A s \in Rows : queue'[s] \in {0, queue[s]} \/ clock < queue'[s]
    BY <1>1 DEF IInv, TypeOK, Stamps
  <2> QED BY <2>1, <1>4, OtherSound
<1> QED BY <1>4, <1>5, <1>6, <1>7, <1>8, <1>9 DEF IInv

\* Somebody else's transaction commits the rows as they are.
LEMMA CommitStep == ASSUME IInv, Commit PROVE IInv'
<1> USE DEF serverVars, processVars
<1>1. /\ queue' = queue /\ disk' = queue /\ durable' = durable \cup Present(queue)
      /\ UNCHANGED <<tried, waiting, dead, pass, applied, flying, stopping, restarts, clock>>
  BY DEF Commit, Committed
<1>2. TypeOK'
  BY <1>1 DEF IInv, TypeOK, Present
<1>3. DiskQueued' /\ QueueOrdered'
  BY <1>1 DEF IInv, DiskQueued, QueueOrdered
<1>4. NothingLost'
  BY <1>1 DEF IInv, TypeOK, DiskQueued, NothingLost, Present
<1>5. \A p \in Passes : PassSound(p)'
  BY <1>1, OtherSound DEF IInv, TypeOK, Stamps
<1> QED BY <1>1, <1>2, <1>3, <1>4, <1>5 DEF IInv

\* Falling back to what is committed only takes rows away.
LEMMA FallBack ==
    ASSUME IInv, queue' = disk,
           UNCHANGED <<disk, tried, waiting, dead, durable, clock>>,
           applied \subseteq applied'
    PROVE  /\ DiskQueued' /\ QueueOrdered' /\ (waiting \subseteq tried)' /\ NothingLost'
           /\ \A p \in Passes : pass'[p] = pass[p] => PassSound(p)'
           /\ \A p \in Passes : pass'[p] = IdlePass => PassSound(p)'
<1>1. /\ DiskQueued' /\ QueueOrdered' /\ (waiting \subseteq tried)' /\ NothingLost'
  BY DEF IInv, TypeOK, Stamps, DiskQueued, QueueOrdered, NothingLost
<1>2. clock' \in Nat /\ clock <= clock' /\ queue' \in [Rows -> Stamps]
      /\ \A s \in Rows : queue'[s] \in {0, queue[s]}
  BY DEF IInv, TypeOK, Stamps, DiskQueued
<1> QED BY <1>1, <1>2, OtherSound, IdleSound

LEMMA RollbackStep == ASSUME IInv, Rollback PROVE IInv'
<1> USE DEF serverVars, processVars
<1>1. TypeOK'
  BY DEF Rollback, IInv, TypeOK
<1> QED BY <1>1, FallBack DEF Rollback, IInv

LEMMA EndProcessStep == ASSUME IInv, EndProcess, restarts' \in 0..MaxRestarts PROVE IInv'
<1>1. pass' \in [Passes -> PassType] /\ \A p \in Passes : pass'[p] = IdlePass
  BY IdleEffect DEF EndProcess
<1>2. TypeOK'
  BY <1>1 DEF EndProcess, IInv, TypeOK, PassType, InFlight
<1> QED BY <1>1, <1>2, FallBack DEF EndProcess, IInv

\* A step of the server, or the end of a backoff, leaves the queue alone.
LEMMA StoreAlone ==
    ASSUME IInv, UNCHANGED <<queue, disk, tried, dead, durable, clock>>,
           waiting' \subseteq waiting, applied \subseteq applied'
    PROVE  /\ DiskQueued' /\ QueueOrdered' /\ (waiting \subseteq tried)' /\ NothingLost'
           /\ \A p \in Passes : pass'[p] = pass[p] => PassSound(p)'
           /\ \A p \in Passes : pass'[p] = IdlePass => PassSound(p)'
<1>1. /\ DiskQueued' /\ QueueOrdered' /\ (waiting \subseteq tried)' /\ NothingLost'
  BY DEF IInv, TypeOK, Stamps, DiskQueued, QueueOrdered, NothingLost
<1>2. clock' \in Nat /\ clock <= clock' /\ queue' \in [Rows -> Stamps]
  BY DEF IInv, TypeOK, Stamps
<1> QED BY <1>1, <1>2, OtherSound, IdleSound

LEMMA BackoffEndsStep == ASSUME IInv, NEW r \in Rows, BackoffEnds(r) PROVE IInv'
<1> USE DEF serverVars, processVars
<1>1. TypeOK'
  BY DEF BackoffEnds, IInv, TypeOK
<1> QED BY <1>1, StoreAlone DEF BackoffEnds, IInv

LEMMA ArriveStep == ASSUME IInv, NEW r \in Rows, Arrive(r) PROVE IInv'
<1> USE DEF storeVars, processVars
<1>1. TypeOK'
  BY DEF Arrive, CarryOut, IInv, TypeOK
<1> QED BY <1>1, StoreAlone DEF Arrive, CarryOut, IInv

LEMMA AbandonStep == ASSUME IInv, NEW p \in Passes, Abandon(p) PROVE IInv'
<1> USE DEF storeVars, processVars
<1>1. /\ pass' \in [Passes -> PassType]
      /\ pass'[p] = IdlePass
      /\ \A q \in Passes : q # p => pass'[q] = pass[q]
  BY GiveUpEffect DEF Abandon, IInv
<1>2. TypeOK'
  BY <1>1 DEF Abandon, IInv, TypeOK, PassType, InFlight
<1> QED BY <1>1, <1>2, StoreAlone DEF Abandon, IInv

-----------------------------------------------------------------------------
LEMMA StartPassStep == ASSUME IInv, NEW p \in Passes, StartPass(p) PROVE IInv'
<1> USE DEF storeVars, serverVars
<1>1. PICK B \in Batch : pass' = [pass EXCEPT ![p].todo = Snapshot(B)]
  BY DEF StartPass
<1> DEFINE t == Snapshot(B)
<1>2. /\ t \in [Rows -> Stamps]
      /\ \A r \in Rows : t[r] = IF r \in B THEN queue[r] ELSE 0
  BY DEF Snapshot, IInv, TypeOK, Stamps
<1>0. pass' = [pass EXCEPT ![p].todo = t]
  BY <1>1
<1> HIDE DEF t
<1>3. /\ pass' \in [Passes -> PassType]
      /\ pass'[p].todo = t /\ pass'[p].answer = pass[p].answer
      /\ \A q \in Passes : q # p => pass'[q] = pass[q]
  BY <1>0, <1>2 DEF IInv, TypeOK, PassType
<1>4. TypeOK'
  <2>1. stopping' \in BOOLEAN
    BY DEF StartPass
  <2> QED BY <1>3, <2>1 DEF StartPass, IInv, TypeOK, PassType
<1>5. TodoOrdered(p)' /\ TodoOlder(p)'
  <2>1. \A r \in Rows : queue[r] \in Nat /\ queue[r] <= clock /\ clock \in Nat
    BY DEF IInv, TypeOK, Stamps, QueueOrdered
  <2> QED BY <1>2, <1>3, <2>1 DEF StartPass, IInv, QueueOrdered, TodoOrdered, TodoOlder
<1>6. LeftOutTried(p)'
  <2> SUFFICES ASSUME NEW r \in Rows, t[r] # 0, NEW s \in Table(r),
                      0 < queue[s], queue[s] < t[r], t[s] = 0
               PROVE  s \in tried
    BY <1>3 DEF StartPass, LeftOutTried
  <2> DEFINE Older(x) == {y \in Ready \cap Table(x) : queue[y] < queue[x]}
  <2>1. s \in Rows /\ Table(s) = Table(r) /\ \A x \in Rows : queue[x] \in Nat
    BY TableIsRows, SameTable DEF IInv, TypeOK, Stamps
  <2>2. r \in B /\ s \notin B /\ queue[s] < queue[r] /\ queue[s] # 0
    BY <1>2, <2>1
  <2>3. B = {x \in Ready : Cardinality(Older(x)) < Limit}
    BY DEF Batch
  <2>4. Older(s) \subseteq Older(r)
    <3>1. \A y \in Ready : y \in Rows
      BY DEF Ready, Present
    <3> QED BY <2>1, <2>2, <3>1, TableIsRows
  <2>5. IsFiniteSet(Older(r))
    <3>1. Older(r) \subseteq Rows
      BY DEF Ready, Present
    <3> QED BY <3>1, FS_Subset
  <2>6. Cardinality(Older(s)) <= Cardinality(Older(r))
        /\ Cardinality(Older(s)) \in Nat /\ Cardinality(Older(r)) \in Nat
    <3>1. IsFiniteSet(Older(s))
      BY <2>4, <2>5, FS_Subset
    <3> QED BY <3>1, <2>4, <2>5, FS_Subset, FS_CardinalityType
  <2>7. Cardinality(Older(r)) < Limit
    BY <2>2, <2>3
  <2>8. s \notin Ready
    <3> HIDE DEF Older
    <3> QED BY <2>2, <2>3, <2>6, <2>7
  <2> QED BY <2>1, <2>2, <2>8 DEF Ready, Present, IInv
<1>7. OkLanded(p)' /\ Quiet(p)'
  <2>1. pass'[p].answer = "none"
    BY <1>3 DEF StartPass, IInv, PassSound, Quiet
  <2> QED BY <2>1 DEF OkLanded, Answered, Quiet
<1>8. PassSound(p)'
  BY <1>5, <1>6, <1>7 DEF PassSound
<1> QED BY <1>3, <1>4, <1>8, StoreAlone DEF StartPass, IInv

LEMMA DecideStep ==
    ASSUME IInv, NEW p \in Passes, NEW r \in Rows, Decide(p, r) \/ LoseTouch(p, r)
    PROVE  IInv'
<1> USE DEF storeVars, processVars
<1>1. PICK a \in Answers :
        /\ pass' = [pass EXCEPT ![p].answer = a]
        /\ a = "ok" => r \in applied'
        /\ a # "none"
  BY DEF Decide, LoseTouch, Land, Refuse, Fail, CarryOut, Answers
<1>2. /\ UNCHANGED <<queue, disk, tried, waiting, dead, durable, clock, stopping, restarts>>
      /\ applied \subseteq applied' /\ applied' \subseteq Rows /\ flying' \subseteq Rows
      /\ Awaiting(p, r)
  BY DEF Decide, LoseTouch, Land, Refuse, Fail, CarryOut, IInv, TypeOK
<1>3. /\ pass' \in [Passes -> PassType]
      /\ pass'[p].todo = pass[p].todo /\ pass'[p].answer = a
      /\ \A q \in Passes : q # p => pass'[q] = pass[q]
  BY <1>1, AnswerEffect DEF IInv
<1>4. TypeOK'
  BY <1>2, <1>3 DEF IInv, TypeOK, PassType
<1>5. TodoOrdered(p)' /\ TodoOlder(p)' /\ LeftOutTried(p)'
  BY <1>2, <1>3 DEF IInv, PassSound, TodoOrdered, TodoOlder, LeftOutTried
<1>6. Quiet(p)'
  BY <1>2, <1>3 DEF Quiet, Busy, Awaiting, At
<1>7. OkLanded(p)'
  <2> SUFFICES ASSUME NEW s \in Rows, At(p, s)', a = "ok" PROVE s \in applied'
    BY <1>3 DEF OkLanded, Answered
  <2>1. At(p, s) /\ At(p, r)
    BY <1>2, <1>3 DEF At, Awaiting
  <2>2. \A x \in Rows : pass[p].todo[x] \in Nat
    BY DEF IInv, TypeOK, Stamps
  <2>3. pass[p].todo[s] = pass[p].todo[r] /\ pass[p].todo[s] # 0
    BY <2>1, <2>2 DEF At, Present
  <2>4. s = r
    BY <2>3 DEF IInv, PassSound, TodoOrdered
  <2> QED BY <1>1, <2>4
<1>8. PassSound(p)'
  BY <1>5, <1>6, <1>7 DEF PassSound
<1> QED BY <1>2, <1>3, <1>4, <1>8, StoreAlone DEF IInv

\* A row leaves the queue once it is carried out or in dead_letter.
LEMMA DeleteStep ==
    ASSUME IInv, NEW p \in Passes, NEW r \in Rows, Delete(r), GoOn(p, r),
           queue[r] # 0 => r \in dead' \/ r \in applied,
           dead \subseteq dead', dead' \subseteq Rows,
           UNCHANGED <<clock, applied, flying, stopping, restarts>>
    PROVE  IInv'
<1>1. /\ queue' \in [Rows -> Stamps] /\ disk' = queue'
      /\ queue'[r] = 0 /\ \A s \in Rows : s # r => queue'[s] = queue[s]
      /\ tried' = tried \ {r} /\ waiting' = waiting \ {r}
      /\ durable' = durable \cup Present(queue') /\ durable' \subseteq Rows
  BY DeleteEffect
<1>2. /\ pass' \in [Passes -> PassType]
      /\ pass'[p].answer = "none"
      /\ pass'[p].todo[r] = 0
      /\ \A s \in Rows : s # r => pass'[p].todo[s] = pass[p].todo[s]
      /\ \A q \in Passes : q # p => pass'[q] = pass[q]
  BY GoOnEffect DEF IInv
<1>3. TypeOK'
  BY <1>1, <1>2 DEF IInv, TypeOK, PassType
<1>4. DiskQueued' /\ (waiting \subseteq tried)'
  BY <1>1 DEF IInv, DiskQueued
<1>5. QueueOrdered'
  <2>1. clock \in Nat
    BY DEF IInv, TypeOK, Stamps
  <2> QED BY <1>1, <2>1 DEF IInv, QueueOrdered
<1>6. NothingLost'
  <2> SUFFICES ASSUME NEW s \in durable' PROVE disk'[s] # 0 \/ s \in dead' \/ s \in applied
    BY DEF NothingLost
  <2>1. s \in durable \/ queue'[s] # 0
    BY <1>1 DEF Present
  <2>2. CASE s \in durable
    <3>1. disk[s] # 0 \/ s \in dead' \/ s \in applied
      BY <2>2 DEF IInv, NothingLost
    <3>2. disk[s] # 0 => queue[s] # 0
      BY <1>1 DEF IInv, DiskQueued
    <3> QED BY <1>1, <3>1, <3>2
  <2> QED BY <1>1, <2>1, <2>2
<1>7. PassSound(p)'
  <2>1. TodoOrdered(p)'
    <3>1. clock \in Nat
      BY DEF IInv, TypeOK, Stamps
    <3> QED BY <1>2, <3>1 DEF IInv, PassSound, TodoOrdered
  <2>2. TodoOlder(p)'
    BY <1>1, <1>2 DEF IInv, PassSound, TodoOlder
  <2>3. LeftOutTried(p)'
    <3>1. \A x \in Rows : \A s \in Table(x) : s \in Rows
      BY TableIsRows
    <3>2. ~(0 < queue'[r])
      BY <1>1
    <3> QED BY <1>1, <1>2, <3>1, <3>2 DEF IInv, PassSound, LeftOutTried
  <2>4. OkLanded(p)' /\ Quiet(p)'
    BY <1>2 DEF OkLanded, Answered, Quiet
  <2> QED BY <2>1, <2>2, <2>3, <2>4 DEF PassSound
<1>8. ASSUME NEW q \in Passes, q # p PROVE PassSound(q)'
  <2>1. clock' \in Nat /\ clock <= clock'
    BY DEF IInv, TypeOK, Stamps
  <2>2. \A s \in Rows : queue'[s] \in {0, queue[s]}
    BY <1>1
  <2>3. \A s \in Rows : s \in tried => s \in tried' \/ queue'[s] = 0
    BY <1>1
  <2> QED BY <1>1, <1>2, <1>8, <2>1, <2>2, <2>3, OtherSound
<1> QED BY <1>3, <1>4, <1>5, <1>6, <1>7, <1>8 DEF IInv

LEMMA MarkSucceededStep ==
    ASSUME IInv, NEW p \in Passes, NEW r \in Rows, MarkSucceeded(p, r)
    PROVE  IInv'
<1>1. r \in applied
  BY DEF MarkSucceeded, IInv, PassSound, OkLanded
<1> QED BY <1>1, DeleteStep
    DEF MarkSucceeded, serverVars, processVars, IInv, TypeOK

LEMMA MoveToDeadLetterStep ==
    ASSUME IInv, NEW p \in Passes, NEW r \in Rows, MoveToDeadLetter(p, r)
    PROVE  IInv'
<1>1. queue[r] # 0 => r \in dead'
  BY DEF MoveToDeadLetter, Present
<1>2. dead \subseteq dead' /\ dead' \subseteq Rows
  BY DEF MoveToDeadLetter, IInv, TypeOK
<1> QED BY <1>1, <1>2, DeleteStep DEF MoveToDeadLetter, serverVars, processVars

LEMMA MarkFailedStep ==
    ASSUME IInv, NEW p \in Passes, NEW r \in Rows, MarkFailed(p, r)
    PROVE  IInv'
<1> USE DEF serverVars, processVars
<1>1. PICK more \in SUBSET Rows : tried' = tried \cup more /\ waiting' = waiting \cup more
  BY DEF MarkFailed
<1>2. /\ queue' = queue /\ disk' = queue /\ durable' = durable \cup Present(queue)
      /\ UNCHANGED <<dead, applied, flying, stopping, restarts, clock>>
  BY DEF MarkFailed, Committed
<1>3. /\ pass' \in [Passes -> PassType]
      /\ pass'[p] = IdlePass
      /\ \A q \in Passes : q # p => pass'[q] = pass[q]
  BY GiveUpEffect DEF MarkFailed, IInv
<1>4. TypeOK'
  BY <1>1, <1>2, <1>3 DEF IInv, TypeOK, PassType, Present
<1>5. DiskQueued' /\ QueueOrdered' /\ (waiting \subseteq tried)'
  BY <1>1, <1>2 DEF IInv, DiskQueued, QueueOrdered
<1>6. NothingLost'
  BY <1>2 DEF IInv, TypeOK, DiskQueued, NothingLost, Present
<1>7. clock' \in Nat /\ clock <= clock' /\ queue' \in [Rows -> Stamps]
  BY <1>2 DEF IInv, TypeOK, Stamps
<1>8. \A q \in Passes : PassSound(q)'
  BY <1>1, <1>2, <1>3, <1>7, OtherSound, IdleSound
<1> QED BY <1>4, <1>5, <1>6, <1>8 DEF IInv

LEMMA PoisonedStep ==
    ASSUME IInv, NEW p \in Passes, NEW r \in Rows, Poisoned(p, r)
    PROVE  IInv'
<1> USE DEF serverVars
<1>1. CASE EndProcess
  <2>1. restarts' \in 0..MaxRestarts
    BY DEF Poisoned, IInv, TypeOK
  <2> QED BY <1>1, <2>1, EndProcessStep
<1>2. CASE ~EndProcess
  <2>1. /\ queue' = disk /\ GiveUp(p)
        /\ UNCHANGED <<disk, tried, waiting, dead, durable, clock, applied, flying,
                       stopping, restarts>>
    BY <1>2 DEF Poisoned
  <2>2. /\ pass' \in [Passes -> PassType]
        /\ pass'[p] = IdlePass
        /\ \A q \in Passes : q # p => pass'[q] = pass[q]
    BY <2>1, GiveUpEffect DEF IInv
  <2>3. TypeOK'
    BY <2>1, <2>2 DEF IInv, TypeOK, PassType
  <2> QED BY <2>1, <2>2, <2>3, FallBack DEF IInv
<1> QED BY <1>1, <1>2

LEMMA RestartStep == ASSUME IInv, Restart PROVE IInv'
<1>1. restarts' \in 0..MaxRestarts
  BY DEF Restart, IInv, TypeOK
<1> QED BY <1>1, EndProcessStep DEF Restart

LEMMA StepInv == IInv /\ [Next]_vars => IInv'
<1> SUFFICES ASSUME IInv, [Next]_vars PROVE IInv'
  OBVIOUS
<1>1. CASE \E r \in Rows : Enqueue(r) \/ BackoffEnds(r) \/ Arrive(r)
  BY <1>1, EnqueueStep, BackoffEndsStep, ArriveStep
<1>2. CASE Commit \/ Rollback \/ Restart
  BY <1>2, CommitStep, RollbackStep, RestartStep
<1>3. CASE \E p \in Passes : StartPass(p) \/ Abandon(p)
  BY <1>3, StartPassStep, AbandonStep
<1>4. CASE \E p \in Passes : \E r \in Rows : Decide(p, r) \/ LoseTouch(p, r)
  BY <1>4, DecideStep
<1>5. CASE \E p \in Passes : \E r \in Rows : Handle(p, r)
  BY <1>5, MarkSucceededStep, MoveToDeadLetterStep, MarkFailedStep, PoisonedStep DEF Handle
<1>6. CASE UNCHANGED vars
  <2>1. TypeOK'
    BY <1>6 DEF vars, IInv, TypeOK
  <2> QED BY <1>6, <2>1, StoreAlone DEF vars, IInv
<1> QED BY <1>1, <1>2, <1>3, <1>4, <1>5, <1>6 DEF Next

LEMMA AlwaysInv == Spec => []IInv
<1>1. Init => IInv
  BY InitInv
<1>2. IInv /\ [Next]_vars => IInv'
  BY StepInv
<1> QED BY <1>1, <1>2, PTL DEF Spec

-----------------------------------------------------------------------------
\* The store, the passes and the counters stay well formed.
THEOREM TypeCorrect == Spec => []TypeOK
<1>1. IInv => TypeOK
  BY DEF IInv
<1> QED BY <1>1, AlwaysInv, PTL

\* Committed work is on disk, in dead_letter or carried out by the server,
\* whatever passes overlap, answers get lost, transactions roll back and
\* processes end.
THEOREM CommittedWorkSurvives == Spec => []NothingLost
<1>1. IInv => NothingLost
  BY DEF IInv
<1> QED BY <1>1, AlwaysInv, PTL

\* A row a pass sends overtakes only rows of its table that failed before.
LEMMA NoSilentOvertaking ==
    ASSUME IInv, NEW p \in Passes, NEW r \in Rows, Awaiting(p, r),
           NEW s \in Table(r), 0 < queue[s], queue[s] < pass[p].todo[r]
    PROVE  s \in tried
<1>1. s \in Rows /\ pass[p].todo[r] # 0
  BY TableIsRows DEF Awaiting, At, Present
<1>2. /\ pass[p].todo[s] \in Nat /\ pass[p].todo[r] \in Nat /\ queue[s] \in Nat
  BY <1>1 DEF IInv, TypeOK, Stamps
<1>3. CASE pass[p].todo[s] = 0
  BY <1>1, <1>3 DEF IInv, PassSound, LeftOutTried
<1>4. CASE pass[p].todo[s] # 0
  <2>1. pass[p].todo[r] <= pass[p].todo[s]
    BY <1>1, <1>4 DEF Awaiting, At, Present
  <2>2. pass[p].todo[s] <= queue[s]
    BY <1>1, <1>2, <1>4 DEF IInv, PassSound, TodoOlder
  <2> QED BY <1>2, <2>1, <2>2
<1> QED BY <1>3, <1>4

\* Rows of one table are sent in creation order, but for those that failed.
THEOREM OvertakingIsEarned == Spec => OnlyFailedRowsAreOvertaken
<1> DEFINE Earned ==
      \A p \in Passes, r \in Rows : Decide(p, r) \/ LoseTouch(p, r) =>
         \A s \in Table(r) :
            0 < queue[s] /\ queue[s] < pass[p].todo[r] => s \in tried
<1>1. IInv => Earned
  BY NoSilentOvertaking DEF Decide, LoseTouch
<1>2. IInv /\ [Next]_vars => [Earned]_vars
  BY <1>1
<1>3. Spec => [][Earned]_vars
  BY <1>2, AlwaysInv, PTL DEF Spec
<1> QED BY <1>3 DEF OnlyFailedRowsAreOvertaken
=============================================================================
