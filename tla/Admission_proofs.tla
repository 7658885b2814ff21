--------------------------- MODULE Admission_proofs ---------------------------
(* Proofs about Admission: for any requests, roadmaps, tasks, machines and   *)
(* slots.                                                                    *)
EXTENDS Admission, FiniteSetTheorems, TLAPS

LEMMA PairParts ==
    ASSUME NEW kind, NEW ids, NEW k \in {kind} \X ids
    PROVE  k = <<k[1], k[2]>> /\ k[1] = kind /\ k[2] \in ids
<1>1. k = <<k[1], k[2]>> /\ k[1] = kind
  OBVIOUS
<1>2. k[2] \in ids
  OBVIOUS
<1> QED BY <1>1, <1>2

USE RequestsAssumption, IdsAssumption, LinkedAssumption, CallerAssumption, BoundsAssumption

-----------------------------------------------------------------------------
(* The order of the locks *)

LEMMA KeyParts ==
    ASSUME NEW k \in Keys
    PROVE  /\ k = <<k[1], k[2]>> /\ k[2] \in Nat
           /\ k[1] \in {"admission", "task-launch", "machine-slots"}
           /\ Rank(k) = IF k[1] = "admission" THEN 0 ELSE IF k[1] = "task-launch" THEN 1 ELSE 2
<1>1. k = <<k[1], k[2]>> /\ k[2] \in Nat /\ k[1] \in {"admission", "task-launch", "machine-slots"}
  <2>1. \/ k \in {"admission"} \X Roadmaps \/ k \in {"task-launch"} \X Tasks
        \/ k \in {"machine-slots"} \X Machines
    BY Zenon DEF Keys
  <2>2. /\ k = <<k[1], k[2]>> /\ k[2] \in Roadmaps \cup Tasks \cup Machines
        /\ k[1] \in {"admission", "task-launch", "machine-slots"}
    <3>1. CASE k \in {"admission"} \X Roadmaps
      BY <3>1, PairParts
    <3>2. CASE k \in {"task-launch"} \X Tasks
      BY <3>2, PairParts
    <3>3. CASE k \in {"machine-slots"} \X Machines
      BY <3>3, PairParts
    <3> QED BY <2>1, <3>1, <3>2, <3>3
  <2> QED BY <2>2
<1>2. CASE k[1] = "admission"
  BY <1>1, <1>2 DEF Rank
<1>3. CASE k[1] = "task-launch"
  BY <1>1, <1>3 DEF Rank
<1>4. CASE k[1] = "machine-slots"
  BY <1>1, <1>4 DEF Rank
<1> QED BY <1>1, <1>2, <1>3, <1>4

LEMMA BeforeOrders ==
    ASSUME NEW i \in Keys, NEW j \in Keys, NEW k \in Keys
    PROVE  /\ Before(i, j) /\ Before(j, k) => Before(i, k)
           /\ Before(i, j) /\ Before(j, i) => i = j
<1>1. /\ i = <<i[1], i[2]>> /\ j = <<j[1], j[2]>>
      /\ i[2] \in Nat /\ j[2] \in Nat /\ k[2] \in Nat
      /\ Rank(i) \in Nat /\ Rank(j) \in Nat /\ Rank(k) \in Nat
      /\ Rank(i) = Rank(j) => i[1] = j[1]
  BY KeyParts
<1> QED BY <1>1 DEF Before

LEMMA KeysAreKeys ==
    ASSUME NEW r \in Requests, request[r] \in Request,
           r \in Batches => request[r].roadmap \in Roadmaps
    PROVE  KeysOf(r) \subseteq Keys
<1>1. request[r].items \in SUBSET (Tasks \X Machines)
  BY DEF Request, Items
<1>2. TasksOf(r) \subseteq Tasks /\ MachinesOf(r) \subseteq Machines
  BY <1>1 DEF TasksOf, MachinesOf
<1> QED BY <1>2 DEF KeysOf, Keys

-----------------------------------------------------------------------------
(* The invariant *)

\* A request takes its locks in their order, decides with all of them, and gives
\* them back at once.
OrderSound(r) ==
    Open(r) => \A j \in Held(r), k \in KeysOf(r) \ Held(r) : Before(j, k) /\ j # k

HoldsAll(r) == request[r].stage \in {"read", "staged"} => KeysOf(r) \subseteq Held(r)

RoadmapKnown(b) ==
    request[b].stage \in {"confirmed", "locking", "read", "staged"} =>
        request[b].roadmap \in Roadmaps

\* What a batch has found of its tasks stays so while it holds their locks.
TasksIdle(b) ==
    /\ request[b].stage = "read" =>
         TasksOf(b) \cap Busy \cap Linked[request[b].roadmap] \subseteq request[b].busy
    /\ request[b].stage = "staged" => TasksOf(b) \cap Busy = {}

ItemsOn(r, m) == {item \in request[r].items : item[2] = m}

\* So does the room that it has found on its machines.
RoomFor(b, m) == Cardinality(Load(m)) + Cardinality(ItemsOn(b, m)) <= MaxLaunches

SlotsFree(b) ==
    request[b].stage = "staged" /\ b \notin stale => \A m \in MachinesOf(b) : RoomFor(b, m)

LockInv ==
    /\ \A r \in Requests : OrderSound(r) /\ HoldsAll(r)
    /\ \A b \in Batches : RoadmapKnown(b)

PlanInv ==
    /\ \A b \in Batches : TasksIdle(b) /\ SlotsFree(b)
    /\ \A l \in Launches : Blind(l) => l \in missed

IInv == TypeOK /\ LockInv /\ PlanInv

LEMMA LaunchesFinite == IsFiniteSet(Launches)
BY FS_Product DEF Launches

LEMMA LaunchParts ==
    ASSUME NEW l \in Launches
    PROVE  \E r \in Requests, t \in Tasks : l = <<r, t>>
<1>1. l = <<l[1], l[2]>> /\ l[1] \in Requests /\ l[2] \in Tasks
  BY DEF Launches
<1> QED BY <1>1

LEMMA ItemsType ==
    ASSUME TypeOK, NEW r \in Requests
    PROVE  /\ request[r] \in Request
           /\ request[r].items \subseteq Tasks \X Machines
           /\ TasksOf(r) \subseteq Tasks /\ MachinesOf(r) \subseteq Machines
<1>1. request[r] \in Request
  BY DEF TypeOK
<1>2. request[r].items \subseteq Tasks \X Machines
  BY <1>1 DEF Request, Items
<1> QED BY <1>1, <1>2 DEF TasksOf, MachinesOf

\* Who holds a lock is an open request, and nobody else does.
LEMMA OneHolder ==
    ASSUME TypeOK, NEW k \in Keys, owner[k] # "nobody"
    PROVE  owner[k] \in Requests /\ Open(owner[k]) /\ k \in KeysOf(owner[k]) /\ k \in Held(owner[k])
BY DEF TypeOK, Held

LEMMA InitInv == Init => IInv
<1> SUFFICES ASSUME Init PROVE IInv
  OBVIOUS
<1>1. NoRequest \in Request /\ NoRequest.stage = "idle"
  BY DEF NoRequest, Request, Stages, Items
<1>2. \A r \in Requests : request[r] = NoRequest /\ ~Open(r) /\ Held(r) = {}
  BY <1>1 DEF Init, Open, Held
<1>3. TypeOK
  <2>1. roadmap \in [Roadmaps -> Roadmap] /\ beats \in [Machines -> 0..MaxBeats]
    BY DEF Init, Roadmap
  <2>2. request \in [Requests -> Request] /\ owner \in [Keys -> Requests \cup {"nobody"}]
    BY <1>1 DEF Init
  <2>3. launch \in [Launches -> Launch]
    BY DEF Init, NoLaunch, Launch
  <2> QED BY <1>2, <2>1, <2>2, <2>3 DEF Init, TypeOK
<1>4. LockInv
  BY <1>1, <1>2 DEF LockInv, OrderSound, HoldsAll, RoadmapKnown, Requests
<1>5. PlanInv
  <2>1. \A b \in Batches : TasksIdle(b) /\ SlotsFree(b)
    BY <1>1, <1>2 DEF TasksIdle, SlotsFree, Requests
  <2>2. \A l \in Launches : ~Blind(l)
    BY DEF Init, Blind, Started, NoLaunch
  <2> QED BY <2>1, <2>2 DEF PlanInv
<1> QED BY <1>3, <1>4, <1>5 DEF IInv

-----------------------------------------------------------------------------
(* What leaves a request's facts alone *)

SameRequest(r) ==
    /\ request'[r].stage = request[r].stage /\ request'[r].items = request[r].items
    /\ request'[r].roadmap = request[r].roadmap /\ request'[r].busy = request[r].busy
    /\ request'[r].row = request[r].row

LEMMA LocksKept ==
    ASSUME LockInv, NEW r \in Requests, SameRequest(r), Held(r)' = Held(r)
    PROVE  /\ OrderSound(r)' /\ HoldsAll(r)' /\ (r \in Batches => RoadmapKnown(r)')
           /\ (Open(r)' <=> Open(r)) /\ KeysOf(r)' = KeysOf(r)
<1>1. /\ TasksOf(r)' = TasksOf(r) /\ MachinesOf(r)' = MachinesOf(r)
      /\ (Open(r)' <=> Open(r)) /\ KeysOf(r)' = KeysOf(r)
  BY DEF SameRequest, TasksOf, MachinesOf, Open, KeysOf
<1> QED BY <1>1 DEF LockInv, OrderSound, HoldsAll, RoadmapKnown, SameRequest

LEMMA ItemsOnFinite ==
    ASSUME TypeOK, NEW r \in Requests, NEW m
    PROVE  IsFiniteSet(ItemsOn(r, m)) /\ Cardinality(ItemsOn(r, m)) \in Nat
<1>1. ItemsOn(r, m) \subseteq Tasks \X {m}
  BY ItemsType DEF ItemsOn
<1>2. IsFiniteSet(Tasks \X {m})
  BY FS_Singleton, FS_Product
<1> QED BY <1>1, <1>2, FS_Subset, FS_CardinalityType

LEMMA FewerLoaded ==
    ASSUME TypeOK, NEW b \in Requests, NEW m, RoomFor(b, m),
           Load(m)' \subseteq Load(m), ItemsOn(b, m)' = ItemsOn(b, m)
    PROVE  RoomFor(b, m)'
<1>1. IsFiniteSet(Load(m)) /\ Load(m)' \subseteq Load(m)
  BY LaunchesFinite, FS_Subset DEF Load, On
<1>2. Cardinality(Load(m)') <= Cardinality(Load(m))
      /\ Cardinality(Load(m)') \in Nat /\ Cardinality(Load(m)) \in Nat
  BY <1>1, FS_Subset, FS_CardinalityType
<1>3. Cardinality(ItemsOn(b, m)) \in Nat
  BY ItemsOnFinite
<1> QED BY <1>2, <1>3 DEF RoomFor

LEMMA PlansKept ==
    ASSUME TypeOK, PlanInv, NEW b \in Batches, SameRequest(b), stale \subseteq stale',
           TasksOf(b) \cap Busy' \subseteq Busy,
           \A m \in MachinesOf(b) : Load(m)' \subseteq Load(m)
    PROVE  TasksIdle(b)' /\ SlotsFree(b)'
<1>1. TasksOf(b)' = TasksOf(b) /\ MachinesOf(b)' = MachinesOf(b)
      /\ \A m : ItemsOn(b, m)' = ItemsOn(b, m)
  BY DEF SameRequest, TasksOf, MachinesOf, ItemsOn
<1>2. TasksIdle(b)'
  BY <1>1 DEF PlanInv, TasksIdle, SameRequest
<1>3. SlotsFree(b)'
  <2> SUFFICES ASSUME request[b].stage = "staged", b \notin stale, NEW m \in MachinesOf(b)
               PROVE  RoomFor(b, m)'
    BY <1>1 DEF SlotsFree, SameRequest
  <2>1. RoomFor(b, m)
    BY DEF PlanInv, SlotsFree
  <2> QED BY <1>1, <2>1, FewerLoaded DEF Requests
<1> QED BY <1>2, <1>3

LEMMA SameLaunches ==
    ASSUME UNCHANGED <<launch, missed>>
    PROVE  /\ Busy' = Busy /\ \A m : Load(m)' = Load(m) /\ Unreported(m)' = Unreported(m)
           /\ UNCHANGED report => \A l \in Launches : Blind(l)' <=> Blind(l)
BY DEF Busy, Active, Load, On, Requested, Started, Unreported, Blind

\* A step of one request that moves neither its locks nor any launch.
LEMMA OneRequest ==
    ASSUME IInv, NEW r \in Requests, NEW x \in Request,
           request' = [request EXCEPT ![r] = x],
           UNCHANGED <<roadmap, owner, launch, report, machineVars, missed>>,
           stale \subseteq stale', stale' \subseteq Batches,
           x.stage \in {"locking", "read", "staged"} /\ r \in Batches => x.row \in Roadmap,
           Held(r) \subseteq KeysOf(r)',
           Held(r) # {} => x.stage \in {"locking", "read", "staged"},
           OrderSound(r)', HoldsAll(r)',
           r \in Batches => RoadmapKnown(r)' /\ TasksIdle(r)' /\ SlotsFree(r)'
    PROVE  IInv'
<1> USE DEF IInv
<1>1. request \in [Requests -> Request] /\ request'[r] = x
      /\ \A s \in Requests \ {r} : request'[s] = request[s] /\ SameRequest(s)
  BY DEF TypeOK, SameRequest
<1>2. \A s \in Requests : Held(s)' = Held(s)
  BY DEF Held
<1>3. \A s \in Requests \ {r} : /\ OrderSound(s)' /\ HoldsAll(s)' /\ (s \in Batches => RoadmapKnown(s)')
                                /\ (Open(s)' <=> Open(s)) /\ KeysOf(s)' = KeysOf(s)
  BY <1>1, <1>2, LocksKept
<1>4. Open(r)' <=> x.stage \in {"locking", "read", "staged"}
  BY <1>1 DEF Open
<1>5. TypeOK'
  <2>1. request' \in [Requests -> Request]
    BY <1>1
  <2>2. \A s \in Requests : /\ Open(s)' /\ s \in Batches => request'[s].row \in Roadmap
                            /\ Held(s)' \subseteq KeysOf(s)' /\ (Held(s)' # {} => Open(s)')
    BY <1>1, <1>2, <1>3, <1>4 DEF TypeOK
  <2> QED BY <2>1, <2>2 DEF TypeOK, machineVars
<1>6. LockInv'
  BY <1>3 DEF LockInv, Requests
<1>7. PlanInv'
  <2>1. \A b \in Batches \ {r} : TasksIdle(b)' /\ SlotsFree(b)'
    BY <1>1, SameLaunches, PlansKept DEF Requests
  <2>2. \A l \in Launches : Blind(l)' => l \in missed'
    BY SameLaunches DEF PlanInv
  <2> QED BY <2>1, <2>2 DEF PlanInv
<1> QED BY <1>5, <1>6, <1>7

-----------------------------------------------------------------------------
(* The steps of a request *)

LEMMA NobodyHolds ==
    ASSUME TypeOK, NEW r \in Requests, ~Open(r)
    PROVE  Held(r) = {}
BY DEF TypeOK

LEMMA RunningType == ASSUME TypeOK PROVE Running \in [Machines -> Nat]
<1> SUFFICES ASSUME NEW m \in Machines PROVE Cardinality(report[m]) \in Nat
  BY DEF Running
<1>1. report[m] \subseteq Launches
  BY DEF TypeOK
<1> QED BY <1>1, LaunchesFinite, FS_Subset, FS_CardinalityType

LEMMA ConfirmInv ==
    ASSUME IInv, NEW b \in Batches, NEW rm \in Roadmaps, Confirm(b, rm)
    PROVE  IInv'
<1> DEFINE plan == Plan(roadmap[rm], Busy \cap Linked[rm], Running)
           x == [request[b] EXCEPT !.stage = "confirmed", !.roadmap = rm, !.plan = plan]
<1>1. TypeOK /\ b \in Requests /\ request[b] \in Request /\ request \in [Requests -> Request]
      /\ request[b].stage = "idle"
  BY DEF IInv, TypeOK, Requests, Confirm
<1>2. plan \in Plans
  BY <1>1 DEF TypeOK, Plan, Plans, Eligible, Busy
<1>3. request' = [request EXCEPT ![b] = x]
  BY DEF Confirm
<1> HIDE DEF plan
<1>4. x \in Request /\ x.stage = "confirmed" /\ x.roadmap = rm
  BY <1>1, <1>2 DEF Request, Stages
<1>5. Held(b) = {}
  BY <1>1, NobodyHolds DEF Open
<1> HIDE DEF x
<1>6. request'[b] = x
  BY <1>1, <1>3
<1>7. /\ OrderSound(b)' /\ HoldsAll(b)' /\ RoadmapKnown(b)' /\ TasksIdle(b)' /\ SlotsFree(b)'
  BY <1>4, <1>6 DEF OrderSound, Open, HoldsAll, RoadmapKnown, TasksIdle, SlotsFree
<1>8. /\ UNCHANGED <<roadmap, owner, launch, report, machineVars, missed>>
      /\ stale \subseteq stale' /\ stale' \subseteq Batches
  BY <1>1 DEF Confirm, TypeOK
<1> QED BY <1>1, <1>3, <1>4, <1>5, <1>7, <1>8, OneRequest

LEMMA BeginBatchInv ==
    ASSUME IInv, NEW b \in Batches, NEW items \in Items, BeginBatch(b, items)
    PROVE  IInv'
<1> DEFINE row == roadmap[request[b].roadmap]
           own == IF Caller[b] = NoMachine THEN 0 ELSE Running[Caller[b]]
           x == [request[b] EXCEPT !.stage = "locking", !.items = items, !.row = row, !.own = own]
<1>1. TypeOK /\ b \in Requests /\ request[b] \in Request /\ request \in [Requests -> Request]
      /\ request[b].stage = "confirmed"
  BY DEF IInv, TypeOK, Requests, BeginBatch
<1>2. request[b].roadmap \in Roadmaps /\ row \in Roadmap /\ own \in Nat
  <2>1. request[b].roadmap \in Roadmaps
    BY <1>1 DEF IInv, LockInv, RoadmapKnown
  <2>2. Running \in [Machines -> Nat] /\ Caller[b] \in Machines \cup {NoMachine}
    BY <1>1, RunningType
  <2> QED BY <1>1, <2>1, <2>2 DEF TypeOK
<1>3. request' = [request EXCEPT ![b] = x]
  BY DEF BeginBatch
<1> HIDE DEF row, own
<1>4. x \in Request /\ x.stage = "locking" /\ x.roadmap = request[b].roadmap /\ x.row = row
  BY <1>1, <1>2 DEF Request, Stages
<1>5. Held(b) = {}
  BY <1>1, NobodyHolds DEF Open
<1> HIDE DEF x
<1>6. request'[b] = x /\ Held(b)' = {}
  BY <1>1, <1>3, <1>5 DEF BeginBatch, Held
<1>7. /\ OrderSound(b)' /\ HoldsAll(b)' /\ RoadmapKnown(b)' /\ TasksIdle(b)' /\ SlotsFree(b)'
  BY <1>2, <1>4, <1>6 DEF OrderSound, Open, HoldsAll, RoadmapKnown, TasksIdle, SlotsFree
<1>8. /\ UNCHANGED <<roadmap, owner, launch, report, machineVars, missed>>
      /\ stale \subseteq stale' /\ stale' \subseteq Batches
  BY <1>1 DEF BeginBatch, TypeOK
<1> QED BY <1>1, <1>2, <1>3, <1>4, <1>5, <1>7, <1>8, OneRequest

LEMMA BeginUnitInv ==
    ASSUME IInv, NEW u \in Units, NEW t \in Tasks, NEW m \in Machines, BeginUnit(u, t, m)
    PROVE  IInv'
<1> DEFINE x == [request[u] EXCEPT !.stage = "locking", !.items = {<<t, m>>}]
<1>1. TypeOK /\ u \in Requests /\ request[u] \in Request /\ request \in [Requests -> Request]
      /\ request[u].stage = "idle" /\ u \notin Batches
  BY DEF IInv, TypeOK, Requests, BeginUnit
<1>3. request' = [request EXCEPT ![u] = x]
  BY DEF BeginUnit
<1>4. x \in Request /\ x.stage = "locking"
  <2>1. {<<t, m>>} \in Items
    BY DEF Items
  <2> DEFINE items == {<<t, m>>}
  <2> HIDE DEF items
  <2>2. items \in Items
    BY <2>1 DEF items
  <2> QED BY <1>1, <2>2 DEF Request, Stages, items
<1>5. Held(u) = {}
  BY <1>1, NobodyHolds DEF Open
<1> HIDE DEF x
<1>6. request'[u] = x /\ Held(u)' = {}
  BY <1>1, <1>3, <1>5 DEF BeginUnit, Held
<1>7. OrderSound(u)' /\ HoldsAll(u)'
  BY <1>4, <1>6 DEF OrderSound, HoldsAll
<1>8. /\ UNCHANGED <<roadmap, owner, launch, report, machineVars, missed>>
      /\ stale \subseteq stale' /\ stale' \subseteq Batches
  BY <1>1 DEF BeginUnit, TypeOK
<1> QED BY <1>1, <1>3, <1>4, <1>5, <1>7, <1>8, OneRequest

LEMMA ReadPlanInv ==
    ASSUME IInv, NEW b \in Batches, ReadPlan(b)
    PROVE  IInv'
<1> DEFINE busy == Busy \cap Linked[request[b].roadmap]
           x == [request[b] EXCEPT !.stage = "read", !.busy = busy, !.rows = Rows(b)]
<1>1. TypeOK /\ b \in Requests /\ request[b] \in Request /\ request \in [Requests -> Request]
      /\ request[b].stage = "locking" /\ KeysOf(b) = Held(b)
  BY DEF IInv, TypeOK, Requests, ReadPlan
<1>2. request[b].roadmap \in Roadmaps /\ request[b].row \in Roadmap
  BY <1>1 DEF IInv, LockInv, RoadmapKnown, TypeOK, Open
<1>3. busy \subseteq Tasks /\ Rows(b) \in [Machines -> Nat]
  BY <1>1, RunningType DEF Busy, Rows, Request
<1>4. request' = [request EXCEPT ![b] = x]
  BY DEF ReadPlan
<1> HIDE DEF busy
<1>5. /\ x \in Request /\ x.stage = "read" /\ x.roadmap = request[b].roadmap
      /\ x.row = request[b].row /\ x.items = request[b].items /\ x.busy = busy
  <2>1. Rows(b) \in [Machines -> Nat] \cup {<<>>}
    BY <1>3
  <2> DEFINE rows == Rows(b)
  <2> HIDE DEF rows
  <2>2. rows \in [Machines -> Nat] \cup {<<>>}
    BY <2>1 DEF rows
  <2>3. x = [request[b] EXCEPT !.stage = "read", !.busy = busy, !.rows = rows]
    BY DEF rows
  <2> HIDE DEF x
  <2> QED BY <1>1, <1>3, <2>2, <2>3 DEF Request, Stages
<1> HIDE DEF x
<1>6. request'[b] = x /\ Held(b)' = Held(b) /\ Busy' = Busy
  BY <1>1, <1>4 DEF ReadPlan, Held, Busy, Active
<1>7. KeysOf(b)' = KeysOf(b) /\ TasksOf(b)' = TasksOf(b)
  BY <1>5, <1>6 DEF KeysOf, TasksOf, MachinesOf
<1>8. OrderSound(b)' /\ HoldsAll(b)' /\ RoadmapKnown(b)' /\ TasksIdle(b)' /\ SlotsFree(b)'
  BY <1>1, <1>2, <1>5, <1>6, <1>7
     DEF OrderSound, HoldsAll, RoadmapKnown, TasksIdle, SlotsFree, busy
<1>9. /\ UNCHANGED <<roadmap, owner, launch, report, machineVars, missed>>
      /\ stale \subseteq stale' /\ stale' \subseteq Batches
  BY <1>1 DEF ReadPlan, TypeOK
<1> QED BY <1>1, <1>2, <1>4, <1>5, <1>7, <1>8, <1>9, OneRequest

\* A machine's load is what its last report counts or has not seen, but for what
\* some report has missed.
LEMMA LoadIsCounted ==
    ASSUME TypeOK, PlanInv, NEW m \in Machines
    PROVE  /\ Cardinality(Load(m)) <= Running[m] + Cardinality(Unreported(m))
           /\ Cardinality(Load(m)) \in Nat /\ Running[m] \in Nat /\ Cardinality(Unreported(m)) \in Nat
<1>1. /\ IsFiniteSet(report[m]) /\ IsFiniteSet(Unreported(m)) /\ IsFiniteSet(Load(m))
      /\ Running[m] = Cardinality(report[m])
  <2>1. report[m] \subseteq Launches /\ Unreported(m) \subseteq Launches /\ Load(m) \subseteq Launches
    BY DEF TypeOK, Unreported, Load, On
  <2> QED BY <2>1, LaunchesFinite, FS_Subset DEF Running
<1>2. Load(m) \subseteq report[m] \cup Unreported(m)
  BY DEF PlanInv, Blind, Load, Unreported, On
<1>3. /\ IsFiniteSet(report[m] \cup Unreported(m))
      /\ Cardinality(report[m] \cup Unreported(m))
           = Cardinality(report[m]) + Cardinality(Unreported(m)) - Cardinality(report[m] \cap Unreported(m))
  BY <1>1, FS_Union
<1>4. Cardinality(Load(m)) <= Cardinality(report[m] \cup Unreported(m))
  BY <1>2, <1>3, FS_Subset
<1>5. /\ Cardinality(Load(m)) \in Nat /\ Cardinality(report[m]) \in Nat
      /\ Cardinality(Unreported(m)) \in Nat /\ Cardinality(report[m] \cap Unreported(m)) \in Nat
      /\ Cardinality(report[m] \cup Unreported(m)) \in Nat
  BY <1>1, <1>3, FS_Intersection, FS_CardinalityType
<1> QED BY <1>1, <1>3, <1>4, <1>5

LEMMA StageBatchInv ==
    ASSUME IInv, NEW b \in Batches, StageBatch(b)
    PROVE  IInv'
<1> DEFINE x == [request[b] EXCEPT !.stage = "staged"]
<1>1. TypeOK /\ PlanInv /\ b \in Requests /\ request[b] \in Request /\ request \in [Requests -> Request]
      /\ request[b].stage = "read" /\ Fits(b)
  BY DEF IInv, TypeOK, Requests, StageBatch
<1>2. request[b].roadmap \in Roadmaps /\ request[b].row \in Roadmap /\ KeysOf(b) = Held(b)
  BY <1>1 DEF IInv, LockInv, RoadmapKnown, HoldsAll, TypeOK, Open
<1>3. request' = [request EXCEPT ![b] = x]
  BY DEF StageBatch
<1>4. /\ x \in Request /\ x.stage = "staged" /\ x.roadmap = request[b].roadmap
      /\ x.row = request[b].row /\ x.items = request[b].items
  BY <1>1 DEF Request, Stages
<1> HIDE DEF x
<1>5. request'[b] = x /\ Held(b)' = Held(b) /\ Busy' = Busy /\ \A m : Load(m)' = Load(m)
  BY <1>1, <1>3, SameLaunches DEF StageBatch, Held
<1>6. /\ KeysOf(b)' = KeysOf(b) /\ TasksOf(b)' = TasksOf(b) /\ MachinesOf(b)' = MachinesOf(b)
      /\ \A m : ItemsOn(b, m)' = ItemsOn(b, m)
  BY <1>4, <1>5 DEF KeysOf, TasksOf, MachinesOf, ItemsOn
<1>7. TasksOf(b) \cap Busy = {}
  <2>1. TasksOf(b) \subseteq Linked[request[b].roadmap] \ request[b].busy
    BY <1>1 DEF Fits, Launchable, FreshPlan, Plan
  <2> QED BY <1>1, <2>1 DEF PlanInv, TasksIdle
<1>8. ASSUME b \notin stale', NEW m \in MachinesOf(b)
      PROVE  RoomFor(b, m)'
  <2>1. m \in Machines /\ request[b].rows[m] = Running[m]
    BY <1>1, <1>8, ItemsType DEF StageBatch
  <2>2. Cardinality(ItemsOn(b, m)) <= MaxLaunches - Running[m] - Cardinality(Unreported(m))
    BY <1>1, <2>1 DEF Fits, Free, ItemsOn
  <2>3. RoomFor(b, m)
    BY <1>1, <2>1, <2>2, LoadIsCounted, ItemsOnFinite DEF RoomFor
  <2> QED BY <1>5, <1>6, <2>3 DEF RoomFor
<1>9. OrderSound(b)' /\ HoldsAll(b)' /\ RoadmapKnown(b)' /\ TasksIdle(b)' /\ SlotsFree(b)'
  <2>1. OrderSound(b)' /\ HoldsAll(b)' /\ RoadmapKnown(b)'
    BY <1>2, <1>4, <1>5, <1>6 DEF OrderSound, HoldsAll, RoadmapKnown
  <2>2. TasksIdle(b)'
    BY <1>4, <1>5, <1>6, <1>7 DEF TasksIdle
  <2>3. SlotsFree(b)'
    BY <1>6, <1>8 DEF SlotsFree
  <2> QED BY <2>1, <2>2, <2>3
<1>10. /\ UNCHANGED <<roadmap, owner, launch, report, machineVars, missed>>
       /\ stale \subseteq stale' /\ stale' \subseteq Batches
  BY <1>1 DEF StageBatch, TypeOK
<1> QED BY <1>1, <1>2, <1>3, <1>4, <1>6, <1>9, <1>10, OneRequest

LEMMA StageUnitInv ==
    ASSUME IInv, NEW u \in Units, StageUnit(u)
    PROVE  IInv'
<1> DEFINE x == [request[u] EXCEPT !.stage = "staged"]
<1>1. TypeOK /\ u \in Requests /\ request[u] \in Request /\ request \in [Requests -> Request]
      /\ u \notin Batches /\ KeysOf(u) = Held(u)
  BY DEF IInv, TypeOK, Requests, StageUnit
<1>2. request' = [request EXCEPT ![u] = x]
  BY DEF StageUnit
<1>3. x \in Request /\ x.stage = "staged" /\ x.items = request[u].items
  BY <1>1 DEF Request, Stages
<1> HIDE DEF x
<1>4. request'[u] = x /\ Held(u)' = Held(u)
  BY <1>1, <1>2 DEF StageUnit, Held
<1>5. KeysOf(u)' = KeysOf(u)
  BY <1>1, <1>3, <1>4 DEF KeysOf, TasksOf, MachinesOf
<1>6. OrderSound(u)' /\ HoldsAll(u)'
  BY <1>1, <1>4, <1>5 DEF OrderSound, HoldsAll
<1>7. /\ UNCHANGED <<roadmap, owner, launch, report, machineVars, missed>>
      /\ stale \subseteq stale' /\ stale' \subseteq Batches
  BY <1>1 DEF StageUnit, TypeOK
<1> QED BY <1>1, <1>2, <1>3, <1>5, <1>6, <1>7, OneRequest

LEMMA AcquireInv ==
    ASSUME IInv, NEW r \in Requests, NEW k \in Keys, Acquire(r, k)
    PROVE  IInv'
<1> USE DEF IInv
<1>1. /\ owner' = [owner EXCEPT ![k] = r] /\ owner \in [Keys -> Requests \cup {"nobody"}]
      /\ owner[k] = "nobody" /\ k \in KeysOf(r) \ Held(r)
      /\ \A j \in KeysOf(r) \ Held(r) : Before(k, j)
      /\ request[r].stage = "locking"
      /\ UNCHANGED <<roadmap, request, launch, report, machineVars, missed, stale>>
  BY DEF Acquire, NextKey, TypeOK
<1>2. /\ Held(r)' = Held(r) \cup {k}
      /\ \A s \in Requests \ {r} : Held(s)' = Held(s)
  BY <1>1 DEF Held
<1>3. \A s \in Requests : SameRequest(s) /\ KeysOf(s)' = KeysOf(s) /\ (Open(s)' <=> Open(s))
  BY <1>1 DEF SameRequest, KeysOf, TasksOf, MachinesOf, Open
<1>4. TypeOK'
  <2>1. \A s \in Requests : Held(s)' \subseteq KeysOf(s)' /\ (Held(s)' # {} => Open(s)')
    BY <1>1, <1>2, <1>3 DEF TypeOK, Open
  <2>2. owner' \in [Keys -> Requests \cup {"nobody"}]
    BY <1>1
  <2> QED BY <1>1, <1>3, <2>1, <2>2 DEF TypeOK, machineVars
<1>5. OrderSound(r)' /\ HoldsAll(r)' /\ (r \in Batches => RoadmapKnown(r)')
  <2>1. \A j \in Held(r)', i \in KeysOf(r) \ Held(r)' : Before(j, i) /\ j # i
    BY <1>1, <1>2 DEF LockInv, OrderSound, Open
  <2> QED BY <1>1, <1>3, <2>1 DEF OrderSound, HoldsAll, RoadmapKnown, LockInv
<1>6. LockInv'
  BY <1>2, <1>3, <1>5, LocksKept DEF LockInv, Requests
<1>7. PlanInv'
  <2>1. \A b \in Batches : TasksIdle(b)' /\ SlotsFree(b)'
    BY <1>1, <1>3, SameLaunches, PlansKept DEF Requests
  <2>2. \A l \in Launches : Blind(l)' => l \in missed'
    BY <1>1, SameLaunches DEF PlanInv
  <2> QED BY <2>1, <2>2 DEF PlanInv
<1> QED BY <1>4, <1>6, <1>7

\* What ends a request gives back its locks and leaves the others' alone.
LEMMA EndingInv ==
    ASSUME TypeOK, LockInv, NEW r \in Requests, NEW stage \in {"refused", "committed"},
           request' = [request EXCEPT ![r] = [NoRequest EXCEPT !.stage = stage]],
           owner' = Released(r), UNCHANGED roadmap
    PROVE  /\ request' \in [Requests -> Request] /\ request'[r].stage = stage
           /\ owner' \in [Keys -> Requests \cup {"nobody"}]
           /\ \A s \in Requests : /\ Open(s)' /\ s \in Batches => request'[s].row \in Roadmap
                                  /\ Held(s)' \subseteq KeysOf(s)' /\ (Held(s)' # {} => Open(s)')
           /\ \A s \in Requests \ {r} : SameRequest(s)
           /\ LockInv'
<1> DEFINE x == [NoRequest EXCEPT !.stage = stage]
<1>1. x \in Request /\ x.stage = stage
  BY DEF NoRequest, Request, Stages, Items
<1>2. request \in [Requests -> Request] /\ owner \in [Keys -> Requests \cup {"nobody"}]
  BY DEF TypeOK
<1> HIDE DEF x
<1>3. /\ request' \in [Requests -> Request] /\ request'[r] = x
      /\ \A s \in Requests \ {r} : request'[s] = request[s] /\ SameRequest(s)
  <2>1. request' = [request EXCEPT ![r] = x]
    BY DEF x
  <2> QED BY <1>1, <1>2, <2>1 DEF SameRequest
<1>4. /\ owner' \in [Keys -> Requests \cup {"nobody"}]
      /\ Held(r)' = {} /\ \A s \in Requests \ {r} : Held(s)' = Held(s)
  BY <1>2 DEF Released, Held
<1>5. \A s \in Requests \ {r} : /\ OrderSound(s)' /\ HoldsAll(s)' /\ (s \in Batches => RoadmapKnown(s)')
                                /\ (Open(s)' <=> Open(s)) /\ KeysOf(s)' = KeysOf(s)
  BY <1>3, <1>4, LocksKept
<1>6. ~Open(r)' /\ OrderSound(r)' /\ HoldsAll(r)' /\ RoadmapKnown(r)'
  BY <1>1, <1>3 DEF Open, OrderSound, HoldsAll, RoadmapKnown
<1>7. \A s \in Requests : /\ Open(s)' /\ s \in Batches => request'[s].row \in Roadmap
                          /\ Held(s)' \subseteq KeysOf(s)' /\ (Held(s)' # {} => Open(s)')
  BY <1>3, <1>4, <1>5, <1>6 DEF TypeOK
<1>8. LockInv'
  BY <1>5, <1>6 DEF LockInv, Requests
<1> QED BY <1>1, <1>3, <1>4, <1>7, <1>8

LEMMA RefuseInv ==
    ASSUME IInv, NEW r \in Requests, Refuse(r)
    PROVE  IInv'
<1>1. TypeOK /\ LockInv /\ PlanInv
      /\ UNCHANGED <<roadmap, launch, report, machineVars, missed, stale>>
  BY DEF IInv, Refuse
<1>2. /\ request' \in [Requests -> Request] /\ request'[r].stage = "refused"
      /\ owner' \in [Keys -> Requests \cup {"nobody"}]
      /\ \A s \in Requests : /\ Open(s)' /\ s \in Batches => request'[s].row \in Roadmap
                             /\ Held(s)' \subseteq KeysOf(s)' /\ (Held(s)' # {} => Open(s)')
      /\ \A s \in Requests \ {r} : SameRequest(s)
      /\ LockInv'
  BY <1>1, EndingInv DEF Refuse
<1>3. TypeOK'
  BY <1>1, <1>2 DEF TypeOK, machineVars
<1>4. PlanInv'
  <2>1. \A b \in Batches \ {r} : TasksIdle(b)' /\ SlotsFree(b)'
    BY <1>1, <1>2, SameLaunches, PlansKept DEF Requests
  <2>2. TasksIdle(r)' /\ SlotsFree(r)'
    BY <1>2 DEF TasksIdle, SlotsFree
  <2>3. \A l \in Launches : Blind(l)' => l \in missed'
    BY <1>1, SameLaunches DEF PlanInv
  <2> QED BY <2>1, <2>2, <2>3 DEF PlanInv
<1> QED BY <1>2, <1>3, <1>4 DEF IInv

-----------------------------------------------------------------------------
(* The launches of a request *)

\* Two requests that have all their locks are about different tasks and machines.
LEMMA LocksExclude ==
    ASSUME TypeOK, LockInv, NEW r \in Requests, NEW s \in Requests, r # s,
           request[r].stage \in {"read", "staged"}, request[s].stage \in {"read", "staged"}
    PROVE  TasksOf(r) \cap TasksOf(s) = {} /\ MachinesOf(r) \cap MachinesOf(s) = {}
<1>1. KeysOf(r) \subseteq Held(r) /\ KeysOf(s) \subseteq Held(s)
  BY DEF LockInv, HoldsAll
<1>2. KeysOf(r) \cap KeysOf(s) = {}
  BY <1>1 DEF Held
<1>3. \A t \in TasksOf(r) \cap TasksOf(s) : <<"task-launch", t>> \in KeysOf(r) \cap KeysOf(s)
  BY DEF KeysOf
<1>4. \A m \in MachinesOf(r) \cap MachinesOf(s) : <<"machine-slots", m>> \in KeysOf(r) \cap KeysOf(s)
  BY DEF KeysOf
<1> QED BY <1>2, <1>3, <1>4

LEMMA MadeType ==
    ASSUME TypeOK, NEW r \in Requests
    PROVE  /\ Made(r) \in [Launches -> Launch]
           /\ \A t \in Tasks \ TasksOf(r) : Made(r)[<<r, t>>] = launch[<<r, t>>]
           /\ \A s \in Requests \ {r}, t \in Tasks : Made(r)[<<s, t>>] = launch[<<s, t>>]
           /\ \A t \in TasksOf(r) :
                /\ Made(r)[<<r, t>>].status = "requested"
                /\ <<t, Made(r)[<<r, t>>].machine>> \in ItemsOn(r, Made(r)[<<r, t>>].machine)
                /\ Made(r)[<<r, t>>].machine \in MachinesOf(r)
<1>1. launch \in [Launches -> Launch] /\ TasksOf(r) \subseteq Tasks /\ MachinesOf(r) \subseteq Machines
  BY ItemsType DEF TypeOK
<1> DEFINE machine(l) == CHOOSE n \in Machines : <<l[2], n>> \in request[r].items
           made(l) == [status |-> "requested", machine |-> machine(l),
                       unreported |-> machine(l) \notin request[r].since]
<1>2. ASSUME NEW l \in Launches, l[2] \in TasksOf(r)
      PROVE  /\ machine(l) \in Machines /\ <<l[2], machine(l)>> \in request[r].items
             /\ machine(l) \in MachinesOf(r)
  <2>1. \E n \in Machines : <<l[2], n>> \in request[r].items
    <3>1. PICK item \in request[r].items : item[1] = l[2]
      BY <1>2 DEF TasksOf
    <3>2. item = <<item[1], item[2]>> /\ item[2] \in Machines
      BY ItemsType
    <3> QED BY <3>1, <3>2
  <2>2. machine(l) \in Machines /\ <<l[2], machine(l)>> \in request[r].items
    BY <2>1
  <2> HIDE DEF machine
  <2> QED BY <2>2 DEF MachinesOf
<1>3. Made(r) = [l \in Launches |-> IF l[1] = r /\ l[2] \in TasksOf(r) THEN made(l) ELSE launch[l]]
  BY DEF Made
<1> HIDE DEF machine
<1>4. \A l \in Launches : l[2] \in TasksOf(r) => made(l) \in Launch
  BY <1>2 DEF Launch
<1>5. \A l \in Launches : made(l).status = "requested" /\ made(l).machine = machine(l)
  OBVIOUS
<1> HIDE DEF made
<1>6. Made(r) \in [Launches -> Launch]
  BY <1>1, <1>3, <1>4
<1>7. \A s \in Requests, t \in Tasks :
        <<s, t>> \in Launches /\ <<s, t>>[1] = s /\ <<s, t>>[2] = t
  BY DEF Launches
<1>8. \A t \in Tasks \ TasksOf(r) : Made(r)[<<r, t>>] = launch[<<r, t>>]
  BY <1>3, <1>7
<1>9. \A s \in Requests \ {r}, t \in Tasks : Made(r)[<<s, t>>] = launch[<<s, t>>]
  BY <1>3, <1>7
<1>10. ASSUME NEW t \in TasksOf(r)
       PROVE  /\ Made(r)[<<r, t>>].status = "requested"
              /\ <<t, Made(r)[<<r, t>>].machine>> \in ItemsOn(r, Made(r)[<<r, t>>].machine)
              /\ Made(r)[<<r, t>>].machine \in MachinesOf(r)
  <2> DEFINE l == <<r, t>>
  <2>1. l \in Launches /\ l[1] = r /\ l[2] = t
    BY <1>1, <1>7
  <2> HIDE DEF l
  <2>2. Made(r)[l] = made(l)
    BY <1>3, <2>1
  <2>3. <<t, machine(l)>> \in request[r].items /\ machine(l) \in MachinesOf(r)
    BY <1>2, <2>1
  <2>4. <<t, machine(l)>> \in ItemsOn(r, machine(l))
    BY <2>3 DEF ItemsOn
  <2> QED BY <1>5, <2>1, <2>2, <2>3, <2>4 DEF l
<1> QED BY <1>6, <1>8, <1>9, <1>10

\* What a commit adds to the busy tasks and to the machines' load.
LEMMA CommitAdds ==
    ASSUME TypeOK, NEW r \in Requests, launch' = Made(r), UNCHANGED missed
    PROVE  /\ Busy' \subseteq Busy \cup TasksOf(r)
           /\ \A m : m \notin MachinesOf(r) => Load(m)' \subseteq Load(m)
           /\ \A m : Load(m)' \subseteq Load(m) \cup {l \in Launches : l[1] = r /\ l[2] \in TasksOf(r)
                                                                       /\ launch'[l].machine = m}
<1>1. ASSUME NEW l \in Launches
      PROVE  \/ launch'[l] = launch[l]
             \/ l[1] = r /\ l[2] \in TasksOf(r) /\ launch'[l].machine \in MachinesOf(r)
  <2>1. PICK s \in Requests, t \in Tasks : l = <<s, t>>
    BY LaunchParts
  <2>2. CASE s = r /\ t \in TasksOf(r)
    BY <2>1, <2>2, MadeType
  <2>3. CASE ~(s = r /\ t \in TasksOf(r))
    BY <2>1, <2>3, MadeType
  <2> QED BY <2>2, <2>3
<1>2. Busy' \subseteq Busy \cup TasksOf(r)
  <2> SUFFICES ASSUME NEW t \in Tasks \ TasksOf(r), NEW s \in Requests, Active(<<s, t>>)'
               PROVE  Active(<<s, t>>)
    BY DEF Busy
  <2>1. launch'[<<s, t>>] = launch[<<s, t>>]
    BY MadeType
  <2> QED BY <2>1 DEF Active
<1>3. ASSUME NEW m, NEW l \in Load(m)'
      PROVE  \/ l \in Load(m)
             \/ /\ l \in Launches /\ l[1] = r /\ l[2] \in TasksOf(r)
                /\ launch'[l].machine = m /\ m \in MachinesOf(r)
  <2>1. l \in Launches /\ launch'[l].machine = m
    BY <1>3 DEF Load, On
  <2>2. CASE launch'[l] = launch[l]
    BY <1>3, <2>2 DEF Load, On, Requested, Started
  <2> QED BY <1>1, <2>1, <2>2
<1> QED BY <1>2, <1>3

LEMMA CommitInv ==
    ASSUME IInv, NEW r \in Requests, Commit(r)
    PROVE  IInv'
<1>1. TypeOK /\ LockInv /\ PlanInv /\ request[r].stage = "staged" /\ launch' = Made(r)
      /\ UNCHANGED <<roadmap, report, machineVars, missed, stale>>
  BY DEF IInv, Commit
<1>2. /\ request' \in [Requests -> Request] /\ request'[r].stage = "committed"
      /\ owner' \in [Keys -> Requests \cup {"nobody"}]
      /\ \A s \in Requests : /\ Open(s)' /\ s \in Batches => request'[s].row \in Roadmap
                             /\ Held(s)' \subseteq KeysOf(s)' /\ (Held(s)' # {} => Open(s)')
      /\ \A s \in Requests \ {r} : SameRequest(s)
      /\ LockInv'
  BY <1>1, EndingInv DEF Commit
<1>3. TypeOK'
  BY <1>1, <1>2, MadeType DEF TypeOK, machineVars
<1>4. ASSUME NEW b \in Batches \ {r} PROVE TasksIdle(b)' /\ SlotsFree(b)'
  <2>1. b \in Requests /\ SameRequest(b)
    BY <1>2 DEF Requests
  <2>2. CASE request[b].stage \in {"read", "staged"}
    <3>1. TasksOf(b) \cap TasksOf(r) = {} /\ MachinesOf(b) \cap MachinesOf(r) = {}
      BY <1>1, <2>1, <2>2, LocksExclude
    <3>2. TasksOf(b) \cap Busy' \subseteq Busy /\ \A m \in MachinesOf(b) : Load(m)' \subseteq Load(m)
      BY <1>1, <3>1, CommitAdds
    <3> QED BY <1>1, <2>1, <3>2, PlansKept
  <2>3. CASE request[b].stage \notin {"read", "staged"}
    BY <2>1, <2>3 DEF SameRequest, TasksIdle, SlotsFree
  <2> QED BY <2>2, <2>3
<1>5. r \in Batches => TasksIdle(r)' /\ SlotsFree(r)'
  BY <1>2 DEF TasksIdle, SlotsFree
<1>6. ASSUME NEW l \in Launches, Blind(l)' PROVE l \in missed'
  <2>1. PICK s \in Requests, t \in Tasks : l = <<s, t>>
    BY LaunchParts
  <2>2. launch'[l].status = "started"
    BY <1>6 DEF Blind, Started
  <2>3. launch'[l] = launch[l]
    <3>1. ~(s = r /\ t \in TasksOf(r))
      BY <1>1, <2>1, <2>2, MadeType
    <3> QED BY <1>1, <2>1, <3>1, MadeType
  <2>4. Blind(l)
    BY <1>1, <1>6, <2>3 DEF Blind, Started
  <2> QED BY <1>1, <2>4 DEF PlanInv
<1> QED BY <1>2, <1>3, <1>4, <1>5, <1>6 DEF IInv, PlanInv

-----------------------------------------------------------------------------
(* The machines *)

\* A step after which no other task is busy and no machine has more to carry.
LEMMA LaunchesEase ==
    ASSUME IInv, TypeOK', UNCHANGED <<owner, stale>>,
           \A r \in Requests : SameRequest(r),
           Busy' \subseteq Busy, \A m : Load(m)' \subseteq Load(m),
           \A l \in Launches : Blind(l)' => l \in missed'
    PROVE  IInv'
<1>1. \A r \in Requests : Held(r)' = Held(r)
  BY DEF Held
<1>2. LockInv'
  BY <1>1, LocksKept DEF IInv, LockInv, Requests
<1>3. PlanInv'
  BY PlansKept DEF IInv, PlanInv, Requests
<1> QED BY <1>2, <1>3 DEF IInv

LEMMA LaunchInv ==
    ASSUME IInv, NEW l \in Launches,
           \/ \E m \in Machines : Accepted(m, l)
           \/ End(l) \/ BecomeOverdue(l)
    PROVE  IInv'
<1>1. TypeOK /\ PlanInv /\ launch \in [Launches -> Launch]
  BY DEF IInv, TypeOK
<1>2. PICK status \in {"overdue", "started", "over"} :
        /\ launch' = [launch EXCEPT ![l].status = status] /\ Active(l)
        /\ status = "started" => Requested(l)
        /\ missed \subseteq missed' /\ missed' \subseteq Launches
        /\ \A k \in Launches : Blind(k)' => k \in missed'
        /\ UNCHANGED <<serverVars, report, machineVars>>
  <2>1. CASE \E m \in Machines : Accepted(m, l)
    BY <1>1, <2>1 DEF Accepted, TypeOK, Requested, Active
  <2>2. ASSUME NEW status \in {"overdue", "over"}, launch' = [launch EXCEPT ![l].status = status],
               UNCHANGED <<report, missed>>, NEW k \in Launches, Blind(k)'
        PROVE  k \in missed'
    <3>1. k # l
      BY <1>1, <2>2 DEF Blind, Started
    <3>2. Blind(k)
      BY <1>1, <2>2, <3>1 DEF Blind, Started
    <3> QED BY <1>1, <2>2, <3>2 DEF PlanInv
  <2>3. CASE End(l)
    BY <1>1, <2>2, <2>3 DEF End, TypeOK
  <2>4. CASE BecomeOverdue(l)
    BY <1>1, <2>2, <2>4 DEF BecomeOverdue, TypeOK, Requested, Active
  <2> QED BY <2>1, <2>3, <2>4
<1>3. /\ launch' \in [Launches -> Launch]
      /\ \A k \in Launches : launch'[k].machine = launch[k].machine
      /\ \A k \in Launches : Active(k)' => Active(k)
      /\ \A k \in Launches : (Requested(k) \/ Started(k))' => Requested(k) \/ Started(k)
  <2>1. [launch[l] EXCEPT !.status = status] \in Launch
    BY <1>1 DEF Launch
  <2> DEFINE x == [launch[l] EXCEPT !.status = status]
  <2>2. x.machine = launch[l].machine /\ x.status = status
    BY <1>1 DEF Launch
  <2>3. launch' = [launch EXCEPT ![l] = x]
    BY <1>1, <1>2
  <2> HIDE DEF x
  <2>4. launch'[l] = x /\ \A k \in Launches \ {l} : launch'[k] = launch[k]
    BY <1>1, <2>3
  <2>5. launch' \in [Launches -> Launch]
    BY <1>1, <2>1, <2>3 DEF x
  <2> QED BY <1>2, <2>2, <2>4, <2>5 DEF Active, Requested, Started
<1>4. \A r \in Requests : /\ SameRequest(r) /\ Held(r)' = Held(r) /\ KeysOf(r)' = KeysOf(r)
                          /\ (Open(r)' <=> Open(r)) /\ request'[r] = request[r]
  BY <1>2 DEF serverVars, SameRequest, Held, KeysOf, TasksOf, MachinesOf, Open
<1>5. TypeOK'
  BY <1>1, <1>2, <1>3, <1>4 DEF TypeOK, serverVars, machineVars
<1>6. Busy' \subseteq Busy
  <2> SUFFICES ASSUME NEW t \in Tasks, NEW r \in Requests, Active(<<r, t>>)' PROVE Active(<<r, t>>)
    BY DEF Busy
  <2> QED BY <1>3 DEF Launches
<1>7. \A m : Load(m)' \subseteq Load(m)
  BY <1>2, <1>3 DEF Load, On
<1> QED BY <1>2, <1>4, <1>5, <1>6, <1>7, LaunchesEase DEF serverVars

LEMMA HeartbeatInv ==
    ASSUME IInv, NEW m \in Machines, NEW body \in sent[m], HeartbeatLands(m, body)
    PROVE  IInv'
<1>1. TypeOK /\ launch \in [Launches -> Launch] /\ body \subseteq Launches
      /\ request \in [Requests -> Request]
  BY DEF IInv, TypeOK
<1>2. /\ launch' \in [Launches -> Launch]
      /\ \A l \in Launches : launch'[l].machine = launch[l].machine /\ launch'[l].status = launch[l].status
  <2>1. ASSUME NEW l \in Launches
        PROVE  /\ launch'[l] \in Launch
               /\ launch'[l].machine = launch[l].machine /\ launch'[l].status = launch[l].status
    <3>1. launch[l] \in Launch
      BY <1>1
    <3>2. launch'[l] = IF l \in On(m) THEN [launch[l] EXCEPT !.unreported = FALSE] ELSE launch[l]
      BY DEF HeartbeatLands
    <3> QED BY <3>1, <3>2 DEF Launch
  <2>2. launch' = [l \in Launches |-> launch'[l]]
    BY DEF HeartbeatLands
  <2> QED BY <2>1, <2>2
<1>3. /\ request' \in [Requests -> Request]
      /\ \A r \in Requests : SameRequest(r)
  <2>1. ASSUME NEW r \in Requests
        PROVE  request'[r] \in Request /\ SameRequest(r)
    <3>1. request[r] \in Request
      BY <1>1
    <3>2. request'[r] = IF Open(r) THEN [request[r] EXCEPT !.since = @ \cup {m}] ELSE request[r]
      BY DEF HeartbeatLands
    <3> DEFINE x == [request[r] EXCEPT !.since = @ \cup {m}]
    <3>3. x \in Request
      BY <3>1 DEF Request
    <3>4. /\ x.stage = request[r].stage /\ x.items = request[r].items /\ x.row = request[r].row
          /\ x.roadmap = request[r].roadmap /\ x.busy = request[r].busy
      BY <3>1 DEF Request
    <3>5. request'[r] = x \/ request'[r] = request[r]
      BY <3>2
    <3> HIDE DEF x
    <3> QED BY <3>1, <3>3, <3>4, <3>5 DEF SameRequest
  <2>2. request' = [r \in Requests |-> request'[r]]
    BY DEF HeartbeatLands
  <2> QED BY <2>1, <2>2
<1>4. \A r \in Requests : /\ Held(r)' = Held(r) /\ KeysOf(r)' = KeysOf(r) /\ (Open(r)' <=> Open(r))
  BY <1>3 DEF HeartbeatLands, SameRequest, Held, KeysOf, TasksOf, MachinesOf, Open
<1>5. missed \subseteq missed' /\ missed' \subseteq Launches /\ \A l \in Launches : Blind(l)' => l \in missed'
  BY <1>1 DEF HeartbeatLands, TypeOK
<1>6. TypeOK'
  <2>1. /\ report' \in [Machines -> SUBSET Launches]
        /\ sent' \in [Machines -> SUBSET SUBSET Launches]
    BY <1>1 DEF HeartbeatLands, TypeOK
  <2>2. \A r \in Requests : /\ Open(r)' /\ r \in Batches => request'[r].row \in Roadmap
                            /\ Held(r)' \subseteq KeysOf(r)' /\ (Held(r)' # {} => Open(r)')
    BY <1>1, <1>3, <1>4 DEF TypeOK, SameRequest
  <2> QED BY <1>1, <1>2, <1>3, <1>5, <2>1, <2>2 DEF TypeOK, HeartbeatLands
<1>7. Busy' \subseteq Busy
  <2> SUFFICES ASSUME NEW t \in Tasks, NEW r \in Requests, Active(<<r, t>>)' PROVE Active(<<r, t>>)
    BY DEF Busy
  <2> QED BY <1>2 DEF Active, Launches
<1>8. \A n : Load(n)' \subseteq Load(n)
  BY <1>2, <1>5 DEF Load, On, Requested, Started
<1>9. UNCHANGED <<owner, stale>>
  BY DEF HeartbeatLands
<1> QED BY <1>3, <1>5, <1>6, <1>7, <1>8, <1>9, LaunchesEase

\* What moves neither a request, a launch nor a report moves nothing of this.
LEMMA QuietInv ==
    ASSUME IInv, UNCHANGED <<request, owner, launch, report, missed, stale>>,
           roadmap' \in [Roadmaps -> Roadmap], owned' \in [Machines -> SUBSET Launches],
           sent' \in [Machines -> SUBSET SUBSET Launches], beats' \in [Machines -> 0..MaxBeats]
    PROVE  IInv'
<1>1. \A r \in Requests : /\ SameRequest(r) /\ Held(r)' = Held(r) /\ KeysOf(r)' = KeysOf(r)
                          /\ (Open(r)' <=> Open(r)) /\ request'[r] = request[r]
  BY DEF SameRequest, Held, KeysOf, TasksOf, MachinesOf, Open
<1>2. TypeOK'
  BY <1>1 DEF IInv, TypeOK
<1>3. Busy' \subseteq Busy /\ (\A m : Load(m)' \subseteq Load(m))
      /\ \A l \in Launches : Blind(l)' => l \in missed'
  BY SameLaunches DEF IInv, PlanInv
<1> QED BY <1>1, <1>2, <1>3, LaunchesEase

LEMMA StepInv == IInv /\ [Next]_vars => IInv'
<1> SUFFICES ASSUME IInv, [Next]_vars PROVE IInv'
  OBVIOUS
<1>1. /\ roadmap \in [Roadmaps -> Roadmap] /\ owned \in [Machines -> SUBSET Launches]
      /\ sent \in [Machines -> SUBSET SUBSET Launches] /\ beats \in [Machines -> 0..MaxBeats]
  BY DEF IInv, TypeOK
<1>2. ASSUME NEW r \in Requests, RequestStep(r) PROVE IInv'
  <2>1. CASE \E k \in Keys : Acquire(r, k)
    BY <2>1, AcquireInv
  <2>2. CASE r \in Batches /\ (ReadPlan(r) \/ StageBatch(r) \/ RefuseBatch(r))
    BY <2>2, ReadPlanInv, StageBatchInv, RefuseInv DEF RefuseBatch
  <2>3. CASE r \in Units /\ StageUnit(r)
    BY <2>3, StageUnitInv
  <2>4. CASE Commit(r)
    BY <2>4, CommitInv
  <2> QED BY <1>2, <2>1, <2>2, <2>3, <2>4 DEF RequestStep
<1>3. CASE OutsideStep
  <2>1. ASSUME NEW b \in Batches, NEW rm \in Roadmaps, Confirm(b, rm) PROVE IInv'
    BY <2>1, ConfirmInv
  <2>2. ASSUME NEW b \in Batches, NEW items \in Batch, BeginBatch(b, items) PROVE IInv'
    BY <2>2, BeginBatchInv DEF Batch
  <2>3. ASSUME NEW u \in Units, NEW t \in Tasks, NEW m \in Machines, BeginUnit(u, t, m) PROVE IInv'
    BY <2>3, BeginUnitInv
  <2>4. ASSUME NEW rm \in Roadmaps, NEW active \in BOOLEAN, EditRoadmap(rm, active) PROVE IInv'
    <3>1. roadmap' \in [Roadmaps -> Roadmap]
      <4>1. roadmap[rm] \in Roadmap /\ roadmap[rm].version < MaxVersion
        BY <1>1, <2>4 DEF EditRoadmap
      <4>2. [version |-> roadmap[rm].version + 1, active |-> active] \in Roadmap
        BY <4>1 DEF Roadmap
      <4> QED BY <1>1, <2>4, <4>2 DEF EditRoadmap
    <3> QED BY <1>1, <2>4, <3>1, QuietInv DEF EditRoadmap, machineVars
  <2>5. ASSUME NEW r \in Requests, RollBack(r) PROVE IInv'
    BY <2>5, RefuseInv DEF RollBack
  <2> QED BY <1>3, <2>1, <2>2, <2>3, <2>4, <2>5 DEF OutsideStep
<1>4. CASE MachineStep
  <2>1. ASSUME NEW m \in Machines, NEW l \in Launches, PickUp(m, l) \/ LetGo(m, l) PROVE IInv'
    <3>1. owned' \in [Machines -> SUBSET Launches]
      BY <1>1, <2>1 DEF PickUp, LetGo
    <3> QED BY <1>1, <2>1, <3>1, QuietInv DEF PickUp, LetGo, serverVars
  <2>2. ASSUME NEW m \in Machines, NEW l \in Launches, Accepted(m, l) PROVE IInv'
    BY <2>2, LaunchInv
  <2>3. ASSUME NEW l \in Launches, End(l) \/ BecomeOverdue(l) PROVE IInv'
    BY <2>3, LaunchInv
  <2>4. ASSUME NEW m \in Machines, SendHeartbeat(m) PROVE IInv'
    <3>1. sent' \in [Machines -> SUBSET SUBSET Launches] /\ beats' \in [Machines -> 0..MaxBeats]
      BY <1>1, <2>4 DEF SendHeartbeat
    <3> QED BY <1>1, <2>4, <3>1, QuietInv DEF SendHeartbeat, serverVars
  <2>5. ASSUME NEW m \in Machines, NEW body \in sent[m], HeartbeatLands(m, body) PROVE IInv'
    BY <2>5, HeartbeatInv
  <2> QED BY <1>4, <2>1, <2>2, <2>3, <2>4, <2>5 DEF MachineStep
<1>5. CASE UNCHANGED vars
  BY <1>1, <1>5, QuietInv DEF vars
<1> QED BY <1>2, <1>3, <1>4, <1>5 DEF Next

LEMMA Invariance == Spec => []IInv
BY InitInv, StepInv, PTL DEF Spec

-----------------------------------------------------------------------------
(* The theorems *)

\* Every variable has its type, and a lock is only held by an open request that
\* asked for it: what ends a request gives its locks back (Released).
THEOREM TypeCorrect == Spec => []TypeOK
<1>1. IInv => TypeOK
  BY DEF IInv
<1> QED BY <1>1, Invariance, PTL

\* The lock that a waiting request asks for, and the open requests that ask for
\* one further on.
Wanted(r) == CHOOSE k \in Keys : NextKey(r, k) /\ owner[k] # "nobody"

Behind(r) ==
    {q \in Requests : Open(q) /\ Before(Wanted(r), Wanted(q)) /\ Wanted(r) # Wanted(q)}

\* Requests never wait for each other in a circle, nor for one that has ended
\* (the order of the locks): among those that wait, take one that the fewest are
\* behind; who has the lock that it wants waits for a lock further on, and fewer
\* are behind it.
THEOREM NoDeadlock == Spec => []SomebodyGoesOn
<1>1. ASSUME IInv PROVE SomebodyGoesOn
  <2>1. TypeOK /\ LockInv
    BY <1>1 DEF IInv
  <2> SUFFICES ASSUME NEW o \in Requests, Open(o), \A r \in Requests : Open(r) => Waits(r)
               PROVE  FALSE
    BY DEF SomebodyGoesOn
  <2>2. ASSUME NEW r \in Requests, Open(r)
        PROVE  Wanted(r) \in Keys /\ NextKey(r, Wanted(r)) /\ owner[Wanted(r)] # "nobody"
    <3>1. request[r] \in Request /\ (r \in Batches => request[r].roadmap \in Roadmaps)
      BY <2>1, <2>2 DEF TypeOK, LockInv, RoadmapKnown, Open
    <3>2. KeysOf(r) \subseteq Keys
      BY <3>1, KeysAreKeys
    <3>3. \E k \in Keys : NextKey(r, k) /\ owner[k] # "nobody"
      BY <2>2, <3>2 DEF Waits
    <3> QED BY <3>3 DEF Wanted
  <2>3. ASSUME NEW r \in Requests, Open(r)
        PROVE  \E q \in Requests : Open(q) /\ Behind(q) \subseteq Behind(r) /\ Behind(q) # Behind(r)
    <3> DEFINE k == Wanted(r)
               q == owner[k]
               j == Wanted(q)
    <3>1. k \in Keys /\ owner[k] # "nobody"
      BY <2>2, <2>3
    <3>2. q \in Requests /\ Open(q) /\ k \in Held(q)
      BY <2>1, <3>1, OneHolder
    <3>3. j \in Keys /\ NextKey(q, j)
      BY <2>2, <3>2
    <3> HIDE DEF k, q
    <3>4. Before(k, j) /\ k # j
      BY <2>1, <3>2, <3>3 DEF LockInv, OrderSound, NextKey
    <3>5. q \in Behind(r) /\ q \notin Behind(q)
      BY <3>2, <3>4 DEF Behind, k
    <3>6. ASSUME NEW p \in Behind(q) PROVE p \in Behind(r)
      <4>1. p \in Requests /\ Open(p) /\ Before(j, Wanted(p)) /\ j # Wanted(p)
        BY DEF Behind
      <4>2. Wanted(p) \in Keys
        BY <2>2, <4>1
      <4>3. Before(k, Wanted(p)) /\ k # Wanted(p)
        BY <3>1, <3>3, <3>4, <4>1, <4>2, BeforeOrders
      <4> QED BY <4>1, <4>3 DEF Behind, k
    <3> QED BY <3>2, <3>5, <3>6
  <2> DEFINE queues == {Behind(r) : r \in {p \in Requests : Open(p)}}
             R == StrictSubsetOrdering(Requests)
             S == SUBSET Requests
  <2>4. IsWellFoundedOn(R, S)
    BY FS_StrictSubsetOrderingWellFounded, FS_FiniteSubsetsOfFinite
  <2>5. queues \subseteq S /\ queues # {}
    <3>1. \A r : Behind(r) \subseteq Requests
      BY DEF Behind
    <3>2. Behind(o) \in queues
      OBVIOUS
    <3> QED BY <3>1, <3>2
  <2> HIDE DEF queues, R, S
  <2>6. PICK least \in queues : \A other \in queues : <<other, least>> \notin R
    BY <2>4, <2>5, WFMin, Zenon
  <2>7. PICK r \in Requests : Open(r) /\ Behind(r) = least
    BY DEF queues
  <2>8. PICK q \in Requests : Open(q) /\ Behind(q) \subseteq least /\ Behind(q) # least
    BY <2>3, <2>7
  <2>9. Behind(q) \in queues /\ <<Behind(q), least>> \in S \X S
    BY <2>5, <2>8 DEF queues
  <2>10. <<Behind(q), least>> \in R
    BY <2>8, <2>9 DEF R, S, StrictSubsetOrdering
  <2> QED BY <2>6, <2>9, <2>10
<1> QED BY <1>1, Invariance, PTL

\* Rows of launches only come from the commit of their request.
LEMMA OnlyCommitLaunches ==
    ASSUME IInv, [Next]_vars, NEW b \in Batches, NEW t \in Tasks, Appears(<<b, t>>)
    PROVE  Commit(b) /\ t \in TasksOf(b)
<1> DEFINE l == <<b, t>>
<1>1. TypeOK /\ launch \in [Launches -> Launch] /\ l \in Launches
      /\ launch[l] = NoLaunch /\ launch'[l] # launch[l]
  BY DEF IInv, TypeOK, Launches, Requests, Appears
<1>2. ~Active(l) /\ ~Requested(l) /\ launch[l].machine = NoMachine
  BY <1>1 DEF Active, Requested, NoLaunch
<1>3. launch' # launch
  BY <1>1
<1>4. ASSUME NEW r \in Requests, Commit(r) PROVE Commit(b) /\ t \in TasksOf(b)
  <2>1. launch' = Made(r)
    BY <1>4 DEF Commit
  <2>2. r = b /\ t \in TasksOf(b)
    BY <1>1, <2>1, MadeType DEF Requests
  <2> QED BY <1>4, <2>2
<1> HIDE DEF l
<1>5. ASSUME NEW k \in Launches, (\E m \in Machines : Accepted(m, k)) \/ End(k) \/ BecomeOverdue(k)
      PROVE  FALSE
  <2>1. k # l
    BY <1>2, <1>5 DEF Accepted, End, BecomeOverdue
  <2>2. \E status : launch' = [launch EXCEPT ![k].status = status]
    BY <1>5 DEF Accepted, End, BecomeOverdue
  <2> QED BY <1>1, <2>1, <2>2
<1>6. ASSUME NEW m \in Machines, NEW body \in sent[m], HeartbeatLands(m, body) PROVE FALSE
  <2>1. l \notin On(m)
    BY <1>2 DEF On
  <2> QED BY <1>1, <1>6, <2>1 DEF HeartbeatLands
<1>7. \/ \E r \in Requests : Commit(r)
      \/ \E k \in Launches : (\E m \in Machines : Accepted(m, k)) \/ End(k) \/ BecomeOverdue(k)
      \/ \E m \in Machines : \E body \in sent[m] : HeartbeatLands(m, body)
  <2>1. CASE \E r \in Requests : RequestStep(r)
    BY <1>3, <2>1 DEF RequestStep, Acquire, ReadPlan, StageBatch, RefuseBatch, Refuse, StageUnit
  <2>2. CASE OutsideStep
    BY <1>3, <2>2 DEF OutsideStep, Confirm, BeginBatch, BeginUnit, EditRoadmap, RollBack, Refuse
  <2>3. CASE MachineStep
    BY <1>3, <2>3 DEF MachineStep, PickUp, LetGo, SendHeartbeat
  <2>4. CASE UNCHANGED vars
    BY <1>3, <2>4 DEF vars
  <2> QED BY <2>1, <2>2, <2>3, <2>4 DEF Next
<1> QED BY <1>4, <1>5, <1>6, <1>7

\* A batch never launches a task that another launch is active for, whatever
\* other batches and single launches are under way (admit_batch, stage_launch):
\* it has seen so with the lock of the task, and nobody makes a launch of the
\* task without that lock.
THEOREM IdleTasks == Spec => BatchOfIdleTasks
<1>1. ASSUME IInv, [Next]_vars, NEW b \in Batches, NEW t \in Tasks, Appears(<<b, t>>)
      PROVE  t \notin Busy
  <2>1. Commit(b) /\ t \in TasksOf(b)
    BY <1>1, OnlyCommitLaunches
  <2>2. TasksOf(b) \cap Busy = {}
    BY <1>1, <2>1 DEF Commit, IInv, PlanInv, TasksIdle
  <2> QED BY <2>1, <2>2
<1>2. IInv /\ [Next]_vars
        => [\A b \in Batches, t \in Tasks : Appears(<<b, t>>) => t \notin Busy]_vars
  BY <1>1
<1> QED BY <1>2, Invariance, PTL DEF Spec, BatchOfIdleTasks

\* A batch that counted with a machine's last report never leaves the machine
\* with more launches than slots, but for those that the report was too early or
\* too late to count (admit_batch, unreported_launch_counts): what is launched on
\* the machine after the count needs a lock that the batch has.
THEOREM NoOverbooking == Spec => NoOverbookingUnlessStale
<1>1. ASSUME IInv, [Next]_vars, NEW b \in Batches \ stale, NEW m \in Machines,
             NEW t \in Tasks, Appears(<<b, t>>), launch'[<<b, t>>].machine = m
      PROVE  Cardinality(Load(m)') <= MaxLaunches
  <2>1. /\ TypeOK /\ Commit(b) /\ t \in TasksOf(b) /\ b \in Requests
        /\ launch' = Made(b) /\ UNCHANGED missed
    BY <1>1, OnlyCommitLaunches DEF IInv, Requests, Commit
  <2>2. m \in MachinesOf(b)
    BY <1>1, <2>1, MadeType
  <2>3. RoomFor(b, m)
    BY <1>1, <2>1, <2>2 DEF Commit, IInv, PlanInv, SlotsFree
  <2> DEFINE added == {l \in Launches : l[1] = b /\ l[2] \in TasksOf(b) /\ launch'[l].machine = m}
  <2>4. PICK new : new = added
    OBVIOUS
  <2>5. PICK load : load = Load(m)'
    OBVIOUS
  <2>6. load \subseteq Load(m) \cup new
    BY <2>1, <2>4, <2>5, CommitAdds
  <2>7. \A l \in new : l = <<b, l[2]>> /\ <<l[2], m>> \in ItemsOn(b, m)
    <3> SUFFICES ASSUME NEW l \in new PROVE l = <<b, l[2]>> /\ <<l[2], m>> \in ItemsOn(b, m)
      OBVIOUS
    <3>1. l \in Launches /\ l[1] = b /\ l[2] \in TasksOf(b) /\ launch'[l].machine = m
      BY <2>4
    <3>2. l = <<b, l[2]>>
      BY <3>1 DEF Launches
    <3> QED BY <2>1, <3>1, <3>2, MadeType
  <2> HIDE DEF added
  <2>8. IsFiniteSet(ItemsOn(b, m)) /\ IsFiniteSet(Load(m)) /\ Cardinality(Load(m)) \in Nat
    BY <2>1, ItemsOnFinite, LaunchesFinite, FS_Subset, FS_CardinalityType DEF Load, On
  <2>9. IsFiniteSet(new) /\ Cardinality(new) <= Cardinality(ItemsOn(b, m))
    <3> DEFINE f == [l \in new |-> <<l[2], m>>]
    <3>1. f \in Injection(new, ItemsOn(b, m))
      BY <2>7 DEF Injection, IsInjective
    <3> QED BY <2>8, <3>1, FS_Injection
  <2>10. /\ IsFiniteSet(Load(m) \cup new)
         /\ Cardinality(Load(m) \cup new) <= Cardinality(Load(m)) + Cardinality(new)
    <3>1. Cardinality(Load(m) \cup new)
            = Cardinality(Load(m)) + Cardinality(new) - Cardinality(Load(m) \cap new)
          /\ IsFiniteSet(Load(m) \cup new) /\ IsFiniteSet(Load(m) \cap new)
      BY <2>8, <2>9, FS_Union, FS_Intersection
    <3> QED BY <2>8, <2>9, <3>1, FS_CardinalityType
  <2>11. Cardinality(load) <= Cardinality(Load(m) \cup new) /\ Cardinality(load) \in Nat
         /\ Cardinality(Load(m) \cup new) \in Nat
    BY <2>6, <2>10, FS_Subset, FS_CardinalityType
  <2>12. Cardinality(load) <= MaxLaunches
    BY <2>3, <2>8, <2>9, <2>10, <2>11, FS_CardinalityType DEF RoomFor
  <2> QED BY <2>5, <2>12
<1>2. IInv /\ [Next]_vars
        => [\A b \in Batches \ stale, m \in Machines :
              (\E t \in Tasks : Appears(<<b, t>>) /\ launch'[<<b, t>>].machine = m)
                => Cardinality(Load(m)') <= MaxLaunches]_vars
  BY <1>1
<1> QED BY <1>2, Invariance, PTL DEF Spec, NoOverbookingUnlessStale
=============================================================================
