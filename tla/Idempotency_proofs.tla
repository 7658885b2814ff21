------------------------ MODULE Idempotency_proofs ------------------------
(* Proofs about Idempotency, for every set of requests and bodies, however *)
(* long the reclaim threshold and the polling.                             *)
EXTENDS Idempotency, TLAPS

USE NoRequestAssumption, NoBodyAssumption, ClockAssumption

\* Until somebody is late, the one request that believes it owns the
\* reservation does own it: the row is pending, as it wrote it.
OwnerHoldsRow ==
    \A q \in Requests : Owner(q) =>
        /\ row.status = "pending"
        /\ row.request_hash = request[q].body
        /\ row.created_at = request[q].since
        /\ \A r \in Requests : Owner(r) => q = r

\* A completed row stores the response of a creation run for its body.
CompletedRowSound ==
    row.status = "completed" =>
        /\ row.response \in created
        /\ row.request_hash = request[row.response].body
        /\ request[row.response].at = "answered"

\* Every answer is the stored response.
AnswersMatchRow ==
    \A q \in Requests : request[q].at = "answered" =>
        /\ row.status = "completed"
        /\ request[q].answer = row.response
        /\ request[q].body = row.request_hash

\* A resource whose creator lived is the one the row's owner or its response
\* names.
SurvivorsNamed ==
    \A q \in created :
        \/ request[q].at \in {"release", "failed", "dead"}
        \/ request[q].at = "complete"
        \/ request[q].at = "answered" /\ row.response = q

\* Before its create() returns, a request has created nothing; after, it has.
CreatedFits ==
    \A q \in Requests :
        /\ request[q].at \in {"idle", "reserve", "reclaim", "await", "create"}
              => q \notin created
        /\ request[q].at = "complete" => q \in created

\* Every owner past the threshold is recorded as late.
LateRecorded ==
    \A q \in Requests : Owner(q) /\ request[q].since + ReclaimAfter < now => q \in late

Sound == OwnerHoldsRow /\ CompletedRowSound /\ AnswersMatchRow /\ SurvivorsNamed

IInv == TypeOK /\ CreatedFits /\ LateRecorded /\ (late = {} => Sound)

-----------------------------------------------------------------------------
LEMMA InitInv == Init => IInv
<1> SUFFICES ASSUME Init PROVE IInv
  OBVIOUS
<1> USE DEF Init
<1>1. TypeOK
  BY DEF TypeOK, Absent, Running, Ended
<1>2. CreatedFits /\ LateRecorded
  BY DEF CreatedFits, LateRecorded, Owner
<1>3. Sound
  BY DEF Sound, OwnerHoldsRow, CompletedRowSound, AnswersMatchRow, SurvivorsNamed, Owner,
         Absent
<1> QED BY <1>1, <1>2, <1>3 DEF IInv

\* How the handlers update the request they run, field by field.
Others(q) == \A r \in Requests \ {q} : request'[r] = request[r]

LEMMA GotoEffect ==
  ASSUME TypeOK, NEW q \in Requests, NEW step, Goto(q, step)
  PROVE  /\ request'[q].at = step /\ request'[q].body = request[q].body
         /\ request'[q].since = request[q].since
         /\ request'[q].answer = request[q].answer
         /\ Others(q)
BY DEF TypeOK, Goto, Others

LEMMA OwnEffect ==
  ASSUME TypeOK, NEW q \in Requests, Own(q)
  PROVE  /\ request'[q].at = "create" /\ request'[q].body = request[q].body
         /\ request'[q].since = now
         /\ Others(q)
BY DEF TypeOK, Own, Others

LEMMA AnswerEffect ==
  ASSUME TypeOK, NEW q \in Requests, NEW response, Answer(q, response)
  PROVE  /\ request'[q].at = "answered" /\ request'[q].body = request[q].body
         /\ request'[q].answer = response
         /\ Others(q)
BY DEF TypeOK, Answer, Others

RowType == [status       : {"absent", "pending", "completed"},
            request_hash : Bodies \cup {NoBody},
            created_at   : Nat,
            response     : Requests \cup {NoRequest}]

Handler == [at     : {"idle"} \cup Running \cup Ended,
            body   : Bodies \cup {NoBody},
            since  : Nat,
            polls  : Nat,
            answer : Requests \cup {NoRequest}]

RequestType == [Requests -> Handler]

LEMMA RequestTyped ==
  ASSUME TypeOK, NEW q \in Requests
  PROVE  /\ \A step \in Running \cup Ended : Goto(q, step) => request' \in RequestType
         /\ Own(q) => request' \in RequestType
         /\ \A r \in Requests \cup {NoRequest} : Answer(q, r) => request' \in RequestType
<1>1. \A step \in Running \cup Ended : Goto(q, step) => request' \in RequestType
  BY DEF TypeOK, RequestType, Handler, Goto
<1>2. Own(q) => request' \in RequestType
  <2>1. "create" \in Running
    BY DEF Running
  <2>2. [request[q] EXCEPT !.at = "create", !.since = now] \in Handler
    BY <2>1, ZenonT(30) DEF TypeOK, Handler
  <2>3. Own(q) => \E h \in Handler : request' = [request EXCEPT ![q] = h]
    BY <2>2 DEF Own
  <2>4. request \in RequestType
    BY DEF TypeOK, RequestType, Handler
  <2> QED BY <2>3, <2>4 DEF RequestType
<1>3. \A r \in Requests \cup {NoRequest} : Answer(q, r) => request' \in RequestType
  <2>1. "answered" \in Ended
    BY DEF Ended
  <2> SUFFICES ASSUME NEW r \in Requests \cup {NoRequest}, Answer(q, r)
               PROVE  request' \in RequestType
    OBVIOUS
  <2>2. [request[q] EXCEPT !.at = "answered", !.answer = r] \in Handler
    BY <2>1, ZenonT(30) DEF TypeOK, Handler
  <2>3. \E h \in Handler : request' = [request EXCEPT ![q] = h]
    BY <2>2 DEF Answer
  <2>4. request \in RequestType
    BY DEF TypeOK, RequestType, Handler
  <2> QED BY <2>3, <2>4 DEF RequestType
<1> QED BY <1>1, <1>2, <1>3

LEMMA RowTyped ==
  ASSUME TypeOK, NEW q \in Requests
  PROVE  /\ row \in RowType
         /\ Pending(request[q].body) \in RowType
         /\ Reclaimed(request[q].body) \in RowType
         /\ Completed(q) \in RowType
         /\ Released \in RowType
BY DEF TypeOK, RowType, Pending, Reclaimed, Completed, Released, Absent

LEMMA TypeStep == TypeOK /\ [Next]_vars => TypeOK'
<1> SUFFICES ASSUME TypeOK, [Next]_vars PROVE TypeOK'
  OBVIOUS
<1>0. TypeOK' <=> /\ row' \in RowType
                  /\ request' \in RequestType
                  /\ created' \subseteq Requests
                  /\ late' \subseteq Requests
                  /\ now' \in Nat
  BY DEF TypeOK, RowType, RequestType, Handler
<1>1. request \in RequestType /\ created \subseteq Requests /\ late \subseteq Requests
        /\ now \in Nat /\ row \in RowType
  BY DEF TypeOK, RequestType, Handler, RowType
<1>2. ASSUME NEW q \in Requests, NEW body \in Bodies, Arrive(q, body)
      PROVE  TypeOK'
  <2>1. request' \in RequestType
    BY <1>1, <1>2, ZenonT(30) DEF Arrive, Running, RequestType, Handler
  <2> QED BY <1>0, <1>1, <1>2, <2>1 DEF Arrive
<1>3. ASSUME NEW q \in Requests, Reserve(q) \/ Reclaim(q)
      PROVE  TypeOK'
  <2>1. row' \in RowType
    BY <1>3, RowTyped DEF Reserve, Reclaim
  <2>2. request' \in RequestType
    BY <1>3, RequestTyped DEF Reserve, Reclaim, Running
  <2> QED BY <1>0, <1>1, <1>3, <2>1, <2>2 DEF Reserve, Reclaim
<1>4. ASSUME NEW q \in Requests, Resolve(q)
      PROVE  TypeOK'
  <2>1. row.response \in Requests \cup {NoRequest}
    BY <1>1 DEF RowType
  <2>2. request' \in RequestType
    BY <1>4, <2>1, RequestTyped DEF Resolve, Ended
  <2> QED BY <1>0, <1>1, <1>4, <2>2 DEF Resolve
<1>5. ASSUME NEW q \in Requests, Poll(q)
      PROVE  TypeOK'
  <2>1. CASE Goto(q, "in_progress")
    <3>1. request' \in RequestType
      BY <2>1, RequestTyped DEF Ended
    <3> QED BY <1>0, <1>1, <1>5, <3>1 DEF Poll
  <2>2. CASE request' = [request EXCEPT ![q].polls = Elapsed(q)]
    <3>1. request' \in RequestType
      BY <1>1, <2>2 DEF Elapsed, RequestType, Handler
    <3> QED BY <1>0, <1>1, <1>5, <3>1 DEF Poll
  <2> QED BY <1>5, <2>1, <2>2 DEF Poll
<1>6. ASSUME NEW q \in Requests, Create(q) \/ CreateRaises(q)
      PROVE  TypeOK'
  <2>1. request' \in RequestType
    BY <1>6, RequestTyped DEF Create, CreateRaises, Running
  <2> QED BY <1>0, <1>1, <1>6, <2>1 DEF Create, CreateRaises
<1>7. ASSUME NEW q \in Requests, Complete(q)
      PROVE  TypeOK'
  BY <1>0, <1>1, <1>7, RowTyped, RequestTyped DEF Complete
<1>8. ASSUME NEW q \in Requests, Release(q) \/ Die(q)
      PROVE  TypeOK'
  <2>1. request' \in RequestType
    BY <1>8, RequestTyped DEF Release, Die, Ended
  <2> QED BY <1>0, <1>1, <1>8, <2>1, RowTyped DEF Release, Die
<1>9. CASE Tick
  BY <1>0, <1>1, <1>9 DEF Tick
<1>10. CASE UNCHANGED vars
  BY <1>0, <1>1, <1>10 DEF vars
<1> QED
  BY <1>2, <1>3, <1>4, <1>5, <1>6, <1>7, <1>8, <1>9, <1>10 DEF Next, Progress

-----------------------------------------------------------------------------
(* The inductive step, by what a step does to the row.                      *)

\* q goes on, or ends, without touching the row and without a response.
LEMMA MoveStep ==
  ASSUME IInv, TypeOK', NEW q \in Requests, Others(q), UNCHANGED <<row, late, now>>,
         request'[q].body = request[q].body \/ request[q].at = "idle",
         request[q].at # "answered", request'[q].at # "answered",
         Owner(q)' => Owner(q) /\ request[q].at # "idle"
                               /\ request'[q].since = request[q].since,
         \A r \in Requests \ {q} : r \in created' <=> r \in created,
         request'[q].at \in {"idle", "reserve", "reclaim", "await", "create"}
            => q \notin created',
         request'[q].at = "complete" => q \in created',
         q \in created' => request'[q].at \in {"release", "failed", "dead", "complete"}
  PROVE  IInv'
<1> USE DEF Others
<1>1. CreatedFits'
  BY DEF CreatedFits, IInv
<1>2. LateRecorded'
  BY DEF LateRecorded, Owner, IInv
<1>3. ASSUME late = {} PROVE Sound'
  <2>1. OwnerHoldsRow /\ CompletedRowSound /\ AnswersMatchRow /\ SurvivorsNamed
    BY <1>3 DEF IInv, Sound
  <2>2. OwnerHoldsRow'
    BY <2>1 DEF OwnerHoldsRow, Owner
  <2>3. CompletedRowSound'
    BY <2>1 DEF CompletedRowSound, TypeOK, IInv
  <2>4. AnswersMatchRow'
    BY <2>1 DEF AnswersMatchRow
  <2>5. SurvivorsNamed'
    BY <2>1 DEF SurvivorsNamed, TypeOK, IInv
  <2> QED BY <2>2, <2>3, <2>4, <2>5 DEF Sound
<1> QED BY <1>1, <1>2, <1>3 DEF IInv

\* q becomes the owner of a new or abandoned reservation.
LEMMA OwnStep ==
  ASSUME IInv, TypeOK', NEW q \in Requests, Own(q),
         request[q].at \in {"reserve", "reclaim"},
         row.status = "absent" \/ Abandoned,
         row'.status = "pending", row'.request_hash = request[q].body,
         row'.created_at = now,
         UNCHANGED <<created, late, now>>
  PROVE  IInv'
<1>1. TypeOK
  BY DEF IInv
<1>2. /\ request'[q].at = "create" /\ request'[q].body = request[q].body
      /\ request'[q].since = now
      /\ \A r \in Requests \ {q} : request'[r] = request[r]
  BY <1>1, OwnEffect DEF Others
<1>3. CreatedFits'
  BY <1>2 DEF CreatedFits, IInv
<1>4. LateRecorded'
  <2>1. ~(now + ReclaimAfter < now)
    BY <1>1 DEF TypeOK
  <2> QED BY <1>2, <2>1 DEF LateRecorded, Owner, IInv
<1>5. ASSUME late = {} PROVE Sound'
  <2>1. OwnerHoldsRow /\ AnswersMatchRow /\ SurvivorsNamed /\ LateRecorded
    BY <1>5 DEF IInv, Sound
  <2>2. row.status # "completed"
    BY DEF Abandoned
  <2>3. \A r \in Requests : ~Owner(r)
    <3> SUFFICES ASSUME NEW r \in Requests, Owner(r) PROVE FALSE
      OBVIOUS
    <3>1. row.status = "pending" /\ row.created_at = request[r].since
      BY <2>1 DEF OwnerHoldsRow
    <3>2. request[r].since + ReclaimAfter < now
      BY <3>1 DEF Abandoned
    <3> QED BY <1>5, <2>1, <3>2 DEF LateRecorded
  <2>4. OwnerHoldsRow'
    BY <1>2, <2>3 DEF OwnerHoldsRow, Owner
  <2>5. CompletedRowSound'
    BY DEF CompletedRowSound
  <2>6. AnswersMatchRow'
    BY <1>2, <2>1, <2>2 DEF AnswersMatchRow
  <2>7. SurvivorsNamed'
    <3>1. q \notin created
      BY DEF IInv, CreatedFits
    <3>2. \A r \in created : r \in Requests /\ r # q
      BY <1>1, <3>1 DEF TypeOK
    <3> QED BY <1>2, <2>1, <2>2, <3>2 DEF SurvivorsNamed, AnswersMatchRow
  <2> QED BY <2>4, <2>5, <2>6, <2>7 DEF Sound
<1> QED BY <1>3, <1>4, <1>5 DEF IInv

LEMMA ResolveStep ==
  ASSUME IInv, TypeOK', NEW q \in Requests, Resolve(q)
  PROVE  IInv'
<1>1. TypeOK
  BY DEF IInv
<1>2. /\ row.status = "completed" /\ request[q].at = "await"
      /\ UNCHANGED <<row, created, late, now>>
  BY DEF Resolve
<1>3. q \notin created
  BY <1>2 DEF IInv, CreatedFits
<1>4. CASE Goto(q, "mismatch")
  <2>1. request'[q].at = "mismatch" /\ request'[q].body = request[q].body /\ Others(q)
    BY <1>1, <1>4, GotoEffect
  <2> QED BY <1>2, <1>3, <2>1, MoveStep DEF Owner
<1>5. CASE row.request_hash = request[q].body /\ Answer(q, row.response)
  <2>1. /\ request'[q].at = "answered" /\ request'[q].body = request[q].body
        /\ request'[q].answer = row.response
        /\ \A r \in Requests \ {q} : request'[r] = request[r]
    BY <1>1, <1>5, AnswerEffect DEF Others
  <2>2. CreatedFits' /\ LateRecorded'
    BY <1>2, <2>1 DEF CreatedFits, LateRecorded, Owner, IInv
  <2>3. ASSUME late = {} PROVE Sound'
    <3>1. OwnerHoldsRow /\ CompletedRowSound /\ AnswersMatchRow /\ SurvivorsNamed
      BY <2>3 DEF IInv, Sound
    <3>2. OwnerHoldsRow'
      BY <1>2, <2>1, <3>1 DEF OwnerHoldsRow, Owner
    <3>3. CompletedRowSound'
      BY <1>1, <1>2, <1>3, <2>1, <3>1 DEF CompletedRowSound, TypeOK
    <3>4. AnswersMatchRow'
      BY <1>2, <1>5, <2>1, <3>1 DEF AnswersMatchRow
    <3>5. SurvivorsNamed'
      BY <1>1, <1>2, <1>3, <2>1, <3>1 DEF SurvivorsNamed, TypeOK
    <3> QED BY <3>2, <3>3, <3>4, <3>5 DEF Sound
  <2> QED BY <1>2, <2>2, <2>3 DEF IInv
<1> QED BY <1>4, <1>5 DEF Resolve

LEMMA CompleteStep ==
  ASSUME IInv, TypeOK', NEW q \in Requests, Complete(q)
  PROVE  IInv'
<1>1. TypeOK
  BY DEF IInv
<1>2. request[q].at = "complete" /\ UNCHANGED <<created, late, now>> /\ Owner(q)
  BY DEF Complete, Owner
<1>3. /\ request'[q].at = "answered" /\ request'[q].body = request[q].body
      /\ request'[q].answer = q
      /\ \A r \in Requests \ {q} : request'[r] = request[r]
  BY <1>1, AnswerEffect DEF Complete, Others
<1>4. CreatedFits' /\ LateRecorded'
  BY <1>2, <1>3 DEF CreatedFits, LateRecorded, Owner, IInv
<1>5. ASSUME late = {} PROVE Sound'
  <2>1. OwnerHoldsRow /\ AnswersMatchRow /\ SurvivorsNamed
    BY <1>5 DEF IInv, Sound
  <2>2. /\ row.status = "pending" /\ row.request_hash = request[q].body
        /\ \A r \in Requests : Owner(r) => r = q
    BY <1>2, <2>1 DEF OwnerHoldsRow
  <2>3. row'.status = "completed" /\ row'.response = q /\ row'.request_hash = request[q].body
    BY <1>1, <2>2 DEF Complete, Completed, TypeOK
  <2>4. OwnerHoldsRow'
    BY <1>3, <2>2 DEF OwnerHoldsRow, Owner
  <2>5. CompletedRowSound'
    BY <1>2, <1>3, <2>3 DEF CompletedRowSound, IInv, CreatedFits
  <2>6. AnswersMatchRow'
    BY <1>3, <2>1, <2>2, <2>3 DEF AnswersMatchRow
  <2>7. SurvivorsNamed'
    BY <1>1, <1>2, <1>3, <2>1, <2>2, <2>3 DEF SurvivorsNamed, AnswersMatchRow, Owner, TypeOK
  <2> QED BY <2>4, <2>5, <2>6, <2>7 DEF Sound
<1> QED BY <1>2, <1>4, <1>5 DEF IInv

LEMMA ReleaseStep ==
  ASSUME IInv, TypeOK', NEW q \in Requests, Release(q)
  PROVE  IInv'
<1>1. TypeOK
  BY DEF IInv
<1>2. request[q].at = "release" /\ UNCHANGED <<created, late, now>> /\ Owner(q)
  BY DEF Release, Owner
<1>3. /\ request'[q].at = "failed" /\ request'[q].body = request[q].body
      /\ \A r \in Requests \ {q} : request'[r] = request[r]
  BY <1>1, GotoEffect DEF Release, Others
<1>4. CreatedFits' /\ LateRecorded'
  BY <1>2, <1>3 DEF CreatedFits, LateRecorded, Owner, IInv
<1>5. ASSUME late = {} PROVE Sound'
  <2>1. OwnerHoldsRow /\ AnswersMatchRow /\ SurvivorsNamed
    BY <1>5 DEF IInv, Sound
  <2>2. row.status = "pending" /\ \A r \in Requests : Owner(r) => r = q
    BY <1>2, <2>1 DEF OwnerHoldsRow
  <2>3. row'.status = "absent"
    BY <2>2 DEF Release, Released, Absent
  <2>4. OwnerHoldsRow'
    BY <1>3, <2>2 DEF OwnerHoldsRow, Owner
  <2>5. CompletedRowSound'
    BY <2>3 DEF CompletedRowSound
  <2>6. AnswersMatchRow'
    BY <1>3, <2>1, <2>2 DEF AnswersMatchRow
  <2>7. SurvivorsNamed'
    BY <1>1, <1>2, <1>3, <2>1, <2>2 DEF SurvivorsNamed, AnswersMatchRow, Owner, TypeOK
  <2> QED BY <2>4, <2>5, <2>6, <2>7 DEF Sound
<1> QED BY <1>2, <1>4, <1>5 DEF IInv

LEMMA TickStep ==
  ASSUME IInv, TypeOK', Tick
  PROVE  IInv'
<1>1. UNCHANGED <<row, request, created>> /\ now' = now + 1
  BY DEF Tick
<1>2. CreatedFits'
  BY <1>1 DEF CreatedFits, IInv
<1>3. LateRecorded'
  BY <1>1 DEF LateRecorded, Owner, Tick
<1>4. late' = {} => late = {}
  BY DEF Tick
<1>5. Sound => Sound'
  BY <1>1 DEF Sound, OwnerHoldsRow, CompletedRowSound, AnswersMatchRow, SurvivorsNamed, Owner
<1> QED BY <1>2, <1>3, <1>4, <1>5 DEF IInv

LEMMA StepInv == IInv /\ [Next]_vars => IInv'
<1> SUFFICES ASSUME IInv, [Next]_vars PROVE IInv'
  OBVIOUS
<1>0. TypeOK /\ TypeOK'
  BY TypeStep DEF IInv
<1>1. ASSUME NEW q \in Requests, NEW body \in Bodies, Arrive(q, body)
      PROVE  IInv'
  <2>1. /\ request[q].at = "idle" /\ request'[q].at = "reserve" /\ Others(q)
        /\ UNCHANGED <<row, created, late, now>>
    BY <1>0, <1>1 DEF Arrive, Others, TypeOK
  <2>2. q \notin created
    BY <2>1 DEF IInv, CreatedFits
  <2> QED BY <1>0, <2>1, <2>2, MoveStep DEF Owner
<1>2. ASSUME NEW q \in Requests, Reserve(q)
      PROVE  IInv'
  <2>1. CASE row.status = "absent" /\ row' = Pending(request[q].body) /\ Own(q)
    BY <1>0, <1>2, <2>1, OwnStep DEF Reserve, Pending
  <2>2. CASE Goto(q, "reclaim") /\ UNCHANGED row
    <3>1. q \notin created
      BY <1>2 DEF Reserve, IInv, CreatedFits
    <3> QED BY <1>0, <1>2, <2>2, <3>1, GotoEffect, MoveStep DEF Reserve, Owner
  <2> QED BY <1>2, <2>1, <2>2 DEF Reserve
<1>3. ASSUME NEW q \in Requests, Reclaim(q)
      PROVE  IInv'
  <2>1. CASE Abandoned /\ row' = Reclaimed(request[q].body) /\ Own(q)
    <3>1. /\ row'.status = "pending" /\ row'.request_hash = request[q].body
          /\ row'.created_at = now
      BY <1>0, <2>1 DEF Reclaimed, Abandoned, TypeOK
    <3> QED BY <1>0, <1>3, <2>1, <3>1, OwnStep DEF Reclaim
  <2>2. CASE Goto(q, "await") /\ UNCHANGED row
    <3>1. q \notin created
      BY <1>3 DEF Reclaim, IInv, CreatedFits
    <3> QED BY <1>0, <1>3, <2>2, <3>1, GotoEffect, MoveStep DEF Reclaim, Owner
  <2> QED BY <1>3, <2>1, <2>2 DEF Reclaim
<1>4. ASSUME NEW q \in Requests, Poll(q)
      PROVE  IInv'
  <2>1. q \notin created /\ request[q].at = "await" /\ UNCHANGED <<row, created, late, now>>
    BY <1>4 DEF Poll, IInv, CreatedFits
  <2>2. CASE Goto(q, "in_progress")
    BY <1>0, <2>1, <2>2, GotoEffect, MoveStep DEF Owner
  <2>3. CASE request' = [request EXCEPT ![q].polls = Elapsed(q)]
    <3>1. request'[q].at = "await" /\ request'[q].body = request[q].body /\ Others(q)
      BY <1>0, <2>1, <2>3 DEF TypeOK, Others
    <3> QED BY <1>0, <2>1, <3>1, MoveStep DEF Owner
  <2> QED BY <1>4, <2>2, <2>3 DEF Poll
<1>5. ASSUME NEW q \in Requests, Create(q) \/ CreateRaises(q)
      PROVE  IInv'
  <2>1. /\ request[q].at = "create" /\ UNCHANGED <<row, late, now>>
        /\ \/ Goto(q, "complete") /\ created' = created \cup {q}
           \/ Goto(q, "release") /\ created' \in {created, created \cup {q}}
    BY <1>5 DEF Create, CreateRaises
  <2>2. request'[q].since = request[q].since /\ request'[q].body = request[q].body /\ Others(q)
    BY <1>0, <2>1, GotoEffect
  <2>3. \/ request'[q].at = "complete" /\ q \in created'
        \/ request'[q].at = "release"
    BY <1>0, <2>1, GotoEffect
  <2> QED BY <1>0, <2>1, <2>2, <2>3, MoveStep DEF Owner
<1>6. ASSUME NEW q \in Requests, Die(q)
      PROVE  IInv'
  <2>1. /\ request[q].at \in Running /\ Goto(q, "dead")
        /\ UNCHANGED <<row, created, late, now>>
    BY <1>6 DEF Die
  <2>2. request'[q].at = "dead" /\ request'[q].body = request[q].body /\ Others(q)
    BY <1>0, <2>1, GotoEffect
  <2> QED BY <1>0, <2>1, <2>2, MoveStep DEF Owner, Running
<1>7. CASE UNCHANGED vars
  BY <1>7 DEF vars, IInv, TypeOK, CreatedFits, LateRecorded, Sound, OwnerHoldsRow,
              CompletedRowSound, AnswersMatchRow, SurvivorsNamed, Owner
<1> QED
  BY <1>0, <1>1, <1>2, <1>3, <1>4, <1>5, <1>6, <1>7,
     ResolveStep, CompleteStep, ReleaseStep, TickStep DEF Next, Progress

LEMMA AlwaysInv == Spec => []IInv
<1>1. Init => IInv
  BY InitInv
<1>2. IInv /\ [Next]_vars => IInv'
  BY StepInv
<1> QED BY <1>1, <1>2, PTL DEF Spec

-----------------------------------------------------------------------------
\* The row, the handlers and the clock stay well formed.
THEOREM TypeCorrect == Spec => []TypeOK
<1>1. IInv => TypeOK
  BY DEF IInv
<1> QED BY <1>1, AlwaysInv, PTL

\* As long as no creation outlives the reclaim threshold, at most one caller
\* is ever running create().
THEOREM AtMostOneRunner == Spec => []OneRunner
<1>1. IInv => OneRunner
  BY DEF IInv, OneRunner, Sound, OwnerHoldsRow
<1> QED BY <1>1, AlwaysInv, PTL

\* A duplicate resource has a creator that died or failed after its commit.
THEOREM OneSurvivor == Spec => []OneSurvivingResource
<1>1. IInv => OneSurvivingResource
  BY DEF IInv, OneSurvivingResource, Sound, SurvivorsNamed, OwnerHoldsRow, AnswersMatchRow,
         Owner, TypeOK
<1> QED BY <1>1, AlwaysInv, PTL

\* All successful answers are the one response of a creation run for the body
\* the caller sent.
THEOREM AnswersAgree == Spec => []SameAnswer
<1>1. IInv => SameAnswer
  BY DEF IInv, SameAnswer, Sound, AnswersMatchRow, CompletedRowSound
<1> QED BY <1>1, AlwaysInv, PTL
=============================================================================
