--------------------------- MODULE Transfers_proofs ---------------------------
(* Proofs about Transfers, for any transfers, uploads, contents, requests   *)
(* and quota, however many failures; and, at the end, about TransferUpload, *)
(* for a file of any number of parts, however many faults.                  *)
EXTENDS Transfers, TransferUpload, FiniteSetTheorems, TLAPS

USE TransfersAssumption, NothingAssumption, WorkerAssumption, BoundsAssumption

\* What counts against the quota and was never deleted.
InUse(t) == row[t].status \notin {"absent", "deleted"} /\ ~row[t].deleted_at

DeletedIsMarked(t) == row[t].status = "deleted" => row[t].deleted_at

BytesKept(t) == row[t].status = "ready" /\ object[t] = Nothing => t \in erased

\* An upload that was opened is of a transfer that exists.
UploadSound(u) ==
    /\ upload[u].parts # Nothing => upload[u].state # "unused"
    /\ upload[u].state # "unused" =>
         upload[u].of \in Transfers /\ Exists(upload[u].of)

\* What the handler's step relies on, though it looked before its last await: a
\* completion is about an upload of its own transfer, and one that has found
\* the object will only miss it after a deletion.
HandlerSound(r) ==
    /\ r.step # "idle" => r.transfer \in Transfers /\ Exists(r.transfer)
    /\ r.step = "assemble" =>
         /\ r.upload \in Uploads /\ upload[r.upload].state # "unused"
         /\ upload[r.upload].of = r.transfer
         /\ r.content # Nothing
    /\ r.step = "mark" => object[r.transfer] # Nothing \/ r.transfer \in erased

IInv ==
    /\ TypeOK
    /\ QuotaHonoured
    /\ \A t \in Transfers : DeletedIsMarked(t) /\ BytesKept(t)
    /\ \A u \in Uploads : UploadSound(u)
    /\ \A t \in todo \cup due : Exists(t)
    /\ \A q \in Agents : HandlerSound(request[q])

-----------------------------------------------------------------------------
LEMMA IdleSound == Idle \in Request /\ Idle.step = "idle"
BY DEF Idle, Request, NoRow, Row, Statuses

LEMMA InitInv == Init => IInv
<1> SUFFICES ASSUME Init PROVE IInv
  OBVIOUS
<1>1. NoRow \in Row /\ NoRow.status = "absent"
  BY DEF NoRow, Row, Statuses
<1>2. TypeOK
  BY <1>1, IdleSound DEF Init, TypeOK, Upload, At
<1>3. QuotaHonoured
  <2>1. {t \in Consuming : ~row[t].deleted_at} = {}
    BY <1>1 DEF Init, Consuming
  <2>2. Cardinality({t \in Consuming : ~row[t].deleted_at}) = 0
    BY <2>1, FS_EmptySet
  <2>3. Quota \in Nat
    OBVIOUS
  <2> QED BY <2>2, <2>3 DEF QuotaHonoured
<1> QED
  BY <1>1, <1>2, <1>3, IdleSound
     DEF Init, IInv, DeletedIsMarked, BytesKept, UploadSound, HandlerSound

\* The quota is kept when no transfer but counted ones count after a step.
LEMMA QuotaKept ==
    ASSUME QuotaHonoured, \A t \in Transfers : InUse(t)' => InUse(t)
    PROVE  QuotaHonoured'
<1> DEFINE S == {t \in Consuming : ~row[t].deleted_at}
           T == {t \in Consuming' : ~row'[t].deleted_at}
<1>1. IsFiniteSet(S)
  BY FS_Subset DEF Consuming
<1>2. T \subseteq S
  BY DEF Consuming, InUse
<1>3. Cardinality(T) <= Cardinality(S)
  BY <1>1, <1>2, FS_Subset
<1>4. Cardinality(S) \in Nat /\ Cardinality(T) \in Nat
  BY <1>1, <1>2, FS_Subset, FS_CardinalityType
<1> QED BY <1>3, <1>4 DEF QuotaHonoured

\* A new transfer takes the unit the check under the lock has found free.
LEMMA QuotaAfterCreate ==
    ASSUME TypeOK, NEW t \in Transfers, Create(t)
    PROVE  QuotaHonoured'
<1> DEFINE T == {s \in Consuming' : ~row'[s].deleted_at}
<1>1. IsFiniteSet(Consuming)
  BY FS_Subset DEF Consuming
<1>2. T \subseteq Consuming \cup {t}
  BY DEF Create, Consuming, TypeOK
<1>3. /\ IsFiniteSet(Consuming \cup {t})
      /\ Cardinality(Consuming \cup {t}) <= Cardinality(Consuming) + 1
  <2>1. /\ IsFiniteSet(Consuming \cup {t})
        /\ Cardinality(Consuming \cup {t}) =
             IF t \in Consuming THEN Cardinality(Consuming) ELSE Cardinality(Consuming) + 1
    BY <1>1, FS_AddElement, Zenon
  <2>2. Cardinality(Consuming) \in Nat
    BY <1>1, FS_CardinalityType
  <2> QED BY <2>1, <2>2
<1>4. Cardinality(T) <= Cardinality(Consuming \cup {t})
  BY <1>2, <1>3, FS_Subset
<1>5. Cardinality(Consuming) + 1 <= Quota
  BY DEF Create
<1>6. /\ Cardinality(T) \in Nat /\ Cardinality(Consuming) \in Nat
      /\ Cardinality(Consuming \cup {t}) \in Nat
  BY <1>1, <1>2, <1>3, FS_Subset, FS_CardinalityType
<1> QED BY <1>3, <1>4, <1>5, <1>6 DEF QuotaHonoured

-----------------------------------------------------------------------------
(* Every step writes at most one handler, r of q, and moves rows, objects    *)
(* and uploads on without ever losing what another handler relies on.        *)
RowsMoveOn ==
    /\ row' \in [Transfers -> Row]
    /\ \A t \in Transfers : /\ Exists(t) => Exists(t)'
                            /\ DeletedIsMarked(t)'

ObjectsMoveOn ==
    /\ object' \in [Transfers -> Contents \cup {Nothing}]
    /\ erased \subseteq erased' /\ erased' \subseteq Transfers
    /\ \A t \in Transfers :
         object[t] # Nothing \/ t \in erased => object'[t] # Nothing \/ t \in erased'

UploadsMoveOn ==
    /\ upload' \in [Uploads -> Upload]
    /\ \A u \in Uploads : upload[u].state # "unused" =>
         upload'[u].state # "unused" /\ upload'[u].of = upload[u].of

RestTyped ==
    /\ urls' \subseteq Transfers \X Contents
    /\ todo' \subseteq todo \cup due
    /\ due' \subseteq due \cup {t \in Transfers : Exists(t)}
    /\ failures' \in 0..MaxFailures

LEMMA MoveOn ==
    ASSUME IInv, RowsMoveOn, ObjectsMoveOn, UploadsMoveOn, RestTyped,
           QuotaHonoured',
           \A t \in Transfers : BytesKept(t)',
           \A u \in Uploads : UploadSound(u)',
           NEW q \in Agents, NEW r \in Request,
           request' = [request EXCEPT ![q] = r],
           HandlerSound(r)'
    PROVE  IInv'
<1>1. /\ request' \in [Agents -> Request]
      /\ request'[q] = r
      /\ \A p \in Agents : p # q => request'[p] = request[p]
  BY DEF IInv, TypeOK
<1>2. ASSUME NEW p \in Agents PROVE HandlerSound(request[p])'
  <2>1. CASE p = q
    BY <1>1, <2>1 DEF HandlerSound, Exists
  <2>2. CASE p # q
    <3>1. HandlerSound(request[p]) /\ request'[p] = request[p]
      BY <1>1, <2>2 DEF IInv
    <3> QED
      BY <3>1 DEF HandlerSound, RowsMoveOn, ObjectsMoveOn, UploadsMoveOn, Exists
  <2> QED BY <2>1, <2>2
<1>3. TypeOK'
  BY <1>1, <1>2 DEF IInv, TypeOK, RowsMoveOn, ObjectsMoveOn, UploadsMoveOn, RestTyped,
     HandlerSound, At, Exists
<1>4. \A t \in (todo \cup due)' : Exists(t)'
  BY DEF IInv, TypeOK, RestTyped, RowsMoveOn
<1> QED BY <1>2, <1>3, <1>4 DEF IInv, RowsMoveOn

\* The pieces for the many steps that leave rows or storage alone.
LEMMA SameRows ==
    ASSUME IInv, UNCHANGED row
    PROVE  RowsMoveOn /\ QuotaHonoured'
BY QuotaKept DEF IInv, TypeOK, RowsMoveOn, DeletedIsMarked, InUse, Exists

LEMMA SameStorage ==
    ASSUME IInv, UNCHANGED <<object, erased>>
    PROVE  ObjectsMoveOn
BY DEF IInv, TypeOK, ObjectsMoveOn

LEMMA SameUploads ==
    ASSUME IInv, UNCHANGED upload, RowsMoveOn
    PROVE  UploadsMoveOn /\ \A u \in Uploads : UploadSound(u)'
BY DEF IInv, TypeOK, UploadsMoveOn, UploadSound, RowsMoveOn, Exists

LEMMA SameBytes ==
    ASSUME IInv, UNCHANGED row, ObjectsMoveOn
    PROVE  \A t \in Transfers : BytesKept(t)'
BY DEF IInv, BytesKept, ObjectsMoveOn

LEMMA SameRest ==
    ASSUME IInv, UNCHANGED urls, UNCHANGED workerVars
    PROVE  RestTyped
BY DEF IInv, TypeOK, RestTyped, workerVars

\* A step that changes nothing but one handler and the worker's list.
LEMMA HandlerAlone ==
    ASSUME IInv, UNCHANGED row, UNCHANGED storageVars,
           todo' \subseteq todo, due' = due, failures' \in 0..MaxFailures,
           NEW q \in Agents, NEW r \in Request,
           request' = [request EXCEPT ![q] = r],
           HandlerSound(r)
    PROVE  IInv'
<1>1. UNCHANGED <<object, erased>> /\ UNCHANGED upload /\ UNCHANGED urls
  BY DEF storageVars
<1>2. HandlerSound(r)'
  BY <1>1 DEF HandlerSound, Exists
<1>3. RestTyped
  BY <1>1 DEF IInv, TypeOK, RestTyped
<1> QED
  BY <1>1, <1>2, <1>3, MoveOn, SameRows, SameStorage, SameUploads, SameBytes

\* The handler as a record: going on, being loaded, being given back.
LEMMA GotoRecord ==
    ASSUME IInv, NEW q \in Agents,
           NEW s \in {"head", "mark", "mark_deleted"}, Goto(q, s)
    PROVE  \E r \in Request :
             /\ request' = [request EXCEPT ![q] = r]
             /\ r.step = s /\ r.transfer = request[q].transfer
<1> DEFINE r == [request[q] EXCEPT !.step = s]
<1>1. request[q] \in Request
  BY DEF IInv, TypeOK
<1>2. r \in Request /\ r.step = s /\ r.transfer = request[q].transfer
  BY <1>1 DEF Request
<1>3. request' = [request EXCEPT ![q] = r]
  BY DEF Goto
<1> QED BY <1>2, <1>3

LEMMA BegunRecord ==
    ASSUME IInv, NEW t \in Transfers, NEW s \in {"initiate", "head", "list"}
    PROVE  /\ Handling(t, s) \in Request /\ Loaded(t, s) \in Request
           /\ Handling(t, s).step = s /\ Handling(t, s).transfer = t
           /\ Loaded(t, s).step = s /\ Loaded(t, s).transfer = t
<1>1. row[t] \in Row
  BY DEF IInv, TypeOK
<1> QED BY <1>1, IdleSound DEF Handling, Loaded, Idle, Request

LEMMA IdleHandler == HandlerSound(Idle) /\ HandlerSound(Idle)'
BY IdleSound DEF HandlerSound

-----------------------------------------------------------------------------
\* Steps of a handler that only reads, or ends.
LEMMA ReadingStep ==
    ASSUME IInv, NEW q \in Agents,
           InitiateRefused(q) \/ AssembleRefused(q) \/ Head(q) \/ ListUploads(q)
             \/ (\E u \in Uploads : AbortRefused(q, u)) \/ Fail(q)
    PROVE  IInv'
<1>0. request[q] \in Request /\ HandlerSound(request[q])
  BY DEF IInv, TypeOK
<1>1. CASE Finish(q)
  <2>1. /\ UNCHANGED row /\ UNCHANGED storageVars
        /\ todo' \subseteq todo /\ due' = due /\ failures' \in 0..MaxFailures
    BY <1>1, IdleSound
       DEF InitiateRefused, AssembleRefused, Head, ListUploads, AbortRefused, Fail, workerVars,
           IInv, TypeOK
  <2> QED BY <1>1, <2>1, IdleSound, IdleHandler, HandlerAlone DEF Finish
<1>2. CASE Head(q) /\ Goto(q, "mark") /\ Verified(q)
  <2>1. PICK r \in Request : /\ request' = [request EXCEPT ![q] = r]
                             /\ r.step = "mark" /\ r.transfer = request[q].transfer
    BY <1>2, GotoRecord
  <2>2. HandlerSound(r)
    BY <1>0, <1>2, <2>1 DEF Head, Verified, At, HandlerSound
  <2> QED BY <1>2, <2>1, <2>2, HandlerAlone DEF Head, workerVars, IInv, TypeOK
<1>3. CASE ListUploads(q)
  <2> DEFINE r == [[request[q] EXCEPT !.step = "abort"] EXCEPT
                      !.listed = OpenUploads(request[q].transfer)]
  <2>1. r \in Request /\ r.step = "abort" /\ r.transfer = request[q].transfer
    BY <1>0 DEF Request, OpenUploads
  <2>2. request' = [request EXCEPT ![q] = r]
    BY <1>3 DEF ListUploads, IInv, TypeOK
  <2>3. HandlerSound(r)
    BY <1>0, <1>3, <2>1 DEF ListUploads, At, HandlerSound
  <2> HIDE DEF r
  <2> QED BY <1>3, <2>1, <2>2, <2>3, HandlerAlone DEF ListUploads, workerVars, IInv, TypeOK
<1> QED
  BY <1>1, <1>2, <1>3 DEF InitiateRefused, AssembleRefused, Head, AbortRefused, Fail

LEMMA BeginStep ==
    ASSUME IInv, NEW q \in Requests, NEW t \in Transfers,
           BeginInitiate(q, t) \/ BeginComplete(q, t) \/ BeginDelete(q, t)
    PROVE  IInv'
<1>1. q \in Agents /\ Exists(t) /\ UNCHANGED row /\ UNCHANGED storageVars
  BY DEF BeginInitiate, MayInitiate, BeginComplete, BeginDelete, Agents
<1>2. todo' \subseteq todo /\ due' = due /\ failures' \in 0..MaxFailures
  BY DEF BeginInitiate, BeginComplete, BeginDelete, workerVars, IInv, TypeOK
<1>3. \E r \in {Loaded(t, "initiate"), Loaded(t, "head"), Handling(t, "list")} :
        request' = [request EXCEPT ![q] = r]
  BY DEF BeginInitiate, BeginComplete, BeginDelete
<1>4. \A r \in {Loaded(t, "initiate"), Loaded(t, "head"), Handling(t, "list")} :
        r \in Request /\ HandlerSound(r)
  BY <1>1, BegunRecord DEF HandlerSound
<1> QED BY <1>1, <1>2, <1>3, <1>4, HandlerAlone

LEMMA BeginCompleteMultipartStep ==
    ASSUME IInv, NEW q \in Requests, NEW u \in Uploads, BeginCompleteMultipart(q, u)
    PROVE  IInv'
<1> DEFINE t == upload[u].of
           r == [Loaded(t, "assemble") EXCEPT !.upload = u, !.content = upload[u].parts]
<1>1. /\ upload[u].state # "unused" /\ upload[u].parts # Nothing
      /\ t \in Transfers /\ Exists(t)
  BY DEF BeginCompleteMultipart, IInv, UploadSound
<1>2. row[t] \in Row /\ upload[u].parts \in Contents \cup {Nothing}
  BY <1>1 DEF IInv, TypeOK, Upload
<1>3. /\ r \in Request /\ r.step = "assemble" /\ r.transfer = t
      /\ r.upload = u /\ r.content = upload[u].parts
  BY <1>1, <1>2, IdleSound DEF Loaded, Handling, Idle, Request
<1>4. HandlerSound(r)
  BY <1>1, <1>3 DEF HandlerSound
<1>5. q \in Agents /\ request' = [request EXCEPT ![q] = r]
  BY DEF BeginCompleteMultipart, Agents
<1> HIDE DEF r
<1> QED
  BY <1>3, <1>4, <1>5, HandlerAlone DEF BeginCompleteMultipart, workerVars, IInv, TypeOK

-----------------------------------------------------------------------------
\* A row's field written after an await.
LEMMA MarkReadyStep == ASSUME IInv, NEW q \in Agents, MarkReady(q) PROVE IInv'
<1> DEFINE t == request[q].transfer
<1>1. t \in Transfers /\ Exists(t) /\ (object[t] # Nothing \/ t \in erased)
  BY DEF MarkReady, At, IInv, HandlerSound
<1>2. row' = row \/ row' = [row EXCEPT ![t].status = "ready"]
  BY DEF MarkReady
<1>3. UNCHANGED <<object, erased>> /\ UNCHANGED upload /\ UNCHANGED urls /\ UNCHANGED workerVars
  BY DEF MarkReady, storageVars
<1>4. RowsMoveOn /\ \A s \in Transfers : InUse(s)' => InUse(s)
  BY <1>1, <1>2, SMTT(30)
     DEF IInv, TypeOK, Row, Statuses, RowsMoveOn, DeletedIsMarked, InUse, Exists
<1>5. \A s \in Transfers : BytesKept(s)'
  BY <1>1, <1>2, <1>3 DEF IInv, TypeOK, BytesKept
<1>6. QuotaHonoured'
  BY <1>4, QuotaKept DEF IInv
<1> QED
  BY <1>3, <1>4, <1>5, <1>6, IdleSound, IdleHandler, MoveOn, SameStorage, SameUploads, SameRest
     DEF MarkReady, Finish

LEMMA MarkDeletedStep == ASSUME IInv, NEW q \in Agents, MarkDeleted(q) PROVE IInv'
<1> DEFINE t == request[q].transfer
<1>1. t \in Transfers
  BY DEF MarkDeleted, At, IInv, HandlerSound
<1>2. /\ row' \in [Transfers -> Row]
      /\ row'[t].status = "deleted" /\ row'[t].deleted_at
      /\ \A s \in Transfers : s # t => row'[s] = row[s]
  BY <1>1 DEF MarkDeleted, IInv, TypeOK, Row, Statuses
<1>3. UNCHANGED <<object, erased>> /\ UNCHANGED upload /\ UNCHANGED urls /\ UNCHANGED workerVars
  BY DEF MarkDeleted, storageVars
<1>4. RowsMoveOn /\ \A s \in Transfers : InUse(s)' => InUse(s)
  BY <1>2 DEF IInv, RowsMoveOn, DeletedIsMarked, InUse, Exists
<1>5. \A s \in Transfers : BytesKept(s)'
  BY <1>2, <1>3 DEF IInv, BytesKept
<1>6. QuotaHonoured'
  BY <1>4, QuotaKept DEF IInv
<1> QED
  BY <1>3, <1>4, <1>5, <1>6, IdleSound, IdleHandler, MoveOn, SameStorage, SameUploads, SameRest
     DEF MarkDeleted, Finish

LEMMA InitiateSingleStep ==
    ASSUME IInv, NEW q \in Agents, NEW c \in Contents, InitiateSingle(q, c)
    PROVE  IInv'
<1> DEFINE t == request[q].transfer
<1>1. t \in Transfers
  BY DEF InitiateSingle, At, IInv, HandlerSound
<1>2. row' = row \/ row' = [row EXCEPT ![t].content_md5 = c]
  BY DEF InitiateSingle
<1>3. /\ row' \in [Transfers -> Row]
      /\ \A s \in Transfers : row'[s].status = row[s].status
                              /\ row'[s].deleted_at = row[s].deleted_at
  BY <1>1, <1>2, SMTT(30) DEF IInv, TypeOK, Row
<1>4. RowsMoveOn /\ \A s \in Transfers : InUse(s)' => InUse(s)
  BY <1>3 DEF IInv, RowsMoveOn, DeletedIsMarked, InUse, Exists
<1>5. UNCHANGED <<object, erased>> /\ UNCHANGED upload /\ UNCHANGED workerVars
  BY DEF InitiateSingle
<1>6. \A s \in Transfers : BytesKept(s)'
  BY <1>3, <1>5 DEF IInv, BytesKept
<1>7. RestTyped
  BY <1>1 DEF InitiateSingle, IInv, TypeOK, RestTyped, workerVars
<1>8. QuotaHonoured'
  BY <1>4, QuotaKept DEF IInv
<1> QED
  BY <1>4, <1>5, <1>6, <1>7, <1>8, IdleSound, IdleHandler, MoveOn, SameStorage, SameUploads
     DEF InitiateSingle, Finish

-----------------------------------------------------------------------------
\* Uploads: opened for a transfer that exists, then only moving on.
LEMMA InitiateMultipartStep ==
    ASSUME IInv, NEW q \in Agents, NEW u \in Uploads, InitiateMultipart(q, u)
    PROVE  IInv'
<1> DEFINE t == request[q].transfer
<1>1. t \in Transfers /\ Exists(t)
  BY DEF InitiateMultipart, At, IInv, HandlerSound
<1>2. UNCHANGED row /\ UNCHANGED <<object, erased>> /\ UNCHANGED urls /\ UNCHANGED workerVars
  BY DEF InitiateMultipart
<1>3. [of |-> t, state |-> "open", parts |-> Nothing] \in Upload
  BY <1>1 DEF Upload
<1>4. /\ upload' \in [Uploads -> Upload]
      /\ upload'[u].of = t /\ upload'[u].state = "open"
      /\ \A v \in Uploads : v # u => upload'[v] = upload[v]
      /\ upload[u].state = "unused"
  BY <1>3 DEF InitiateMultipart, IInv, TypeOK
<1>5. UploadsMoveOn
  BY <1>4 DEF UploadsMoveOn
<1>6. \A v \in Uploads : UploadSound(v)'
  BY <1>1, <1>2, <1>4 DEF IInv, UploadSound, Exists
<1> QED
  BY <1>2, <1>5, <1>6, IdleSound, IdleHandler, MoveOn, SameRows, SameStorage, SameBytes, SameRest
     DEF InitiateMultipart, Finish

\* Its parts arrive, or it goes.
LEMMA UploadChange ==
    ASSUME IInv, UNCHANGED row, NEW u \in Uploads,
           \/ upload[u].state = "open" /\ upload' = [upload EXCEPT ![u].state = "gone"]
           \/ /\ upload[u].state = "open"
              /\ \E c \in Contents : upload' = [upload EXCEPT ![u].parts = c]
    PROVE  UploadsMoveOn /\ \A v \in Uploads : UploadSound(v)'
<1>1. /\ upload' \in [Uploads -> Upload]
      /\ upload'[u].of = upload[u].of /\ upload'[u].state # "unused"
      /\ upload[u].state # "unused"
      /\ \A v \in Uploads : v # u => upload'[v] = upload[v]
  BY SMTT(30) DEF IInv, TypeOK, Upload
<1>2. UploadsMoveOn
  BY <1>1 DEF UploadsMoveOn
<1>3. \A v \in Uploads : UploadSound(v)'
  BY <1>1 DEF IInv, UploadSound, Exists
<1> QED BY <1>2, <1>3

\* A step of nobody's handler.
LEMMA NoHandler ==
    ASSUME IInv, UNCHANGED request
    PROVE  /\ Worker \in Agents /\ request[Worker] \in Request
           /\ request' = [request EXCEPT ![Worker] = request[Worker]]
           /\ HandlerSound(request[Worker])
BY DEF IInv, TypeOK, Agents

LEMMA SoundMovesOn ==
    ASSUME NEW r, HandlerSound(r), RowsMoveOn, ObjectsMoveOn, UploadsMoveOn
    PROVE  HandlerSound(r)'
BY DEF HandlerSound, RowsMoveOn, ObjectsMoveOn, UploadsMoveOn, Exists

LEMMA UploadStep ==
    ASSUME IInv, NEW u \in Uploads, AbortStale(u) \/ \E c \in Contents : PutParts(u, c)
    PROVE  IInv'
<1>1. /\ UNCHANGED row /\ UNCHANGED <<object, erased>> /\ UNCHANGED urls /\ UNCHANGED workerVars
      /\ UNCHANGED request
  BY DEF AbortStale, PutParts
<1>2. UploadsMoveOn /\ \A v \in Uploads : UploadSound(v)'
  BY <1>1, UploadChange DEF AbortStale, Stale, PutParts
<1> QED
  BY <1>1, <1>2, NoHandler, SoundMovesOn, MoveOn, SameRows, SameStorage, SameBytes, SameRest

LEMMA AbortListedStep ==
    ASSUME IInv, NEW q \in Agents, NEW u \in Uploads, AbortListed(q, u)
    PROVE  IInv'
<1> DEFINE r == [request[q] EXCEPT !.listed = @ \ {u}]
<1>1. UNCHANGED row /\ UNCHANGED <<object, erased>> /\ UNCHANGED urls /\ UNCHANGED workerVars
  BY DEF AbortListed
<1>2. UploadsMoveOn /\ \A v \in Uploads : UploadSound(v)'
  BY <1>1, UploadChange DEF AbortListed
<1>3. request[q] \in Request /\ HandlerSound(request[q]) /\ request[q].step = "abort"
  BY DEF AbortListed, At, IInv, TypeOK
<1>4. r \in Request /\ r.step = "abort" /\ r.transfer = request[q].transfer
  BY <1>3 DEF Request
<1>5. HandlerSound(r)
  BY <1>3, <1>4 DEF HandlerSound
<1>6. request' = [request EXCEPT ![q] = r]
  BY DEF AbortListed
<1> HIDE DEF r
<1> QED
  BY <1>1, <1>2, <1>4, <1>5, <1>6, SoundMovesOn, MoveOn, SameRows, SameStorage, SameBytes,
     SameRest

-----------------------------------------------------------------------------
\* Objects: written whole, and erased only by a deletion, which is recorded.
LEMMA AssembleStep == ASSUME IInv, NEW q \in Agents, Assemble(q) PROVE IInv'
<1> DEFINE t == request[q].transfer
           u == request[q].upload
<1>1. /\ t \in Transfers /\ u \in Uploads
      /\ HandlerSound(request[q]) /\ request[q].content \in Contents
  BY DEF Assemble, At, IInv, TypeOK, Request, HandlerSound
<1>2. UNCHANGED row /\ UNCHANGED erased /\ UNCHANGED urls /\ UNCHANGED workerVars
  BY DEF Assemble
<1>3. ObjectsMoveOn
  BY <1>1, <1>2 DEF Assemble, IInv, TypeOK, ObjectsMoveOn
<1>4. UploadsMoveOn /\ \A v \in Uploads : UploadSound(v)'
  BY <1>1, <1>2, UploadChange DEF Assemble
<1>5. PICK r \in Request : /\ request' = [request EXCEPT ![q] = r]
                           /\ r.step = "head" /\ r.transfer = t
  BY GotoRecord DEF Assemble
<1>6. HandlerSound(r)'
  BY <1>1, <1>2, <1>5 DEF HandlerSound, Exists, Assemble, At
<1> QED BY <1>2, <1>3, <1>4, <1>5, <1>6, MoveOn, SameRows, SameBytes, SameRest

LEMMA EraseStep == ASSUME IInv, NEW q \in Agents, Erase(q) PROVE IInv'
<1> DEFINE t == request[q].transfer
<1>1. t \in Transfers /\ Exists(t)
  BY DEF Erase, At, IInv, HandlerSound
<1>2. UNCHANGED row /\ UNCHANGED upload /\ UNCHANGED urls /\ UNCHANGED workerVars
  BY DEF Erase
<1>3. ObjectsMoveOn
  BY <1>1 DEF Erase, IInv, TypeOK, ObjectsMoveOn
<1>4. PICK r \in Request : /\ request' = [request EXCEPT ![q] = r]
                           /\ r.step = "mark_deleted" /\ r.transfer = t
  BY GotoRecord DEF Erase
<1>5. HandlerSound(r)'
  BY <1>1, <1>2, <1>4 DEF HandlerSound, Exists
<1> QED BY <1>2, <1>3, <1>4, <1>5, MoveOn, SameRows, SameUploads, SameBytes, SameRest

LEMMA PutObjectStep ==
    ASSUME IInv, NEW t \in Transfers, NEW c \in Contents, PutObject(t, c)
    PROVE  IInv'
<1>1. UNCHANGED row /\ UNCHANGED upload /\ UNCHANGED urls /\ UNCHANGED workerVars
      /\ UNCHANGED request
  BY DEF PutObject
<1>2. ObjectsMoveOn
  BY DEF PutObject, IInv, TypeOK, ObjectsMoveOn
<1> QED
  BY <1>1, <1>2, NoHandler, SoundMovesOn, MoveOn, SameRows, SameUploads, SameBytes, SameRest

-----------------------------------------------------------------------------
LEMMA CreateStep == ASSUME IInv, NEW t \in Transfers, Create(t) PROVE IInv'
<1>1. /\ UNCHANGED <<object, erased>> /\ UNCHANGED upload /\ UNCHANGED urls
      /\ UNCHANGED workerVars /\ UNCHANGED request
  BY DEF Create, storageVars
<1>2. RowsMoveOn
  BY DEF Create, IInv, TypeOK, Row, Statuses, RowsMoveOn, DeletedIsMarked, Exists
<1>3. \A s \in Transfers : BytesKept(s)'
  BY <1>1 DEF Create, IInv, TypeOK, Row, BytesKept
<1>4. QuotaHonoured'
  BY QuotaAfterCreate DEF IInv
<1> QED
  BY <1>1, <1>2, <1>3, <1>4, NoHandler, SoundMovesOn, MoveOn, SameStorage, SameUploads, SameRest

\* Steps of the worker and of time.
LEMMA QuietStep ==
    ASSUME IInv, UNCHANGED <<row, object, upload, request, erased>>, RestTyped
    PROVE  IInv'
BY NoHandler, SoundMovesOn, MoveOn, SameRows, SameStorage, SameUploads, SameBytes

LEMMA WorkerStep ==
    ASSUME IInv,
           \/ \E t \in Transfers, c \in Contents : UrlExpires(t, c)
           \/ \E t \in Transfers : RetentionEnds(t)
           \/ BeginExpiry
    PROVE  IInv'
<1>1. UNCHANGED <<row, object, upload, request, erased>>
  BY DEF UrlExpires, RetentionEnds, BeginExpiry, storageVars
<1>2. RestTyped
  BY DEF UrlExpires, RetentionEnds, BeginExpiry, Expired, storageVars, workerVars, RestTyped,
     IInv, TypeOK
<1> QED BY <1>1, <1>2, QuietStep

LEMMA DeleteNextStep == ASSUME IInv, NEW t \in Transfers, DeleteNext(t) PROVE IInv'
<1>1. Worker \in Agents /\ UNCHANGED row /\ UNCHANGED storageVars
  BY DEF DeleteNext, Agents
<1>2. todo' \subseteq todo /\ due' = due /\ failures' \in 0..MaxFailures
  BY DEF DeleteNext, IInv, TypeOK
<1>3. Handling(t, "list") \in Request /\ HandlerSound(Handling(t, "list"))
  BY BegunRecord DEF DeleteNext, IInv, HandlerSound
<1> QED BY <1>1, <1>2, <1>3, HandlerAlone DEF DeleteNext

LEMMA StepInv == IInv /\ [Next]_vars => IInv'
<1> SUFFICES ASSUME IInv, [Next]_vars PROVE IInv'
  OBVIOUS
<1>1. CASE UNCHANGED vars
  BY <1>1, QuietStep, SameRest DEF vars, workerVars
<1>2. ASSUME NEW q \in Agents, Proceed(q) PROVE IInv'
  BY <1>2, InitiateSingleStep, InitiateMultipartStep, ReadingStep, AssembleStep, MarkReadyStep,
     AbortListedStep, EraseStep, MarkDeletedStep DEF Proceed
<1>3. CASE Expire
  BY <1>3, WorkerStep, DeleteNextStep DEF Expire
<1> QED
  BY <1>1, <1>2, <1>3, CreateStep, BeginStep, PutObjectStep, UploadStep, WorkerStep,
     BeginCompleteMultipartStep, ReadingStep DEF Next

LEMMA AlwaysInv == Spec => []IInv
BY InitInv, StepInv, PTL DEF Spec

-----------------------------------------------------------------------------
\* The rows, storage and the handlers keep their types, and a handler in flight
\* is about a transfer that exists.
THEOREM TypeCorrect == Spec => []TypeOK
<1>1. IInv => TypeOK
  BY DEF IInv
<1> QED BY <1>1, AlwaysInv, PTL

\* create_transfer's check under the bucket's lock is enough for the quota:
\* nothing but a creation adds to what it counts, deleted rows aside.
THEOREM QuotaIsHonoured == Spec => []QuotaHonoured
<1>1. IInv => QuotaHonoured
  BY DEF IInv
<1> QED BY <1>1, AlwaysInv, PTL

\* A ready transfer has its bytes in storage until a deletion removes them,
\* whatever completes, fails or goes stale beside it.
THEOREM BytesAreKept == Spec => []OnlyDeletionLosesBytes
<1>1. IInv => OnlyDeletionLosesBytes
  BY DEF IInv, BytesKept, OnlyDeletionLosesBytes
<1> QED BY <1>1, AlwaysInv, PTL

-----------------------------------------------------------------------------
\* An upload that a completion would join is open: its transfer is not frozen.
LEMMA AssembleNeedsOpen ==
    ASSUME IInv, NEW q \in Agents, Assemble(q)
    PROVE  request[q].upload \in OpenUploads(request[q].transfer)
BY DEF IInv, HandlerSound, Assemble, At, OpenUploads

LEMMA FrozenObject ==
    ASSUME IInv, Next, NEW t \in Transfers, Frozen(t)
    PROVE  object'[t] \in {object[t], Nothing}
<1>1. CASE \E s \in Transfers, c \in Contents : PutObject(s, c)
  BY <1>1 DEF PutObject, Frozen, IInv, TypeOK
<1>2. CASE \E q \in Agents : Assemble(q)
  <2>1. PICK q \in Agents : Assemble(q)
    BY <1>2
  <2>2. request[q].transfer # t
    BY <2>1, AssembleNeedsOpen DEF Frozen
  <2> QED BY <2>1, <2>2 DEF Assemble, IInv, TypeOK
<1>3. CASE \E q \in Agents : Erase(q)
  BY <1>3 DEF Erase, IInv, TypeOK
<1>4. CASE UNCHANGED object
  BY <1>4
<1> QED
  BY <1>1, <1>2, <1>3, <1>4
     DEF Next, Proceed, Expire, Create, BeginInitiate, PutParts, UrlExpires, BeginComplete,
         BeginCompleteMultipart, BeginDelete, InitiateSingle, InitiateMultipart,
         InitiateRefused, AssembleRefused, Head, MarkReady, ListUploads, AbortListed,
         AbortRefused, MarkDeleted, Fail, RetentionEnds, BeginExpiry, DeleteNext, AbortStale,
         storageVars

LEMMA FrozenUrls ==
    ASSUME IInv, Next, NEW t \in Transfers, Frozen(t)
    PROVE  \A c \in Contents : <<t, c>> \notin urls'
<1>1. ASSUME NEW q \in Agents, NEW d \in Contents, InitiateSingle(q, d)
      PROVE  \A c \in Contents : <<t, c>> \notin urls'
  <2>1. request[q].transfer # t
    BY <1>1 DEF InitiateSingle, Frozen
  <2> QED BY <1>1, <2>1 DEF InitiateSingle, Frozen
<1>2. CASE urls' \subseteq urls
  BY <1>2 DEF Frozen
<1> QED
  BY <1>1, <1>2
     DEF Next, Proceed, Expire, Create, BeginInitiate, PutObject, PutParts, UrlExpires,
         BeginComplete, BeginCompleteMultipart, BeginDelete, InitiateMultipart,
         InitiateRefused, Assemble, AssembleRefused, Head, MarkReady, ListUploads, AbortListed,
         AbortRefused, Erase, MarkDeleted, Fail, RetentionEnds, BeginExpiry, DeleteNext,
         AbortStale, storageVars

LEMMA FrozenUploads ==
    ASSUME IInv, Next, NEW t \in Transfers, Frozen(t)
    PROVE  OpenUploads(t)' = {}
<1>1. \A v \in Uploads : ~(upload[v].state = "open" /\ upload[v].of = t)
  BY DEF Frozen, OpenUploads
<1>2. ASSUME NEW q \in Agents, NEW u \in Uploads, InitiateMultipart(q, u)
      PROVE  \A v \in Uploads : ~(upload'[v].state = "open" /\ upload'[v].of = t)
  <2>1. request[q].transfer # t
    BY <1>2 DEF InitiateMultipart, Frozen
  <2> QED BY <1>1, <1>2, <2>1 DEF InitiateMultipart, IInv, TypeOK
<1>3. ASSUME NEW u \in Uploads,
             \/ upload' = [upload EXCEPT ![u].state = "gone"]
             \/ \E c \in Contents : upload' = [upload EXCEPT ![u].parts = c]
      PROVE  \A v \in Uploads : ~(upload'[v].state = "open" /\ upload'[v].of = t)
  BY <1>1, <1>3 DEF IInv, TypeOK, Upload
<1>4. ASSUME NEW q \in Agents, Assemble(q)
      PROVE  \A v \in Uploads : ~(upload'[v].state = "open" /\ upload'[v].of = t)
  <2>1. request[q].upload \in Uploads
    BY <1>4, AssembleNeedsOpen DEF OpenUploads
  <2> QED BY <1>3, <1>4, <2>1 DEF Assemble
<1>5. CASE UNCHANGED upload
  BY <1>1, <1>5 DEF OpenUploads
<1>6. \/ UNCHANGED upload
      \/ \A v \in Uploads : ~(upload'[v].state = "open" /\ upload'[v].of = t)
  BY <1>2, <1>3, <1>4
     DEF Next, Proceed, Expire, Create, BeginInitiate, PutObject, PutParts, UrlExpires,
         BeginComplete, BeginCompleteMultipart, BeginDelete, InitiateSingle, InitiateRefused,
         AssembleRefused, Head, MarkReady, ListUploads, AbortListed, AbortRefused, Erase,
         MarkDeleted, Fail, RetentionEnds, BeginExpiry, DeleteNext, AbortStale, storageVars
<1> QED BY <1>5, <1>6 DEF OpenUploads

\* Only begin_initiate's handler gets to the step that presigns, and it refuses a
\* finished transfer.
LEMMA FrozenRequests ==
    ASSUME IInv, Next, NEW t \in Transfers, Frozen(t), Finished(t)
    PROVE  \A q \in Agents : ~(At(q, "initiate")' /\ request'[q].transfer = t)
<1> DEFINE Initiating(r) == r.step = "initiate" /\ r.transfer = t
<1>1. request \in [Agents -> Request] /\ \A q \in Agents : ~Initiating(request[q])
  BY DEF IInv, TypeOK, Frozen, At
<1>2. ASSUME NEW q \in Agents, NEW r, request' = [request EXCEPT ![q] = r], ~Initiating(r)
      PROVE  \A p \in Agents : ~Initiating(request'[p])
  BY <1>1, <1>2
<1>3. ASSUME NEW q \in Agents, Finish(q)
      PROVE  \A p \in Agents : ~Initiating(request'[p])
  BY <1>2, <1>3, IdleSound DEF Finish
<1>4. ASSUME NEW q \in Agents, NEW s \in {"head", "mark", "mark_deleted"}, Goto(q, s)
      PROVE  \A p \in Agents : ~Initiating(request'[p])
  BY <1>2, <1>4, GotoRecord
<1>5. ASSUME NEW q \in Requests, NEW s \in Transfers, BeginInitiate(q, s)
      PROVE  \A p \in Agents : ~Initiating(request'[p])
  <2>1. s # t
    BY <1>5 DEF BeginInitiate, MayInitiate, Finished
  <2>2. ~Initiating(Loaded(s, "initiate"))
    BY <2>1, BegunRecord
  <2> QED BY <1>2, <1>5, <2>2 DEF BeginInitiate, Agents
<1>6. ASSUME NEW q \in Requests, NEW s \in Transfers, BeginComplete(q, s) \/ BeginDelete(q, s)
      PROVE  \A p \in Agents : ~Initiating(request'[p])
  <2>1. ~Initiating(Loaded(s, "head")) /\ ~Initiating(Handling(s, "list"))
    BY BegunRecord
  <2> QED BY <1>2, <1>6, <2>1 DEF BeginComplete, BeginDelete, Agents
<1>7. ASSUME NEW q \in Requests, NEW u \in Uploads, BeginCompleteMultipart(q, u)
      PROVE  \A p \in Agents : ~Initiating(request'[p])
  <2> DEFINE r == [Loaded(upload[u].of, "assemble") EXCEPT
                      !.upload = u, !.content = upload[u].parts]
  <2>1. r.step = "assemble"
    BY DEF Loaded, Handling, Idle
  <2>2. q \in Agents /\ request' = [request EXCEPT ![q] = r]
    BY <1>7 DEF BeginCompleteMultipart, Agents
  <2> HIDE DEF r
  <2> QED BY <1>2, <2>1, <2>2
<1>8. ASSUME NEW q \in Agents, ListUploads(q) \/ \E u \in Uploads : AbortListed(q, u)
      PROVE  \A p \in Agents : ~Initiating(request'[p])
  BY <1>1, <1>8 DEF ListUploads, AbortListed, At, Request
<1>9. ASSUME NEW s \in Transfers, DeleteNext(s)
      PROVE  \A p \in Agents : ~Initiating(request'[p])
  BY <1>2, <1>9, BegunRecord DEF DeleteNext, Agents
<1>10. ASSUME UNCHANGED request
       PROVE  \A p \in Agents : ~Initiating(request'[p])
  BY <1>1, <1>10
<1>11. \A q \in Agents : Proceed(q) \/ Fail(q) => \A p \in Agents : ~Initiating(request'[p])
  BY <1>3, <1>4, <1>8
     DEF Proceed, Fail, InitiateSingle, InitiateMultipart, InitiateRefused, Assemble,
         AssembleRefused, Head, MarkReady, AbortRefused, Erase, MarkDeleted
<1>12. \A p \in Agents : ~Initiating(request'[p])
  BY <1>5, <1>6, <1>7, <1>9, <1>10, <1>11
     DEF Next, Expire, Create, PutObject, PutParts, UrlExpires, RetentionEnds, BeginExpiry,
         AbortStale
<1> QED BY <1>12 DEF At

\* A finished transfer that has settled stays as it was uploaded, until its
\* object is removed: initiate refuses it, and what could still write is gone.
THEOREM FinishedStays == Spec => FinishedIsImmutable
<1> DEFINE Immutable ==
      \A t \in Transfers : Finished(t) /\ Frozen(t) /\ Finished(t)' =>
         /\ object'[t] \in {object[t], Nothing}
         /\ Frozen(t)'
<1>1. IInv /\ [Next]_vars => [Immutable]_vars
  BY FrozenObject, FrozenUrls, FrozenUploads, FrozenRequests DEF Frozen
<1>2. Spec => [][Immutable]_vars
  BY <1>1, AlwaysInv, PTL DEF Spec
<1> QED BY <1>2 DEF FinishedIsImmutable

-----------------------------------------------------------------------------
(* The client's upload: for any parts, upload ids and number of faults       *)
USE PartsAssumption, NoUploadAssumption, FaultsAssumption DEF Kept

\* A call that sends, refreshes or completes has a saved upload.
CallHasUpload == call \in {"send", "refresh", "completing"} => saved.upload # NoUpload

\* A completion is about an upload of which storage holds every part, unless it
\* was aborted; once joined, it stays so.
CompletionSound ==
    handler # Free =>
        /\ handler.step # "idle"
        /\ handler.upload \in UploadIds
        /\ Kept(handler.upload) => parts[handler.upload] = Parts
        /\ handler.step = "mark" => multipart[handler.upload] = "assembled"

ReadyIsWhole ==
    status = "ready" => \E u \in UploadIds : multipart[u] = "assembled" /\ parts[u] = Parts

UploadInv ==
    /\ UploadTypeOK
    /\ RecordedPartsAreStored
    /\ CallHasUpload
    /\ CompletionSound
    /\ ReadyIsWhole

-----------------------------------------------------------------------------
LEMMA UploadInitInv == UploadInit => UploadInv
BY DEF UploadInit, UploadInv, UploadTypeOK, RecordedPartsAreStored, CallHasUpload,
   CompletionSound, ReadyIsWhole,
   NothingSaved, Saved, Steps, Free, FirstTry

\* Giving up leaves the storage's and the server's parts of the invariant alone.
LEMMA GiveUpEffect ==
    ASSUME GiveUp
    PROVE  call' = "idle" /\ task' \in [Parts -> {"first", "refresh", "again"}]
BY DEF GiveUp, FirstTry

\* A step of the client alone preserves the invariant if what it saves is sound.
LEMMA ClientAlone ==
    ASSUME UploadInv,
           saved' \in Saved, valid' \subseteq Parts, call' \in Steps,
           task' \in [Parts -> {"first", "refresh", "again"}],
           RecordedPartsAreStored', CallHasUpload',
           faults' \in 0..MaxFaults,
           UNCHANGED multipartVars, UNCHANGED serverVars
    PROVE  UploadInv'
BY DEF UploadInv, UploadTypeOK, CompletionSound, ReadyIsWhole, multipartVars, serverVars, Free

\* So does a step that leaves the client alone, adds parts to storage and moves
\* uploads on without touching a joined one.
LEMMA OpenPreserves ==
    ASSUME UploadInv, NEW u \in UploadIds, Open(u)
    PROVE  /\ CompletionSound' /\ ReadyIsWhole'
           /\ multipart' \in [UploadIds -> {"unused", "open", "assembled", "aborted"}]
           /\ parts' = parts
           /\ status' = status /\ handler' = handler
BY DEF UploadInv, UploadTypeOK, Open, CompletionSound, ReadyIsWhole, serverVars, Free

LEMMA StorePreserves ==
    ASSUME UploadInv, NEW n \in Parts, saved.upload \in UploadIds, Store(n),
           UNCHANGED multipart, UNCHANGED serverVars
    PROVE  /\ CompletionSound' /\ ReadyIsWhole'
           /\ parts' \in [UploadIds -> SUBSET Parts]
           /\ parts'[saved.upload] = parts[saved.upload] \cup {n}
<1>1. parts \in [UploadIds -> SUBSET Parts]
  BY DEF UploadInv, UploadTypeOK
<1>2. /\ parts' \in [UploadIds -> SUBSET Parts]
      /\ parts'[saved.upload] = parts[saved.upload] \cup {n}
      /\ \A u \in UploadIds : parts[u] \subseteq parts'[u]
  BY <1>1 DEF Store
<1>3. CompletionSound'
  BY <1>1, <1>2 DEF UploadInv, CompletionSound, serverVars, Free
<1>4. ReadyIsWhole'
  BY <1>1, <1>2 DEF UploadInv, ReadyIsWhole, serverVars
<1> QED BY <1>2, <1>3, <1>4

\* The outcomes of a refresh: the parts storage holds are adopted, or the upload
\* is forgotten, or the call ends.
LEMMA RefreshEffect ==
    ASSUME UploadInv, saved.upload \in UploadIds, NEW asked \in SUBSET Parts, Refresh(asked)
    PROVE  /\ saved' \in Saved /\ valid' \subseteq Parts /\ call' \in Steps
           /\ task' \in [Parts -> {"first", "refresh", "again"}]
           /\ call' # "idle" => saved'.upload # NoUpload
           /\ Kept(saved'.upload) => /\ saved'.upload = saved.upload
                                     /\ saved'.done \subseteq parts[saved.upload]
<1>1. saved \in Saved /\ parts[saved.upload] \in SUBSET Parts
  BY DEF UploadInv, UploadTypeOK
<1>2. CASE ~(saved' = Adopted(saved.upload) /\ call' = "send")
  <2>1. GiveUp
    BY <1>2 DEF Refresh, Forget
  <2>2. \/ saved' = NothingSaved /\ valid' = {}
        \/ UNCHANGED <<saved, valid>>
    BY <1>2 DEF Refresh, Forget
  <2>3. NothingSaved \in Saved /\ NothingSaved.upload = NoUpload
    BY DEF NothingSaved, Saved
  <2> QED
    BY <1>1, <2>1, <2>2, <2>3, GiveUpEffect
       DEF UploadInv, UploadTypeOK, Steps, RecordedPartsAreStored
<1>3. CASE saved' = Adopted(saved.upload) /\ call' = "send"
  <2>1. /\ saved' \in Saved
        /\ saved'.upload = saved.upload
        /\ saved'.done = saved.done \cup parts[saved.upload]
    BY <1>1, <1>3 DEF Adopted, Saved
  <2>2. Kept(saved.upload) => saved.done \subseteq parts[saved.upload]
    BY DEF UploadInv, RecordedPartsAreStored
  <2>3. valid' \subseteq Parts /\ task' \in [Parts -> {"first", "refresh", "again"}]
    BY <1>1, <1>3, GiveUpEffect DEF UploadInv, UploadTypeOK, Refresh, Forget
  <2> QED BY <1>3, <2>1, <2>2, <2>3 DEF Steps
<1> QED BY <1>2, <1>3

-----------------------------------------------------------------------------
LEMMA ClientStepInv == ASSUME UploadInv, ClientStep PROVE UploadInv'
<1> USE DEF Steps
<1>1. CASE Start
  BY <1>1, ClientAlone DEF Start, UploadInv, UploadTypeOK, RecordedPartsAreStored, CallHasUpload,
     FirstTry,
     multipartVars
<1>2. CASE AlreadyReady
  BY <1>2, ClientAlone, GiveUpEffect DEF AlreadyReady, UploadInv, UploadTypeOK,
     RecordedPartsAreStored,
     CallHasUpload, multipartVars
<1>3. ASSUME NEW u \in UploadIds, Initiate(u) PROVE UploadInv'
  <2>1. saved' \in Saved /\ saved'.upload = u /\ saved'.done = {}
    BY <1>3 DEF Initiate, Fresh, Saved
  <2>2. UploadTypeOK'
    BY <1>3, <2>1, OpenPreserves DEF Initiate, UploadInv, UploadTypeOK
  <2> QED
    BY <1>3, <2>1, <2>2, OpenPreserves DEF Initiate, UploadInv, RecordedPartsAreStored,
       CallHasUpload
<1>4. CASE RefreshBeforeSending
  <2>1. saved.upload \in UploadIds
    BY <1>4 DEF RefreshBeforeSending, UploadInv, UploadTypeOK, CallHasUpload, Saved
  <2>2. Pending \in SUBSET Parts
    BY DEF Pending
  <2> QED
    BY <1>4, <2>1, <2>2, ClientAlone, RefreshEffect
       DEF RefreshBeforeSending, UploadInv, UploadTypeOK, RecordedPartsAreStored, CallHasUpload,
           multipartVars
<1>5. CASE SendComplete
  <2>1. saved.upload \in UploadIds /\ saved.done = Parts
    BY <1>5 DEF SendComplete, AllSent, Pending, UploadInv, UploadTypeOK, CallHasUpload, Saved
  <2>2. Kept(saved.upload) => parts[saved.upload] = Parts
    BY <2>1 DEF UploadInv, UploadTypeOK, RecordedPartsAreStored
  <2>3. CompletionSound'
    BY <1>5, <2>1, <2>2 DEF SendComplete, CompletionSound, multipartVars
  <2> QED
    BY <1>5, <2>1, <2>3 DEF SendComplete, UploadInv, UploadTypeOK, RecordedPartsAreStored,
       CallHasUpload,
       ReadyIsWhole, multipartVars
<1> QED BY <1>1, <1>2, <1>3, <1>4, <1>5 DEF ClientStep

\* A part's task runs only in a call that has an upload.
LEMMA SendingUpload ==
    ASSUME UploadInv, NEW n \in Parts, Sending(n)
    PROVE  saved.upload \in UploadIds /\ saved \in Saved
BY DEF UploadInv, UploadTypeOK, Sending, CallHasUpload, Saved

LEMMA PartStepInv == ASSUME UploadInv, NEW n \in Parts, PartStep(n) PROVE UploadInv'
<1> USE DEF Steps
<1>1. CASE PutPart(n)
  <2>1. saved.upload \in UploadIds /\ saved \in Saved
    BY <1>1, SendingUpload DEF PutPart
  <2>2. saved' \in Saved /\ saved'.upload = saved.upload /\ saved'.done = saved.done \cup {n}
    BY <1>1, <2>1 DEF PutPart, Saved
  <2>3. /\ CompletionSound' /\ ReadyIsWhole'
        /\ parts' \in [UploadIds -> SUBSET Parts]
        /\ parts'[saved.upload] = parts[saved.upload] \cup {n}
    BY <1>1, <2>1, StorePreserves DEF PutPart
  <2>4. RecordedPartsAreStored'
    BY <1>1, <2>1, <2>2, <2>3 DEF PutPart, UploadInv, RecordedPartsAreStored
  <2> QED
    BY <1>1, <2>1, <2>2, <2>3, <2>4 DEF PutPart, UploadInv, UploadTypeOK, CallHasUpload, serverVars
<1>2. CASE UrlRefused(n)
  BY <1>2, ClientAlone, GiveUpEffect DEF UrlRefused, UploadInv, UploadTypeOK,
     RecordedPartsAreStored,
     CallHasUpload, multipartVars
<1>3. CASE PutRefused(n)
  BY <1>3, ClientAlone, GiveUpEffect DEF PutRefused, UploadInv, UploadTypeOK,
     RecordedPartsAreStored,
     CallHasUpload, multipartVars
<1>4. CASE RefreshPart(n)
  BY <1>4, SendingUpload, ClientAlone, RefreshEffect
     DEF RefreshPart, UploadInv, UploadTypeOK, RecordedPartsAreStored, CallHasUpload, multipartVars
<1> QED BY <1>1, <1>2, <1>3, <1>4 DEF PartStep

LEMMA ServerStepInv == ASSUME UploadInv, ServerStep PROVE UploadInv'
<1> USE DEF Steps, Free
<1>1. CASE JoinParts
  <2>1. /\ multipart \in [UploadIds -> {"unused", "open", "assembled", "aborted"}]
        /\ handler.upload \in UploadIds /\ handler.upload # NoUpload /\ handler # Free
    BY <1>1 DEF JoinParts, UploadInv, UploadTypeOK, CompletionSound
  <2>2. /\ multipart' \in [UploadIds -> {"unused", "open", "assembled", "aborted"}]
        /\ \A u \in UploadIds : multipart[u] # "open" => multipart'[u] = multipart[u]
        /\ \A u \in UploadIds : multipart[u] = "aborted" <=> multipart'[u] = "aborted"
    BY <1>1, <2>1 DEF JoinParts, Known
  <2>3. /\ handler'.upload = handler.upload /\ handler'.step \in {"mark", "failed"}
        /\ handler' \in [step   : {"idle", "assemble", "mark", "done", "failed"},
                         upload : UploadIds \cup {NoUpload}]
        /\ handler'.step = "mark" => multipart'[handler.upload] = "assembled"
    BY <1>1, <2>1 DEF JoinParts, Known, UploadInv, UploadTypeOK
  <2>4. UploadTypeOK'
    BY <1>1, <2>2, <2>3 DEF JoinParts, UploadInv, UploadTypeOK, clientVars
  <2>5. RecordedPartsAreStored' /\ CallHasUpload'
    BY <1>1, <2>2 DEF JoinParts, UploadInv, UploadTypeOK, RecordedPartsAreStored, CallHasUpload,
       Saved, clientVars
  <2>6. CompletionSound'
    BY <1>1, <2>1, <2>2, <2>3 DEF JoinParts, UploadInv, CompletionSound
  <2>7. ReadyIsWhole'
    BY <1>1, <2>2 DEF JoinParts, UploadInv, ReadyIsWhole
  <2> QED BY <2>4, <2>5, <2>6, <2>7 DEF UploadInv
<1>2. CASE MarkUploaded
  BY <1>2 DEF MarkUploaded, UploadInv, UploadTypeOK, RecordedPartsAreStored, CallHasUpload,
     CompletionSound,
     ReadyIsWhole, clientVars, multipartVars
<1>3. CASE Answer
  <2>1. /\ saved' \in Saved /\ valid' \subseteq Parts /\ call' \in Steps
        /\ task' \in [Parts -> {"first", "refresh", "again"}]
        /\ RecordedPartsAreStored' /\ CallHasUpload'
    <3>1. NothingSaved \in Saved /\ NothingSaved.upload = NoUpload
      BY DEF NothingSaved, Saved
    <3>2. CASE call = "completing"
      <4>1. GiveUp /\ ((saved' = NothingSaved /\ valid' = {}) \/ UNCHANGED <<saved, valid>>)
        BY <1>3, <3>2 DEF Answer
      <4> QED
        BY <1>3, <3>1, <4>1, GiveUpEffect DEF Answer, UploadInv, UploadTypeOK,
           RecordedPartsAreStored,
           CallHasUpload, multipartVars
    <3>3. CASE call # "completing"
      BY <1>3, <3>3 DEF Answer, UploadInv, UploadTypeOK, RecordedPartsAreStored, CallHasUpload,
         clientVars,
         multipartVars
    <3> QED BY <3>2, <3>3
  <2> QED
    BY <1>3, <2>1 DEF Answer, UploadInv, UploadTypeOK, CompletionSound, ReadyIsWhole, multipartVars
<1> QED BY <1>1, <1>2, <1>3 DEF ServerStep

LEMMA ExpireEffect ==
    ASSUME UploadInv, ExpireUrls
    PROVE  /\ saved' \in Saved /\ valid' \subseteq Parts
           /\ saved'.upload = saved.upload /\ saved'.done = saved.done
BY DEF UploadInv, UploadTypeOK, ExpireUrls, Saved

LEMMA FaultStepInv == ASSUME UploadInv, FaultStep PROVE UploadInv'
<1> USE DEF Steps, Free
<1>0. faults' \in 0..MaxFaults
  BY DEF FaultStep, CutShort, InitiateLost, PutLost, ServerFails, UrlsExpireEarly, AbortStaleUpload,
     Fault, UploadInv, UploadTypeOK
<1>1. CASE CutShort
  BY <1>0, <1>1, ClientAlone, GiveUpEffect DEF CutShort, UploadInv, UploadTypeOK,
     RecordedPartsAreStored,
     CallHasUpload, multipartVars
<1>2. ASSUME NEW u \in UploadIds, InitiateLost(u) PROVE UploadInv'
  <2>1. /\ CompletionSound' /\ ReadyIsWhole' /\ parts' = parts
        /\ call' = "idle" /\ UNCHANGED <<saved, valid>>
    BY <1>2, OpenPreserves, GiveUpEffect DEF InitiateLost
  <2>2. UploadTypeOK'
    BY <1>0, <1>2, <2>1, OpenPreserves, GiveUpEffect DEF InitiateLost, UploadInv, UploadTypeOK
  <2>3. \A v \in UploadIds : multipart'[v] # "aborted" => multipart[v] # "aborted"
    BY <1>2 DEF InitiateLost, Open, UploadInv, UploadTypeOK
  <2>4. saved.upload \in UploadIds \cup {NoUpload}
    BY DEF UploadInv, UploadTypeOK, Saved
  <2>5. RecordedPartsAreStored' /\ CallHasUpload'
    BY <2>1, <2>3, <2>4 DEF UploadInv, RecordedPartsAreStored, CallHasUpload
  <2> QED BY <2>1, <2>2, <2>5 DEF UploadInv
<1>3. ASSUME NEW n \in Parts, PutLost(n) PROVE UploadInv'
  <2>1. saved.upload \in UploadIds
    BY <1>3, SendingUpload DEF PutLost
  <2>2. call' \in Steps /\ task' \in [Parts -> {"first", "refresh", "again"}]
        /\ CallHasUpload'
    BY <1>3, GiveUpEffect DEF PutLost, UploadInv, UploadTypeOK, CallHasUpload
  <2>3. CASE Store(n)
    BY <1>0, <1>3, <2>1, <2>2, <2>3, StorePreserves
       DEF PutLost, UploadInv, UploadTypeOK, RecordedPartsAreStored, serverVars
  <2>4. CASE UNCHANGED parts
    BY <1>0, <1>3, <2>2, <2>4, ClientAlone
       DEF PutLost, UploadInv, UploadTypeOK, RecordedPartsAreStored, multipartVars
  <2> QED BY <1>3, <2>3, <2>4 DEF PutLost
<1>4. CASE ServerFails
  BY <1>0, <1>4 DEF ServerFails, UploadInv, UploadTypeOK, RecordedPartsAreStored, CallHasUpload,
     CompletionSound, ReadyIsWhole, clientVars, multipartVars
<1>5. CASE UrlsExpireEarly
  <2>1. ExpireUrls
    BY <1>5 DEF UrlsExpireEarly
  <2> QED
    BY <1>0, <2>1, ClientAlone, ExpireEffect DEF ExpireUrls, UploadInv, UploadTypeOK,
       RecordedPartsAreStored,
       CallHasUpload, multipartVars
<1>6. ASSUME NEW u \in UploadIds, AbortStaleUpload(u) PROVE UploadInv'
  BY <1>0, <1>6 DEF AbortStaleUpload, UploadInv, UploadTypeOK, RecordedPartsAreStored,
     CallHasUpload,
     CompletionSound, ReadyIsWhole, clientVars, serverVars
<1> QED BY <1>1, <1>2, <1>3, <1>4, <1>5, <1>6 DEF FaultStep

LEMMA UploadStepInv == UploadInv /\ [UploadNext]_uploadVars => UploadInv'
<1> SUFFICES ASSUME UploadInv, [UploadNext]_uploadVars PROVE UploadInv'
  OBVIOUS
<1>1. CASE UNCHANGED uploadVars
  BY <1>1 DEF uploadVars, UploadInv, UploadTypeOK, RecordedPartsAreStored, CallHasUpload,
     CompletionSound,
     ReadyIsWhole, Free
<1>2. CASE UrlsExpire
  BY <1>2, ClientAlone, ExpireEffect DEF UrlsExpire, ExpireUrls, UploadInv, UploadTypeOK,
     RecordedPartsAreStored, CallHasUpload, multipartVars
<1> QED BY <1>1, <1>2, ClientStepInv, PartStepInv, ServerStepInv, FaultStepInv DEF UploadNext

LEMMA UploadAlwaysInv == UploadSpec => []UploadInv
BY UploadInitInv, UploadStepInv, PTL DEF UploadSpec

-----------------------------------------------------------------------------
\* The client's row, its tasks, storage and the server's completion keep their
\* types.
THEOREM UploadTypeCorrect == UploadSpec => []UploadTypeOK
<1>1. UploadInv => UploadTypeOK
  BY DEF UploadInv
<1> QED BY <1>1, UploadAlwaysInv, PTL

\* Storage holds every part the client has recorded, under the upload its row
\* names, unless that upload was aborted: upload() may skip these parts when it
\* resumes, or it completes an upload that storage refuses.
THEOREM ResumeIsSafe == UploadSpec => []RecordedPartsAreStored
<1>1. UploadInv => RecordedPartsAreStored
  BY DEF UploadInv
<1> QED BY <1>1, UploadAlwaysInv, PTL

\* complete_upload never asks storage to join an upload with a part missing, but
\* for an aborted one, and a ready transfer is one upload's whole file.
THEOREM JoinedIsWhole == UploadSpec => []OnlyWholeFilesAreJoined
<1>1. UploadInv => OnlyWholeFilesAreJoined
  BY DEF UploadInv, OnlyWholeFilesAreJoined, CompletionSound, ReadyIsWhole, Free
<1> QED BY <1>1, UploadAlwaysInv, PTL
=============================================================================
