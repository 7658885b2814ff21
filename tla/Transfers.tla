----------------------------- MODULE Transfers -----------------------------
(***************************************************************************)
(* File transfers on the API server (services/transfers.py): the rows of   *)
(* the transfers table in one quota bucket, the object storage beside it   *)
(* and the workers that clean both.  The file's bytes go from the client   *)
(* to storage through presigned URLs, so the server learns of them only by *)
(* asking storage.                                                         *)
(*                                                                         *)
(* A handler loads its row without a lock, awaits storage, and writes the  *)
(* columns it changed in a later statement: one step is what happens       *)
(* between two awaits.  Creation alone takes a lock, the bucket's.         *)
(* A file is abstracted to a member of Contents, its checksums to itself.  *)
(***************************************************************************)
EXTENDS FiniteSets, Naturals

CONSTANTS
    Transfers,    \* each reserves one unit of the bucket's quota
    Large,        \* the transfers past the multipart threshold
    Perishable,   \* the transfers whose category has a retention
    Uploads,      \* the multipart upload ids storage may hand out
    Contents,     \* the files (of the declared size) senders upload
    Requests,     \* concurrent HTTP requests on transfers
    Worker,       \* the retention worker (admin_cli expire)
    Nothing,
    Quota,        \* transfer_project_quota_bytes
    MaxFailures   \* bound on storage failures and ends of a process

ASSUME TransfersAssumption == IsFiniteSet(Transfers) /\ Large \subseteq Transfers
ASSUME NothingAssumption == Nothing \notin Transfers \cup Uploads \cup Contents
ASSUME WorkerAssumption == Worker \notin Requests
ASSUME BoundsAssumption == Quota \in Nat /\ MaxFailures \in Nat

VARIABLES
    row,       \* the committed row of each transfer
    object,    \* what storage holds under each transfer's key
    upload,    \* the multipart uploads storage knows
    urls,      \* the presigned single PUTs that have not expired
    request,   \* per request or worker: what it loaded and how far it is
    todo,      \* the expired rows the retention worker still has to delete
    due,       \* the transfers whose expires_at has passed
    failures,
    erased     \* history: the transfers whose bytes a deletion has removed

vars == <<row, object, upload, urls, request, todo, due, failures, erased>>

storageVars == <<object, upload, urls, erased>>
workerVars == <<todo, due, failures>>

-----------------------------------------------------------------------------
Statuses == {"absent", "created", "ready", "deleted"}
Agents == Requests \cup {Worker}

Row == [status : Statuses, content_md5 : Contents \cup {Nothing}, deleted_at : BOOLEAN]

NoRow == [status |-> "absent", content_md5 |-> Nothing, deleted_at |-> FALSE]

\* An upload's parts, once all of them are stored, are the content they make.
Upload == [of    : Transfers \cup {Nothing},
           state : {"unused", "open", "gone"},
           parts : Contents \cup {Nothing}]

Request == [step     : {"idle", "initiate", "assemble", "head", "mark",
                        "list", "abort", "mark_deleted"},
            transfer : Transfers \cup {Nothing},
            loaded   : Row,
            upload   : Uploads \cup {Nothing},
            content  : Contents \cup {Nothing},
            listed   : SUBSET Uploads]

Idle == [step |-> "idle", transfer |-> Nothing, loaded |-> NoRow,
         upload |-> Nothing, content |-> Nothing, listed |-> {}]

\* A handler at a step, and one that will compare with the row it has loaded.
Handling(t, step) == [Idle EXCEPT !.step = step, !.transfer = t]
Loaded(t, step) == [Handling(t, step) EXCEPT !.loaded = row[t]]

At(q, step) == request[q].step = step
Goto(q, step) == request' = [request EXCEPT ![q].step = step]

Finish(q) == request' = [request EXCEPT ![q] = Idle]

Exists(t) == row[t].status # "absent"
OpenUploads(t) == {u \in Uploads : upload[u].state = "open" /\ upload[u].of = t}

\* Mutant: only finished transfers count against the quota.
Mutant_Consuming == {t \in Transfers : row[t].status = "ready"}

\* compute_consumption counts the rows that are not deleted.
Consuming == {t \in Transfers : row[t].status \notin {"absent", "deleted"}}

-----------------------------------------------------------------------------
Init ==
    /\ row = [t \in Transfers |-> NoRow]
    /\ object = [t \in Transfers |-> Nothing]
    /\ upload = [u \in Uploads |-> [of |-> Nothing, state |-> "unused", parts |-> Nothing]]
    /\ urls = {}
    /\ request = [q \in Agents |-> Idle]
    /\ todo = {} /\ due = {}
    /\ failures = 0
    /\ erased = {}

\* create_transfer: the bucket's advisory lock covers the check and the insert.
Create(t) ==
    /\ row[t].status = "absent"
    /\ Cardinality(Consuming) + 1 <= Quota
    /\ row' = [row EXCEPT ![t].status = "created"]
    /\ UNCHANGED storageVars /\ UNCHANGED workerVars /\ UNCHANGED request

-----------------------------------------------------------------------------
\* Mutant: a finished transfer may be uploaded again.
Mutant_MayInitiate(t) == Exists(t)

MayInitiate(t) == Exists(t) /\ row[t].status # "ready"

BeginInitiate(q, t) ==
    /\ At(q, "idle")
    /\ MayInitiate(t)
    /\ request' = [request EXCEPT ![q] = Loaded(t, "initiate")]
    /\ UNCHANGED row /\ UNCHANGED storageVars /\ UNCHANGED workerVars

\* A small file gets one PUT, bound to its checksum; the row keeps the last
\* checksum presigned (no UPDATE when it is the one that was loaded).
InitiateSingle(q, c) ==
    LET t == request[q].transfer IN
    /\ At(q, "initiate") /\ t \notin Large
    /\ urls' = urls \cup {<<t, c>>}
    /\ row' = IF request[q].loaded.content_md5 = c
              THEN row
              ELSE [row EXCEPT ![t].content_md5 = c]
    /\ Finish(q)
    /\ UNCHANGED <<object, upload, erased>> /\ UNCHANGED workerVars

\* A large one gets a multipart upload, which the server does not remember.
InitiateMultipart(q, u) ==
    LET t == request[q].transfer IN
    /\ At(q, "initiate") /\ t \in Large
    /\ upload[u].state = "unused"
    /\ upload' = [upload EXCEPT ![u] = [of |-> t, state |-> "open", parts |-> Nothing]]
    /\ Finish(q)
    /\ UNCHANGED <<row, object, urls, erased>> /\ UNCHANGED workerVars

\* Storage may fail to; here it does when it has no id left (bound: Uploads).
InitiateRefused(q) ==
    /\ At(q, "initiate") /\ request[q].transfer \in Large
    /\ \A u \in Uploads : upload[u].state # "unused"
    /\ Finish(q)
    /\ UNCHANGED row /\ UNCHANGED storageVars /\ UNCHANGED workerVars

\* The sender's PUTs reach storage: the whole file, or an upload's parts.
PutObject(t, c) ==
    /\ <<t, c>> \in urls
    /\ object' = [object EXCEPT ![t] = c]
    /\ UNCHANGED <<row, upload, urls, request, erased>> /\ UNCHANGED workerVars

PutParts(u, c) ==
    /\ upload[u].state = "open"
    /\ upload' = [upload EXCEPT ![u].parts = c]
    /\ UNCHANGED <<row, object, urls, request, erased>> /\ UNCHANGED workerVars

\* A presigned URL outlives its time to live.
UrlExpires(t, c) ==
    /\ <<t, c>> \in urls
    /\ urls' = urls \ {<<t, c>>}
    /\ UNCHANGED <<row, object, upload, request, erased>> /\ UNCHANGED workerVars

-----------------------------------------------------------------------------
\* complete_upload, whose caller names no parts (a single PUT), or the parts of
\* an upload it has sent.  The status of the row is not looked at.
BeginComplete(q, t) ==
    /\ At(q, "idle")
    /\ Exists(t)
    /\ request' = [request EXCEPT ![q] = Loaded(t, "head")]
    /\ UNCHANGED row /\ UNCHANGED storageVars /\ UNCHANGED workerVars

BeginCompleteMultipart(q, u) ==
    LET t == upload[u].of IN
    /\ At(q, "idle")
    /\ upload[u].parts # Nothing
    /\ request' = [request EXCEPT ![q] = [Loaded(t, "assemble") EXCEPT
                                            !.upload = u, !.content = upload[u].parts]]
    /\ UNCHANGED row /\ UNCHANGED storageVars /\ UNCHANGED workerVars

\* Storage makes the object out of the parts whose checksums it is told ...
Assemble(q) ==
    LET r == request[q] IN
    /\ At(q, "assemble")
    /\ upload[r.upload].state = "open" /\ upload[r.upload].parts = r.content
    /\ object' = [object EXCEPT ![r.transfer] = r.content]
    /\ upload' = [upload EXCEPT ![r.upload].state = "gone"]
    /\ Goto(q, "head")
    /\ UNCHANGED <<row, urls, erased>> /\ UNCHANGED workerVars

\* ... or refuses, and the request fails.
AssembleRefused(q) ==
    LET r == request[q] IN
    /\ At(q, "assemble")
    /\ upload[r.upload].state # "open" \/ upload[r.upload].parts # r.content
    /\ Finish(q)
    /\ UNCHANGED row /\ UNCHANGED storageVars /\ UNCHANGED workerVars

\* Mutant: an object that storage does not have is not refused.
Mutant_Verified(q) ==
    LET r == request[q] IN
    r.upload = Nothing /\ r.loaded.content_md5 # Nothing
        => object[r.transfer] \in {Nothing, r.loaded.content_md5}

\* head_object: the object is there and, for a single PUT, is the file whose
\* checksum the row held when it was loaded.
Verified(q) ==
    LET r == request[q] IN
    /\ object[r.transfer] # Nothing
    /\ r.upload = Nothing /\ r.loaded.content_md5 # Nothing
          => object[r.transfer] = r.loaded.content_md5

Head(q) ==
    /\ At(q, "head")
    /\ IF Verified(q) THEN Goto(q, "mark") ELSE Finish(q)
    /\ UNCHANGED row /\ UNCHANGED storageVars /\ UNCHANGED workerVars

\* Only changed columns are written: a row loaded ready keeps its status.
MarkReady(q) ==
    LET r == request[q] IN
    /\ At(q, "mark")
    /\ row' = IF r.loaded.status = "ready"
              THEN row
              ELSE [row EXCEPT ![r.transfer].status = "ready"]
    /\ Finish(q)
    /\ UNCHANGED storageVars /\ UNCHANGED workerVars

-----------------------------------------------------------------------------
\* delete_transfer and expire_transfers share _do_delete, which returns at
\* once when the row was loaded deleted.
BeginDelete(q, t) ==
    /\ At(q, "idle")
    /\ Exists(t) /\ row[t].status # "deleted"
    /\ request' = [request EXCEPT ![q] = Handling(t, "list")]
    /\ UNCHANGED row /\ UNCHANGED storageVars /\ UNCHANGED workerVars

ListUploads(q) ==
    /\ At(q, "list")
    /\ request' = [request EXCEPT ![q].step = "abort",
                                  ![q].listed = OpenUploads(request[q].transfer)]
    /\ UNCHANGED row /\ UNCHANGED storageVars /\ UNCHANGED workerVars

AbortListed(q, u) ==
    /\ At(q, "abort")
    /\ u \in request[q].listed /\ upload[u].state = "open"
    /\ upload' = [upload EXCEPT ![u].state = "gone"]
    /\ request' = [request EXCEPT ![q].listed = @ \ {u}]
    /\ UNCHANGED <<row, object, urls, erased>> /\ UNCHANGED workerVars

\* Aborting an upload that has gone meanwhile is an error: 503.
AbortRefused(q, u) ==
    /\ At(q, "abort")
    /\ u \in request[q].listed /\ upload[u].state # "open"
    /\ Finish(q)
    /\ todo' = IF q = Worker THEN {} ELSE todo
    /\ UNCHANGED <<row, due, failures>> /\ UNCHANGED storageVars

Erase(q) ==
    LET t == request[q].transfer IN
    /\ At(q, "abort") /\ request[q].listed = {}
    /\ object' = [object EXCEPT ![t] = Nothing]
    /\ erased' = erased \cup {t}
    /\ Goto(q, "mark_deleted")
    /\ UNCHANGED <<row, upload, urls>> /\ UNCHANGED workerVars

MarkDeleted(q) ==
    /\ At(q, "mark_deleted")
    /\ row' = [row EXCEPT ![request[q].transfer].status = "deleted",
                          ![request[q].transfer].deleted_at = TRUE]
    /\ Finish(q)
    /\ UNCHANGED storageVars /\ UNCHANGED workerVars

\* A storage error, or the end of the process, ends a handler, and with it a
\* run of the worker, wherever it is.
Fail(q) ==
    /\ ~At(q, "idle")
    /\ failures < MaxFailures
    /\ failures' = failures + 1
    /\ Finish(q)
    /\ todo' = IF q = Worker THEN {} ELSE todo
    /\ UNCHANGED <<row, due>> /\ UNCHANGED storageVars

-----------------------------------------------------------------------------
RetentionEnds(t) ==
    /\ Exists(t) /\ t \in Perishable \ due
    /\ due' = due \cup {t}
    /\ UNCHANGED <<row, request, todo, failures>> /\ UNCHANGED storageVars

\* Mutant: the worker looks at finished transfers only.
Mutant_Expired == {t \in due : row[t].status = "ready"}

Expired == {t \in due : row[t].status # "deleted"}

\* expire_transfers: one SELECT, then the rows it returned one after the other.
BeginExpiry ==
    /\ At(Worker, "idle") /\ todo = {}
    /\ Expired # {}
    /\ todo' = Expired
    /\ UNCHANGED <<row, request, due, failures>> /\ UNCHANGED storageVars

DeleteNext(t) ==
    /\ At(Worker, "idle") /\ t \in todo
    /\ todo' = todo \ {t}
    /\ request' = [request EXCEPT ![Worker] = Handling(t, "list")]
    /\ UNCHANGED <<row, due, failures>> /\ UNCHANGED storageVars

\* Mutant: only the uploads of deleted transfers are taken for stale.
Mutant_Stale(u) ==
    upload[u].state = "open" /\ row[upload[u].of].status = "deleted"

\* Age is all abort_stale_multipart_uploads goes by: any upload gets there.
Stale(u) == upload[u].state = "open"

AbortStale(u) ==
    /\ Stale(u)
    /\ upload' = [upload EXCEPT ![u].state = "gone"]
    /\ UNCHANGED <<row, object, urls, request, erased>> /\ UNCHANGED workerVars

-----------------------------------------------------------------------------
\* What an agent does once it has begun, but for failing.
Proceed(q) ==
    \/ \E c \in Contents : InitiateSingle(q, c)
    \/ \E u \in Uploads : InitiateMultipart(q, u)
    \/ InitiateRefused(q)
    \/ Assemble(q)
    \/ AssembleRefused(q)
    \/ Head(q)
    \/ MarkReady(q)
    \/ ListUploads(q)
    \/ \E u \in Uploads : AbortListed(q, u)
    \/ \E u \in Uploads : AbortRefused(q, u)
    \/ Erase(q)
    \/ MarkDeleted(q)

Expire == BeginExpiry \/ \E t \in Transfers : DeleteNext(t)

Next ==
    \/ \E t \in Transfers : Create(t)
    \/ \E q \in Requests, t \in Transfers : BeginInitiate(q, t)
    \/ \E t \in Transfers, c \in Contents : PutObject(t, c)
    \/ \E u \in Uploads, c \in Contents : PutParts(u, c)
    \/ \E t \in Transfers, c \in Contents : UrlExpires(t, c)
    \/ \E q \in Requests, t \in Transfers : BeginComplete(q, t)
    \/ \E q \in Requests, u \in Uploads : BeginCompleteMultipart(q, u)
    \/ \E q \in Requests, t \in Transfers : BeginDelete(q, t)
    \/ \E q \in Agents : Proceed(q)
    \/ \E q \in Agents : Fail(q)
    \/ \E t \in Transfers : RetentionEnds(t)
    \/ Expire
    \/ \E u \in Uploads : AbortStale(u)

Spec == Init /\ [][Next]_vars

\* Handlers run to their end, the two cleaning workers are scheduled again and
\* again, and presigned URLs expire.  Nobody owes an upload or a deletion.
Fairness ==
    /\ \A q \in Agents : WF_vars(Proceed(q))
    /\ WF_vars(Expire)
    /\ \A u \in Uploads : WF_vars(AbortStale(u))
    /\ \A t \in Transfers, c \in Contents : WF_vars(UrlExpires(t, c))

FairSpec == Spec /\ Fairness

-----------------------------------------------------------------------------
(* Properties *)

\* Every row, object, upload and request is well formed, and a request in
\* flight is about a transfer that exists.
TypeOK ==
    /\ row \in [Transfers -> Row]
    /\ object \in [Transfers -> Contents \cup {Nothing}]
    /\ upload \in [Uploads -> Upload]
    /\ urls \subseteq Transfers \X Contents
    /\ request \in [Agents -> Request]
    /\ todo \subseteq Transfers /\ due \subseteq Transfers /\ erased \subseteq Transfers
    /\ failures \in 0..MaxFailures
    /\ \A q \in Agents : ~At(q, "idle") =>
         request[q].transfer \in Transfers /\ Exists(request[q].transfer)

\* The transfers that were never deleted fit in the bucket's quota, whatever
\* completions, deletions and retention runs overlap.  (A completion that
\* outlives a deletion makes its transfer count again, past the check: those
\* rows keep their deleted_at.)
QuotaHonoured ==
    Cardinality({t \in Consuming : ~row[t].deleted_at}) <= Quota

\* A ready transfer whose bytes storage does not have is one whose deletion had
\* begun: no late completion, failed attempt or stale upload loses a file.
OnlyDeletionLosesBytes ==
    \A t \in Transfers :
        row[t].status = "ready" /\ object[t] = Nothing => t \in erased

\* Nothing is left that could still write the object of t, but a new initiate.
Frozen(t) ==
    /\ \A c \in Contents : <<t, c>> \notin urls
    /\ OpenUploads(t) = {}
    /\ \A q \in Agents : ~(At(q, "initiate") /\ request[q].transfer = t)

Finished(t) == row[t].status = "ready"

\* "Completed uploads are never replaceable", once what was started before the
\* completion has run out: a finished transfer's object then only disappears,
\* in a deletion, and nothing starts a new upload.
FinishedIsImmutable ==
    [][\A t \in Transfers : Finished(t) /\ Frozen(t) /\ Finished(t)' =>
         /\ object'[t] \in {object[t], Nothing}
         /\ Frozen(t)']_vars

\* Every finished transfer gets there: URLs presigned and uploads opened before
\* its completion expire or are aborted, and no others follow.
FinishedSettles ==
    \A t \in Transfers : Finished(t) ~> Frozen(t) \/ ~Finished(t)

\* A transfer past its retention is deleted, whatever storage failures,
\* uploads, completions and other deletions the retention worker meets.
ExpiredIsDeleted ==
    \A t \in Transfers : t \in due ~> row[t].status = "deleted"

=============================================================================
