--------------------------- MODULE TransferUpload ---------------------------
(***************************************************************************)
(* The client's resumable upload of one large file                         *)
(* (studio_client/transfers.py, its multipart_uploads row in the outbox    *)
(* database), against the server's initiate, refresh-parts and complete    *)
(* handlers and the storage behind them.                                   *)
(*                                                                         *)
(* upload() is called again until the transfer is ready; each call starts  *)
(* from the transfer's current row and from what the last one saved.       *)
(* Parts are sent concurrently, one task each.  A call may be cut short at *)
(* any await, storage may forget an upload nobody finished, and answers    *)
(* may be lost: MaxFaults bounds these together.                           *)
(***************************************************************************)
EXTENDS FiniteSets, Naturals

CONSTANTS
    Parts,       \* the parts of the file
    UploadIds,   \* the multipart upload ids storage may hand out
    NoUpload,
    MaxFaults

ASSUME PartsAssumption == Parts # {}
ASSUME NoUploadAssumption == NoUpload \notin UploadIds
ASSUME FaultsAssumption ==
    MaxFaults \in Nat /\ IsFiniteSet(UploadIds) /\ Cardinality(UploadIds) > MaxFaults

VARIABLES
    saved,     \* the client's multipart_uploads row, on disk
    valid,     \* the parts whose presigned URL storage still takes
    call,      \* where the call of upload() is
    task,      \* per part: what its task does next
    multipart, \* the state of each multipart upload in storage
    parts,     \* the parts storage holds of it
    status,    \* the transfer's row
    handler,   \* the completion the server is working on
    faults

uploadVars == <<saved, valid, call, task, multipart, parts, status, handler, faults>>

clientVars == <<saved, valid, call, task>>
multipartVars == <<multipart, parts>>
serverVars == <<status, handler>>

-----------------------------------------------------------------------------
Saved == [upload : UploadIds \cup {NoUpload}, done : SUBSET Parts, fresh : BOOLEAN]
NothingSaved == [upload |-> NoUpload, done |-> {}, fresh |-> FALSE]

Steps == {"idle", "initiate", "refresh", "send", "completing"}
Free == [step |-> "idle", upload |-> NoUpload]

Pending == Parts \ saved.done
Known(u) == u # NoUpload /\ multipart[u] = "open"

\* save_multipart_upload replaces the row: progress restarts from nothing.
Fresh(u) == [upload |-> u, done |-> {}, fresh |-> TRUE]

FirstTry == [n \in Parts |-> "first"]

UploadInit ==
    /\ saved = NothingSaved /\ valid = {}
    /\ call = "idle" /\ task = FirstTry
    /\ multipart = [u \in UploadIds |-> "unused"]
    /\ parts = [u \in UploadIds |-> {}]
    /\ status = "created"
    /\ handler = Free
    /\ faults = 0

\* The call ends with an error, leaving what it saved.
GiveUp == call' = "idle" /\ task' = FirstTry

-----------------------------------------------------------------------------
\* upload(): resume what was saved, refreshing first the URLs of the parts
\* still to send unless their recorded expiry is ahead.  The transfer it is given
\* may be an old copy, which does not say yet that it is ready.
Start ==
    /\ call = "idle"
    /\ call' = IF saved.upload = NoUpload THEN "initiate"
               ELSE IF Pending = {} \/ saved.fresh THEN "send"
               ELSE "refresh"
    /\ task' = FirstTry
    /\ UNCHANGED <<saved, valid, faults>>
    /\ UNCHANGED multipartVars /\ UNCHANGED serverVars

\* A ready transfer is not initiated (409) ...
AlreadyReady ==
    /\ call = "initiate" /\ status = "ready"
    /\ GiveUp
    /\ UNCHANGED <<saved, valid, faults>>
    /\ UNCHANGED multipartVars /\ UNCHANGED serverVars

\* ... any other gets a new upload, whatever uploads it already has.
Open(u) ==
    /\ call = "initiate" /\ status # "ready"
    /\ multipart[u] = "unused"
    /\ multipart' = [multipart EXCEPT ![u] = "open"]
    /\ UNCHANGED parts /\ UNCHANGED serverVars

Initiate(u) ==
    /\ Open(u)
    /\ saved' = Fresh(u)
    /\ valid' = Parts
    /\ call' = "send"
    /\ UNCHANGED <<task, faults>>

\* Mutant: the parts storage misses are taken for the parts it holds.
Mutant_Adopted(u) == [saved EXCEPT !.done = @ \cup (Parts \ parts[u]), !.fresh = TRUE]

\* _refresh_missing_parts, whose answer adopts every part storage holds, gives
\* the parts asked for URLs, and moves the recorded expiry of all of them.
Adopted(u) == [saved EXCEPT !.done = @ \cup parts[u], !.fresh = TRUE]

\* Mutant: the answer unknown_upload_id only ends the call.
Mutant_Forget == GiveUp /\ UNCHANGED <<saved, valid>>

\* An upload storage does not know is forgotten; the next call starts afresh.
Forget ==
    /\ saved' = NothingSaved
    /\ valid' = {}
    /\ GiveUp

Refresh(asked) ==
    \/ /\ status # "ready" /\ Known(saved.upload)
       /\ saved' = Adopted(saved.upload)
       /\ valid' = valid \cup (asked \ parts[saved.upload])
       /\ call' = "send"
       /\ task' = [n \in Parts |-> IF n \in asked /\ task[n] = "refresh"
                                   THEN "again" ELSE task[n]]
    \/ status # "ready" /\ ~Known(saved.upload) /\ Forget
    \/ status = "ready" /\ GiveUp /\ UNCHANGED <<saved, valid>>

RefreshBeforeSending ==
    /\ call = "refresh"
    /\ Refresh(Pending)
    /\ UNCHANGED faults /\ UNCHANGED multipartVars /\ UNCHANGED serverVars

-----------------------------------------------------------------------------
Sending(n) == call = "send" /\ n \in Pending

Usable(n) == n \in valid /\ Known(saved.upload)

\* A part is stored, and recorded when storage's answer arrives.
Store(n) == parts' = [parts EXCEPT ![saved.upload] = @ \cup {n}]

PutPart(n) ==
    /\ Sending(n) /\ task[n] \in {"first", "again"} /\ Usable(n)
    /\ Store(n)
    /\ saved' = [saved EXCEPT !.done = @ \cup {n}]
    /\ UNCHANGED <<valid, call, task, faults, multipart>> /\ UNCHANGED serverVars

\* An expired URL (403), once: refresh it and try again.
UrlRefused(n) ==
    /\ Sending(n) /\ n \notin valid
    /\ \/ task[n] = "first" /\ task' = [task EXCEPT ![n] = "refresh"] /\ UNCHANGED call
       \/ task[n] = "again" /\ GiveUp
    /\ UNCHANGED <<saved, valid, faults>>
    /\ UNCHANGED multipartVars /\ UNCHANGED serverVars

\* A valid URL of an upload storage does not know any more (404): the call ends.
PutRefused(n) ==
    /\ Sending(n) /\ task[n] \in {"first", "again"}
    /\ n \in valid /\ ~Known(saved.upload)
    /\ GiveUp
    /\ UNCHANGED <<saved, valid, faults>>
    /\ UNCHANGED multipartVars /\ UNCHANGED serverVars

RefreshPart(n) ==
    /\ Sending(n) /\ task[n] = "refresh"
    /\ Refresh({n})
    /\ UNCHANGED faults /\ UNCHANGED multipartVars /\ UNCHANGED serverVars

\* Mutant: the upload is completed while a part is still being sent.
Mutant_AllSent == Cardinality(Pending) <= 1

AllSent == Pending = {}

\* Bound: the server works on one completion of this transfer at a time.
SendComplete ==
    /\ call = "send" /\ AllSent
    /\ handler = Free
    /\ handler' = [step |-> "assemble", upload |-> saved.upload]
    /\ call' = "completing"
    /\ UNCHANGED <<saved, valid, task, status, faults>> /\ UNCHANGED multipartVars

-----------------------------------------------------------------------------
\* complete_upload: storage joins the parts, then the row is marked.
JoinParts ==
    /\ handler.step = "assemble"
    /\ IF Known(handler.upload)
       THEN /\ multipart' = [multipart EXCEPT ![handler.upload] = "assembled"]
            /\ handler' = [handler EXCEPT !.step = "mark"]
       ELSE /\ handler' = [handler EXCEPT !.step = "failed"]
            /\ UNCHANGED multipart
    /\ UNCHANGED <<parts, status, faults>> /\ UNCHANGED clientVars

MarkUploaded ==
    /\ handler.step = "mark"
    /\ status' = "ready"
    /\ handler' = [handler EXCEPT !.step = "done"]
    /\ UNCHANGED faults /\ UNCHANGED clientVars /\ UNCHANGED multipartVars

\* The client forgets the upload when it learns that it is complete; an error
\* leaves it as it was.  Nobody may be waiting for the answer any more.
Answer ==
    /\ handler.step \in {"done", "failed"}
    /\ handler' = Free
    /\ IF call = "completing"
       THEN /\ GiveUp
            /\ IF handler.step = "done"
               THEN saved' = NothingSaved /\ valid' = {}
               ELSE UNCHANGED <<saved, valid>>
       ELSE UNCHANGED clientVars
    /\ UNCHANGED <<status, faults>> /\ UNCHANGED multipartVars

-----------------------------------------------------------------------------
(* Faults *)

Fault == faults < MaxFaults /\ faults' = faults + 1

\* The client's process ends, or its request does not get its answer.
CutShort ==
    /\ Fault
    /\ call # "idle"
    /\ GiveUp
    /\ UNCHANGED <<saved, valid>> /\ UNCHANGED multipartVars /\ UNCHANGED serverVars

\* The new upload's id is lost with the answer.
InitiateLost(u) ==
    /\ Fault
    /\ Open(u)
    /\ GiveUp
    /\ UNCHANGED <<saved, valid>>

\* Stored or not, the part's task does not learn so: it asks storage, once.
PutLost(n) ==
    /\ Fault
    /\ Sending(n) /\ task[n] \in {"first", "again"} /\ Usable(n)
    /\ Store(n) \/ UNCHANGED parts
    /\ \/ task[n] = "first" /\ task' = [task EXCEPT ![n] = "refresh"] /\ UNCHANGED call
       \/ task[n] = "again" /\ GiveUp
    /\ UNCHANGED <<saved, valid, multipart>> /\ UNCHANGED serverVars

\* The server's process ends with the completion.
ServerFails ==
    /\ Fault
    /\ handler.step \in {"assemble", "mark"}
    /\ handler' = [handler EXCEPT !.step = "failed"]
    /\ UNCHANGED status /\ UNCHANGED clientVars /\ UNCHANGED multipartVars

\* Some or all URLs expire; a little earlier the client takes them for expired.
ExpireUrls ==
    /\ saved.upload # NoUpload
    /\ \E gone \in SUBSET valid : valid' = valid \ gone
    /\ saved' = [saved EXCEPT !.fresh = FALSE]
    /\ UNCHANGED <<call, task>> /\ UNCHANGED multipartVars /\ UNCHANGED serverVars

UrlsExpireEarly == Fault /\ call # "idle" /\ ExpireUrls

\* abort_stale_multipart_uploads takes an unfinished upload for an orphan, whose
\* parts storage then discards.
AbortStaleUpload(u) ==
    /\ Fault
    /\ multipart[u] = "open"
    /\ multipart' = [multipart EXCEPT ![u] = "aborted"]
    /\ parts' = [parts EXCEPT ![u] = {}]
    /\ UNCHANGED clientVars /\ UNCHANGED serverVars

-----------------------------------------------------------------------------
ClientStep ==
    \/ Start
    \/ AlreadyReady
    \/ \E u \in UploadIds : Initiate(u)
    \/ RefreshBeforeSending
    \/ SendComplete

PartStep(n) == PutPart(n) \/ UrlRefused(n) \/ PutRefused(n) \/ RefreshPart(n)

ServerStep == JoinParts \/ MarkUploaded \/ Answer

\* URLs last for minutes: their expiry is a fault only in the middle of a call.
UrlsExpire == call = "idle" /\ saved.fresh /\ ExpireUrls /\ UNCHANGED faults

FaultStep ==
    \/ CutShort
    \/ \E u \in UploadIds : InitiateLost(u)
    \/ \E n \in Parts : PutLost(n)
    \/ ServerFails
    \/ UrlsExpireEarly
    \/ \E u \in UploadIds : AbortStaleUpload(u)

UploadNext ==
    \/ ClientStep
    \/ \E n \in Parts : PartStep(n)
    \/ ServerStep
    \/ UrlsExpire
    \/ FaultStep

UploadSpec == UploadInit /\ [][UploadNext]_uploadVars

\* The caller retries until the transfer is ready, and client, part tasks and
\* server go on.  URLs do not last for ever: calls that keep failing see them
\* expire.  Faults stop eventually, being bounded.
UploadFairness ==
    /\ WF_uploadVars(ClientStep)
    /\ \A n \in Parts : WF_uploadVars(PartStep(n))
    /\ WF_uploadVars(ServerStep)
    /\ SF_uploadVars(UrlsExpire)

FairUploadSpec == UploadSpec /\ UploadFairness

-----------------------------------------------------------------------------
(* Properties *)

\* The saved row, the tasks, storage and the server are well formed.
UploadTypeOK ==
    /\ saved \in Saved /\ valid \subseteq Parts
    /\ call \in Steps /\ task \in [Parts -> {"first", "refresh", "again"}]
    /\ multipart \in [UploadIds -> {"unused", "open", "assembled", "aborted"}]
    /\ parts \in [UploadIds -> SUBSET Parts]
    /\ status \in {"created", "ready"}
    /\ handler \in [step   : {"idle", "assemble", "mark", "done", "failed"},
                    upload : UploadIds \cup {NoUpload}]
    /\ faults \in 0..MaxFaults

\* An upload whose parts nobody has discarded.
Kept(u) == u # NoUpload /\ multipart[u] # "aborted"

\* What the client has recorded as sent, storage holds under the very upload the
\* record names, however calls were cut short, restarted or refreshed; unless
\* that upload was aborted, which the record does not say.
RecordedPartsAreStored ==
    Kept(saved.upload) => saved.done \subseteq parts[saved.upload]

\* Storage is only ever asked to join an upload all of whose parts it holds, or an
\* aborted one, which it refuses; so a ready transfer is a whole file, out of one
\* upload.
OnlyWholeFilesAreJoined ==
    /\ Kept(handler.upload) => parts[handler.upload] = Parts
    /\ status = "ready" => \E u \in UploadIds : multipart[u] = "assembled" /\ parts[u] = Parts

\* All parts are recorded, so no call will refresh and find out that storage
\* does not know the upload any more: completing it fails, every time.
Wedged ==
    /\ status = "created"
    /\ saved.upload # NoUpload /\ Pending = {}
    /\ ~Known(saved.upload)

\* Through crashes, lost answers, expired URLs and aborted uploads a caller that
\* retries gets its file uploaded, unless all the parts were recorded when the
\* upload was aborted, or joined by a server that failed before saying so.
UploadFinishes == <>(status = "ready" \/ Wedged)
=============================================================================
