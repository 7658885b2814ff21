---------------------------- MODULE Idempotency ----------------------------
(***************************************************************************)
(* The server's replay protection (services/idempotency.py), for one pair  *)
(* of Idempotency-Key and endpoint: concurrent requests reserve the pair,  *)
(* the winner creates the business resource and stores its response, the   *)
(* others wait for that response.  A request's process may die, or its     *)
(* handler be cancelled, between any two transactions; a reservation left  *)
(* pending is reclaimed after a while, without a fencing token.            *)
(*                                                                         *)
(* Each transaction is one step; the response of a creation is named by    *)
(* the request that ran it.                                                *)
(***************************************************************************)
EXTENDS Naturals, FiniteSets

CONSTANTS
    Requests,      \* requests that carry the key, retries included
    NoRequest,
    Bodies,        \* request bodies, told apart by their hash
    NoBody,
    ReclaimAfter,  \* _PENDING_RECLAIM_SECONDS
    PollLimit,     \* polls in _POLL_TIMEOUT_SECONDS, one per _POLL_INTERVAL_SECONDS
    MaxTime        \* bound on the clock

ASSUME NoRequestAssumption == NoRequest \notin Requests
ASSUME NoBodyAssumption == NoBody \notin Bodies
ASSUME ClockAssumption ==
    ReclaimAfter \in Nat /\ PollLimit \in Nat /\ MaxTime \in Nat

VARIABLES
    row,      \* the row of idempotency_keys for the pair
    request,  \* where each request is, its body, and the answer it returned
    created,  \* requests whose create() committed a business resource
    late,     \* history: requests that ran past ReclaimAfter as owners
    now       \* the clock

vars == <<row, request, created, late, now>>

-----------------------------------------------------------------------------
Absent == [status |-> "absent", request_hash |-> NoBody, created_at |-> 0,
           response |-> NoRequest]

Pending(body) == [status |-> "pending", request_hash |-> body,
                  created_at |-> now, response |-> NoRequest]

\* How far a request is in run_idempotent_dict ...
Running == {"reserve", "reclaim", "await", "create", "complete", "release"}

\* ... and how it ended: with a response, refused for another body or because
\* the key is in progress, with the error create() raised, or not at all.
Ended == {"answered", "mismatch", "in_progress", "failed", "dead"}

\* The request believes it owns the reservation.
Owner(q) == request[q].at \in {"create", "complete", "release"}

Goto(q, step) == request' = [request EXCEPT ![q].at = step]

\* The request owns the reservation from now on.
Own(q) == request' = [request EXCEPT ![q].at = "create", ![q].since = now]

Answer(q, response) ==
    request' = [request EXCEPT ![q].at = "answered", ![q].answer = response]

-----------------------------------------------------------------------------
Arrive(q, body) ==
    /\ request[q].at = "idle"
    /\ request' = [request EXCEPT ![q].at = "reserve", ![q].body = body]
    /\ UNCHANGED <<row, created, late, now>>

\* _reserve: INSERT ... ON CONFLICT DO NOTHING
Reserve(q) ==
    /\ request[q].at = "reserve"
    /\ \/ /\ row.status = "absent"
          /\ row' = Pending(request[q].body)
          /\ Own(q)
       \/ /\ row.status # "absent"
          /\ Goto(q, "reclaim")
          /\ UNCHANGED row
    /\ UNCHANGED <<created, late, now>>

\* Mutant: any pending reservation can be reclaimed.
Mutant_Abandoned == row.status = "pending"

Abandoned == row.status = "pending" /\ row.created_at + ReclaimAfter < now

\* Mutant: a reclaimed reservation keeps the hash of its first owner's body.
Mutant_Reclaimed(body) == [row EXCEPT !.created_at = now]

Reclaimed(body) == [row EXCEPT !.request_hash = body, !.created_at = now]

\* _reclaim_if_abandoned: one UPDATE, whose WHERE clause is the check
Reclaim(q) ==
    /\ request[q].at = "reclaim"
    /\ \/ /\ Abandoned
          /\ row' = Reclaimed(request[q].body)
          /\ Own(q)
       \/ /\ ~Abandoned
          /\ Goto(q, "await")
          /\ UNCHANGED row
    /\ UNCHANGED <<created, late, now>>

\* _resolve_existing and _await_completion: read the row until it is completed
Resolve(q) ==
    /\ request[q].at = "await"
    /\ row.status = "completed"
    /\ IF row.request_hash = request[q].body
       THEN Answer(q, row.response)
       ELSE Goto(q, "mismatch")
    /\ UNCHANGED <<row, created, late, now>>

\* Mutant: the time spent polling is not added up.
Mutant_Elapsed(q) == request[q].polls

Elapsed(q) == request[q].polls + 1

Poll(q) ==
    /\ request[q].at = "await"
    /\ row.status # "completed"
    /\ IF request[q].polls < PollLimit
       THEN request' = [request EXCEPT ![q].polls = Elapsed(q)]
       ELSE Goto(q, "in_progress")
    /\ UNCHANGED <<row, created, late, now>>

\* create() commits the resource and returns its response ...
Create(q) ==
    /\ request[q].at = "create"
    /\ created' = created \cup {q}
    /\ Goto(q, "complete")
    /\ UNCHANGED <<row, late, now>>

\* ... or raises, before its commit or after it.
CreateRaises(q) ==
    /\ request[q].at = "create"
    /\ created' \in {created, created \cup {q}}
    /\ Goto(q, "release")
    /\ UNCHANGED <<row, late, now>>

\* Mutant: the response is stored but the row stays pending.
Mutant_Completed(q) == [row EXCEPT !.response = q]

Completed(q) == [row EXCEPT !.status = "completed", !.response = q]

\* _complete: whatever row has the key now, if any
Complete(q) ==
    /\ request[q].at = "complete"
    /\ row' = IF row.status = "absent" THEN row ELSE Completed(q)
    /\ Answer(q, q)
    /\ UNCHANGED <<created, late, now>>

Released == IF row.status = "pending" THEN Absent ELSE row

\* _release: deletes whatever pending row has the key now
Release(q) ==
    /\ request[q].at = "release"
    /\ row' = Released
    /\ Goto(q, "failed")
    /\ UNCHANGED <<created, late, now>>

\* The process dies or the handler is cancelled: no cleanup code runs.
Die(q) ==
    /\ request[q].at \in Running
    /\ Goto(q, "dead")
    /\ UNCHANGED <<row, created, late, now>>

\* Time passes; an owner still running past ReclaimAfter is late.
Tick ==
    /\ now < MaxTime
    /\ now' = now + 1
    /\ late' = late \cup
                 {q \in Requests : Owner(q) /\ request[q].since + ReclaimAfter < now + 1}
    /\ UNCHANGED <<row, request, created>>

-----------------------------------------------------------------------------
Init ==
    /\ row = Absent
    /\ request = [q \in Requests |-> [at |-> "idle", body |-> NoBody,
                                      since |-> 0, polls |-> 0,
                                      answer |-> NoRequest]]
    /\ created = {}
    /\ late = {}
    /\ now = 0

Progress(q) ==
    \/ Reserve(q)
    \/ Reclaim(q)
    \/ Resolve(q)
    \/ Poll(q)
    \/ Create(q)
    \/ CreateRaises(q)
    \/ Complete(q)
    \/ Release(q)

Next ==
    \/ \E q \in Requests, body \in Bodies : Arrive(q, body)
    \/ \E q \in Requests : Progress(q) \/ Die(q)
    \/ Tick

Spec == Init /\ [][Next]_vars

\* The event loop runs every handler; nobody has to send a request, nothing has
\* to die, and the clock may be as slow as it likes.
Fairness == \A q \in Requests : WF_vars(Progress(q))

FairSpec == Spec /\ Fairness

-----------------------------------------------------------------------------
(* Properties *)

TypeOK ==
    /\ row \in [status       : {"absent", "pending", "completed"},
                request_hash : Bodies \cup {NoBody},
                created_at   : Nat,
                response     : Requests \cup {NoRequest}]
    /\ request \in [Requests -> [at     : {"idle"} \cup Running \cup Ended,
                                 body   : Bodies \cup {NoBody},
                                 since  : Nat,
                                 polls  : Nat,
                                 answer : Requests \cup {NoRequest}]]
    /\ created \subseteq Requests
    /\ late \subseteq Requests
    /\ now \in Nat

\* run_idempotent's docstring: at most one caller runs create() for a pair.
\* It holds as long as no creation outlived ReclaimAfter, however requests
\* die, fail, are reclaimed and retried.
OneRunner ==
    late = {} => \A q, r \in Requests : Owner(q) /\ Owner(r) => q = r

\* A second resource for the pair exists only beside one whose creator died or
\* failed between its commit and the storing of its response.
OneSurvivingResource ==
    late = {} =>
      \A q, r \in created :
        /\ request[q].at \notin {"release", "failed", "dead"}
        /\ request[r].at \notin {"release", "failed", "dead"}
        => q = r

\* All the successful answers for the pair are the response of one creation,
\* and it was run for the body they sent: never a silent replay to another.
SameAnswer ==
    late = {} =>
      \A q, r \in Requests :
        request[q].at = "answered" /\ request[r].at = "answered" =>
          /\ request[q].answer = request[r].answer
          /\ request[q].answer \in created
          /\ request[q].body = request[request[q].answer].body

\* A crashed owner hangs nobody: every request that lives is answered.
RequestsEnd ==
    \A q \in Requests : request[q].at \in Running ~> request[q].at \in Ended

=============================================================================
