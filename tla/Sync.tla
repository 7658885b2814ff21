-------------------------------- MODULE Sync --------------------------------
(***************************************************************************)
(* Catch-up: how the work sessions of one task learn what happened in      *)
(* their project (services/sync.py over the event log of services/         *)
(* events.py, the cursors of services/sessions.py, and the trimming of an  *)
(* answer in studio_mcp/response_budget.py).                               *)
(*                                                                         *)
(* An event's seq is its index in log.  The identity column gives it at    *)
(* the insert, before the commit, so events may become visible out of      *)
(* order: one committed after a larger seq is "late".  A sync acknowledges *)
(* an earlier answer, reads a bounded window after its cursor and answers  *)
(* with items and the cursor to acknowledge next.  A session that hands    *)
(* off leaves its cursor to the task, where the next session starts.       *)
(***************************************************************************)
EXTENDS Sequences, FiniteSetsExt

CONSTANTS
    Sessions,   \* the sessions the task ever has
    None,
    MaxEvents,  \* bound: the length of the log
    Limit,      \* the most items of an answer
    ScanCap     \* the most events a sync reads

ASSUME NoneAssumption == None \notin Sessions
ASSUME BoundsAssumption == {MaxEvents, Limit, ScanCap} \subseteq Nat \ {0}

VARIABLES
    log,       \* the events of the project, by seq
    status,    \* per session: "absent", "live" or "ended"
    cursor,    \* sync_cursor_seq
    leaving,   \* per session: it ended by a handoff that is not finished
    request,   \* per session: the sync being served
    baseline,  \* the task's handoff_cursor_seq
    start,     \* history: the cursor a session started from
    seen,      \* history: the events a session has received
    offered    \* the next_cursor values a session has received and may still
               \* acknowledge: those past its cursor, the others change nothing

vars == <<log, status, cursor, leaving, request, baseline, start, seen, offered>>

sessionVars == <<status, cursor, leaving, baseline, start>>

-----------------------------------------------------------------------------
(* news: an event of the task, a decision on it or a dependency's, by      *)
(* another machine; work: one of the ai_work.* events of one work entry;   *)
(* noise: what does not concern the task.  Only a signal has a target.     *)
Kinds == {"news", "work", "signal", "noise"}
Event == [kind : Kinds, target : Sessions \cup {None}, from : Sessions \cup {None},
          stage : {"flushed", "durable", "late"}]

Plain(kind) == [kind |-> kind, target |-> None, from |-> None, stage |-> "flushed"]
SignalOf(f, t) == [kind |-> "signal", target |-> t, from |-> f, stage |-> "flushed"]

Idle == [active |-> FALSE, effective |-> 0, scanned |-> {}]
Visible == {i \in DOMAIN log : log[i].stage # "flushed"}

Init ==
    /\ log = <<>>
    /\ status = [s \in Sessions |-> "absent"]
    /\ cursor = [s \in Sessions |-> 0]
    /\ leaving = [s \in Sessions |-> FALSE]
    /\ request = [s \in Sessions |-> Idle]
    /\ baseline = 0
    /\ start = [s \in Sessions |-> 0]
    /\ seen = [s \in Sessions |-> {}]
    /\ offered = [s \in Sessions |-> {}]

\* Mutant: the acknowledged seq replaces the stored one.
Mutant_Advanced(old, seq) == seq

\* ack_sync_cursor and ack_handoff_cursor: greatest(stored, acknowledged).
Advanced(old, seq) == IF seq > old THEN seq ELSE old

-----------------------------------------------------------------------------
(* The log.  coordination.emit takes a signal of a live session, to the    *)
(* task or to a live session of it.                                        *)
Emittable ==
    LET live == {s \in Sessions : status[s] = "live"}
    IN {Plain(k) : k \in Kinds \ {"signal"}}
         \cup {SignalOf(f, t) : f \in live, t \in live \cup {None}}

Insert ==
    /\ Len(log) < MaxEvents
    /\ \E e \in Emittable : log' = Append(log, e)
    /\ UNCHANGED <<sessionVars, request, seen, offered>>

Commit(i) ==
    /\ i \in DOMAIN log \ Visible
    /\ log' = [log EXCEPT ![i].stage =
                   IF \E j \in Visible : j > i THEN "late" ELSE "durable"]
    /\ UNCHANGED <<sessionVars, request, seen, offered>>

-----------------------------------------------------------------------------
(* Sessions: one starts from the task's baseline; ending is either a       *)
(* handoff, which acknowledges its cursor for the task afterwards, or not. *)
(* An answer on its way to it is of no more use, as if it were lost.       *)
StartSession(s) ==
    /\ status[s] = "absent"
    /\ status' = [status EXCEPT ![s] = "live"]
    /\ cursor' = [cursor EXCEPT ![s] = baseline]
    /\ start' = [start EXCEPT ![s] = baseline]
    /\ UNCHANGED <<log, leaving, request, baseline, seen, offered>>

EndSession(s) ==
    /\ status[s] = "live"
    /\ status' = [status EXCEPT ![s] = "ended"]
    /\ \E handoff \in BOOLEAN : leaving' = [leaving EXCEPT ![s] = handoff]
    /\ request' = [request EXCEPT ![s] = Idle]
    /\ offered' = [offered EXCEPT ![s] = {}]
    /\ UNCHANGED <<log, cursor, baseline, start, seen>>

\* Mutant: the successor starts at the end of the log.
Mutant_AckHandoff(s) ==
    /\ leaving[s]
    /\ leaving' = [leaving EXCEPT ![s] = FALSE]
    /\ baseline' = Max({baseline} \cup Visible)
    /\ UNCHANGED <<log, status, cursor, request, start, seen, offered>>

AckHandoff(s) ==
    /\ leaving[s]
    /\ leaving' = [leaving EXCEPT ![s] = FALSE]
    /\ baseline' = Advanced(baseline, cursor[s])
    /\ UNCHANGED <<log, status, cursor, request, start, seen, offered>>

-----------------------------------------------------------------------------
\* list_events_after: the first ScanCap visible events past the cursor.
Window(after) ==
    LET later == {i \in Visible : i > after}
    IN {i \in later : Cardinality({j \in later : j <= i}) <= ScanCap}

\* The first part of a sync: acknowledge one of the cursors offered, not always
\* the last one, or nothing new (0: a repeat of an earlier call), and read.
BeginSync(s, ack) ==
    /\ status[s] = "live"
    /\ ~request[s].active
    /\ LET effective == Advanced(cursor[s], ack)
       IN /\ cursor' = [cursor EXCEPT ![s] = effective]
          /\ request' = [request EXCEPT ![s] = [active |-> TRUE, effective |-> effective,
                                                scanned |-> Window(effective)]]
          /\ offered' = [offered EXCEPT ![s] = {o \in @ : o > effective}]
    /\ UNCHANGED <<log, status, leaving, baseline, start, seen>>

\* Mutant: the signals of other live sessions are not held.
Mutant_Pending(s, i) == FALSE

\* A signal for another live session that has not acknowledged it: it is not
\* delivered here, and the cursor may not pass it.
Pending(s, i) ==
    /\ log[i].kind = "signal"
    /\ log[i].target \notin {s, None}
    /\ status[log[i].target] = "live"
    /\ i > cursor[log[i].target]

\* What sync() answers s with: news, the task's signals and its own, and the
\* signals a session ended without acknowledging; never its own words back.
Matches(s, i) ==
    LET e == log[i]
    IN \/ e.kind \in {"news", "work"}
       \/ /\ e.kind = "signal"
          /\ IF e.target \in {s, None} THEN e.from # s
             ELSE status[e.target] = "ended" /\ i > cursor[e.target]

\* _collapse_ai_work: the last event of the work entry stands for the others.
WorkIn(matched) == {i \in matched : log[i].kind = "work"}
Collapsed(matched) == matched \ {i \in WorkIn(matched) : \E j \in WorkIn(matched) : j > i}
Floor(matched, i) == IF log[i].kind = "work" THEN Min(WorkIn(matched)) ELSE i

\* The furthest seq an answer could acknowledge: a full window is read to its end.
Reached(r, items) ==
    Max({r.effective} \cup items
          \cup IF Cardinality(r.scanned) = ScanCap THEN r.scanned ELSE {})

\* Mutants: what is left out does not block; the cursor never moves.
Mutant_NextCursor(r, items, blocking) == Reached(r, items)
Mutant_NextCursorStays(r, items, blocking) ==
    Min({r.effective} \cup {b - 1 : b \in blocking})

\* Past all that is delivered or was read and is not for s (a full window),
\* short of what blocks.
NextCursor(r, items, blocking) ==
    Min({Reached(r, items)} \cup {b - 1 : b \in blocking})

\* The items that fit: the first does, any later one may be too long.
Fitting(candidates) ==
    {items \in SUBSET candidates :
        /\ Cardinality(items) <= Limit
        /\ candidates = {} \/ Min(candidates) \in items}

\* trim_sync_block: a prefix of the items is kept, and next_cursor stays
\* below the first one dropped.
Trimmed(items) == IF items = {} THEN {{}} ELSE {{i \in items : i <= k} : k \in items}

\* The rest of sync(), which reads the task's sessions now, and the MCP tool.
Answers(s) ==
    LET r == request[s]
        matched == {i \in r.scanned : Matches(s, i)}
        candidates == Collapsed(matched)
        pending == {i \in r.scanned : Pending(s, i)}
    IN UNION {{[items |-> kept,
                next |-> NextCursor(r, items,
                                    pending \cup {Floor(matched, i) : i \in candidates \ items}
                                            \cup (items \ kept))]
               : kept \in Trimmed(items)} : items \in Fitting(candidates)}

\* The answer arrives, with at least its first item, if there is any.
Receive(s) ==
    /\ request[s].active
    /\ \E a \in Answers(s) :
         /\ seen' = [seen EXCEPT ![s] = @ \cup a.items]
         /\ offered' = [offered EXCEPT ![s] = @ \cup ({a.next} \ 0 .. cursor[s])]
    /\ request' = [request EXCEPT ![s] = Idle]
    /\ UNCHANGED <<log, sessionVars>>

\* The answer is lost or the request fails at any point after the
\* acknowledgement; an answer trimmed to nothing counts as lost.
Lose(s) ==
    /\ request[s].active
    /\ request' = [request EXCEPT ![s] = Idle]
    /\ UNCHANGED <<log, sessionVars, seen, offered>>

Sync(s) == \E ack \in offered[s] \cup {0} : BeginSync(s, ack)

Next ==
    \/ Insert
    \/ \E i \in DOMAIN log : Commit(i)
    \/ \E s \in Sessions :
         \/ StartSession(s)
         \/ EndSession(s)
         \/ AckHandoff(s)
         \/ Sync(s)
         \/ Receive(s)
         \/ Lose(s)

Spec == Init /\ [][Next]_vars

\* A live session keeps syncing, with the last cursor it was offered; a
\* request that is repeated is answered at last.
SyncOn(s) == BeginSync(s, Max(offered[s] \cup {0}))

FairSpec ==
    /\ Spec
    /\ \A s \in Sessions :
         /\ SF_vars(SyncOn(s))
         /\ SF_vars(Receive(s))

-----------------------------------------------------------------------------
\* The state of the log, the cursors and the requests is well formed: no
\* cursor, stored or offered, points past the log (an event to come would be
\* skipped), and a sync reads only past the cursor it starts from.
TypeOK ==
    /\ log \in Seq(Event) /\ Len(log) <= MaxEvents
    /\ status \in [Sessions -> {"absent", "live", "ended"}]
    /\ cursor \in [Sessions -> 0 .. Len(log)]
    /\ baseline \in 0 .. Len(log)
    /\ start \in [Sessions -> 0 .. Len(log)]
    /\ leaving \in [Sessions -> BOOLEAN]
    /\ \A s \in Sessions :
         /\ request[s].active \in BOOLEAN
         /\ request[s].effective \in 0 .. Len(log)
         /\ request[s].scanned \subseteq {i \in Visible : i > request[s].effective}
         /\ seen[s] \subseteq Visible
         /\ offered[s] \subseteq cursor[s] + 1 .. Len(log)

\* What s must learn, whatever the other sessions do.
Concerns(s, i) ==
    \/ log[i].kind \in {"news", "work"}
    \/ log[i].kind = "signal" /\ log[i].target \in {s, None} /\ log[i].from # s

\* s has received i, or a later event of the same work entry is in its place.
Learnt(s, i) ==
    \/ i \in seen[s]
    \/ log[i].kind = "work" /\ \E j \in Visible :
           j > i /\ log[j].kind = "work" /\ (j \in seen[s] \/ j > cursor[s])

Passed(s, i) == start[s] < i /\ i <= cursor[s]

\* No session's cursor passes an event that concerns it and became visible
\* in order, unless the session received it: not because the window or the
\* answer was cut, not because the answer was trimmed or lost, not because an
\* old cursor is acknowledged again (sync's "never past the first matched
\* event the bounds left out").
NothingSkipped ==
    \A s \in Sessions : \A i \in DOMAIN log :
        log[i].stage = "durable" /\ Concerns(s, i) /\ Passed(s, i) => Learnt(s, i)

\* A signal for one session reaches somebody before any cursor of the task is
\* past it, an inherited one included: if its target ends without having read
\* it, a session that stays or the next one gets it.
SignalsReachSomebody ==
    \A i \in DOMAIN log :
        /\ log[i].stage = "durable" /\ log[i].kind = "signal"
        /\ log[i].target \notin {log[i].from, None}
        /\ \E s \in Sessions : i <= cursor[s]
        => \E u \in Sessions : i \in seen[u]

\* A session that starts from what another one handed off misses only events
\* that one had received before it.
HandoffLosesNothing ==
    \A s \in Sessions : \A i \in DOMAIN log :
        /\ log[i].stage = "durable" /\ log[i].kind \in {"news", "work"}
        /\ status[s] # "absent" /\ i <= start[s]
        => \E u \in Sessions \ {s} : Passed(u, i) /\ Learnt(u, i)

\* Cursors only advance: acknowledging an old answer, two requests at once or
\* the late handoff of an older session moves none back.
CursorsOnlyAdvance ==
    [][/\ baseline' >= baseline
       /\ \A s \in Sessions : cursor'[s] >= cursor[s]]_vars

\* A session that addressed a signal to itself, which it is never shown.
TalksToItself == \E i \in DOMAIN log : log[i].target # None /\ log[i].target = log[i].from

\* A live session that keeps syncing learns of every event that concerns it
\* and became visible in order, whatever the cursors of the others hold back
\* for a while.
EventuallyLearnt ==
    \A s \in Sessions : \A i \in 1 .. MaxEvents :
        (/\ status[s] = "live"
         /\ i \in DOMAIN log /\ log[i].stage = "durable"
         /\ Concerns(s, i) /\ start[s] < i)
        ~> (\/ i \in DOMAIN log /\ Learnt(s, i)
            \/ status[s] = "ended"
            \/ TalksToItself)

\* "a strictly monotonic identity column ... safe to use as a no-loss/
\* no-duplicate resume cursor" (list_events_after), of every visible event.
NoLossCursor ==
    \A s \in Sessions : \A i \in Visible :
        Concerns(s, i) /\ Passed(s, i) => Learnt(s, i)
=============================================================================
