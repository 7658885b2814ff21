----------------------------- MODULE Sync_proofs -----------------------------
(* Proofs about Sync: for any sessions and window, any length of the log    *)
(* and any size of an answer.                                               *)
EXTENDS Sync, FiniteSetTheorems, SequenceTheorems, TLAPS

USE NoneAssumption, BoundsAssumption

Durable(i) == i \in DOMAIN log /\ log[i].stage = "durable"

Request == [active : BOOLEAN, effective : Nat, scanned : SUBSET Nat]

Typed ==
    /\ TypeOK
    /\ request \in [Sessions -> Request]
    /\ seen \in [Sessions -> SUBSET Nat]
    /\ offered \in [Sessions -> SUBSET Nat]

\* A cursor is not past all the events that can be seen: one committed in
\* order is past every cursor.
Anchored(c) == c = 0 \/ \E j \in Visible : j >= c

\* What reading up to c tells s of i: the event itself, or a later one of its
\* work entry, received or still to come.
Heard(s, i, c) ==
    \/ i \in seen[s]
    \/ /\ log[i].kind = "work"
       /\ \E j \in Visible : j > i /\ log[j].kind = "work" /\ (j \in seen[s] \/ j > c)

Sound(s, c) ==
    \A i \in DOMAIN log :
        Durable(i) /\ Concerns(s, i) /\ start[s] < i /\ i <= c => Heard(s, i, c)

\* c may be, or become, the cursor of s.
Within(s, c) == c = cursor[s] \/ c \in offered[s]

CursorsSound == \A s \in Sessions : \A c \in Nat : Within(s, c) => Anchored(c) /\ Sound(s, c)

\* An event past the cursor that the request's window leaves out is past all of
\* it, or was committed too late.
WindowWhole(s) ==
    \A i \in DOMAIN log : \A k \in request[s].scanned :
        Durable(i) /\ cursor[s] < i /\ i < k => i \in request[s].scanned

\* j, a later event than the cursor, is in the window or past it.
Ahead(s, j) ==
    j > cursor[s] /\ (j \in request[s].scanned \/ \A k \in request[s].scanned : k < j)

\* While a request is served, what stands for an earlier event of its work
\* entry was there when the window was read.
WorkAhead(s) ==
    \A i \in DOMAIN log :
        Durable(i) /\ Concerns(s, i) /\ start[s] < i /\ i <= cursor[s] =>
            \/ i \in seen[s]
            \/ /\ log[i].kind = "work"
               /\ \E j \in Visible : j > i /\ log[j].kind = "work"
                                     /\ (j \in seen[s] \/ Ahead(s, j))

RequestsSound ==
    \A s \in Sessions : request[s].active =>
        /\ status[s] = "live"
        /\ request[s].effective = cursor[s]
        /\ WindowWhole(s)
        /\ WorkAhead(s)

\* A signal is for a session that exists, and is received by some session
\* before any cursor may pass it.
Addressed(i) == log[i].kind = "signal" /\ log[i].target \notin {log[i].from, None}

SignalsSound ==
    /\ \A i \in DOMAIN log : log[i].target # None => status[log[i].target] # "absent"
    /\ \A i \in DOMAIN log, s \in Sessions : \A c \in Nat :
           Durable(i) /\ Addressed(i) /\ Within(s, c) /\ i <= c =>
               \E u \in Sessions : i \in seen[u]

\* The baseline is made of what ended sessions went through.
HandoffsSound ==
    /\ \A i \in 1 .. baseline :
           \E u \in Sessions : status[u] = "ended" /\ Passed(u, i)
    /\ \A s \in Sessions : start[s] <= baseline
    /\ \A s \in Sessions : leaving[s] => status[s] = "ended"
    /\ \A s \in Sessions : start[s] <= cursor[s]
    /\ \A s \in Sessions : status[s] = "absent" => cursor[s] = 0

OnlyLiveAreOffered == \A s \in Sessions : status[s] # "live" => offered[s] = {}

IInv ==
    Typed /\ OnlyLiveAreOffered /\ CursorsSound /\ RequestsSound /\ SignalsSound /\ HandoffsSound

-----------------------------------------------------------------------------
(* Least and greatest elements.                                             *)
LEMMA MinOf ==
    ASSUME NEW S \in SUBSET Nat, S # {}
    PROVE  Min(S) \in S /\ \A y \in S : Min(S) <= y
<1>1. PICK x \in S : \A y \in S : ~(<<y, x>> \in OpToRel(<, Nat))
  BY NatLessThanWellFounded, WFMin, Zenon
<1>2. \A y \in S : x <= y
  <2> SUFFICES ASSUME NEW y \in S PROVE x <= y
    OBVIOUS
  <2>1. ~(y < x)
    BY <1>1 DEF OpToRel
  <2> QED BY <2>1
<1> QED BY <1>2 DEF Min

LEMMA MaxOf ==
    ASSUME NEW n \in Nat, NEW S \in SUBSET (0 .. n), S # {}
    PROVE  Max(S) \in S /\ \A y \in S : Max(S) >= y
<1> DEFINE T == {n - x : x \in S}
<1>1. T \in SUBSET Nat /\ T # {}
  <2>1. \A x \in S : n - x \in Nat
    OBVIOUS
  <2>2. PICK x \in S : TRUE
    OBVIOUS
  <2>3. n - x \in T
    OBVIOUS
  <2> QED BY <2>1, <2>3
<1>2. Min(T) \in T /\ \A y \in T : Min(T) <= y
  BY <1>1, MinOf
<1>3. PICK x \in S : Min(T) = n - x
  BY <1>2
<1>4. \A y \in S : x >= y
  <2> SUFFICES ASSUME NEW y \in S PROVE x >= y
    OBVIOUS
  <2>1. Min(T) <= n - y
    BY <1>2
  <2>2. x \in 0 .. n /\ y \in 0 .. n
    OBVIOUS
  <2> HIDE DEF T
  <2> QED BY <1>3, <2>1, <2>2
<1> QED BY <1>4 DEF Max

-----------------------------------------------------------------------------
(* The log.                                                                 *)
LEMMA Positions ==
    ASSUME Typed
    PROVE  /\ DOMAIN log = 1 .. Len(log) /\ Len(log) \in Nat
           /\ \A i \in DOMAIN log : i \in Nat /\ log[i] \in Event
           /\ Visible \subseteq DOMAIN log
           /\ \A i : Durable(i) => i \in Visible
BY DEF Typed, TypeOK, Visible, Durable

\* A cursor of a session is a position of the log or 0.
LEMMA CursorPositions ==
    ASSUME IInv, NEW s \in Sessions, NEW c \in Nat, Within(s, c)
    PROVE  c \in 0 .. Len(log)
BY Positions DEF IInv, CursorsSound, Anchored

\* What the steps do to the log: events are added and become visible, those
\* committed in order after all that were visible.
LogMoves ==
    /\ log' \in Seq(Event) /\ Len(log') \in Len(log) .. MaxEvents
    /\ \A i \in DOMAIN log :
         /\ log'[i].kind = log[i].kind
         /\ log'[i].target = log[i].target
         /\ log'[i].from = log[i].from
    /\ Visible \subseteq Visible'
    /\ \A i \in DOMAIN log' :
         log'[i].stage = "durable" => Durable(i) \/ \A j \in Visible : j < i

LEMMA SameLog == ASSUME Typed, UNCHANGED log PROVE LogMoves /\ Visible' = Visible
BY Positions DEF Typed, TypeOK, LogMoves, Visible, Durable

LEMMA InsertMoves == ASSUME Typed, Insert PROVE LogMoves
<1>1. PICK e \in Emittable : log' = Append(log, e) /\ Len(log) < MaxEvents
  BY DEF Insert
<1>2. e \in Event /\ e.stage = "flushed"
  BY DEF Emittable, Event, Plain, SignalOf, Kinds
<1>3. /\ log' \in Seq(Event) /\ Len(log') = Len(log) + 1
      /\ \A i \in 1 .. Len(log) : log'[i] = log[i]
      /\ log'[Len(log) + 1] = e
  BY <1>1, <1>2, AppendProperties DEF Typed, TypeOK
<1>4. DOMAIN log' = 1 .. Len(log) + 1
  BY <1>3
<1>5. MaxEvents \in Nat
  OBVIOUS
<1> QED
  BY <1>1, <1>2, <1>3, <1>4, <1>5, Positions DEF LogMoves, Visible, Durable

LEMMA CommitMoves == ASSUME Typed, NEW i \in DOMAIN log, Commit(i) PROVE LogMoves
<1> DEFINE stage == IF \E j \in Visible : j > i THEN "late" ELSE "durable"
<1>1. i \in DOMAIN log /\ i \notin Visible /\ log' = [log EXCEPT ![i].stage = stage]
  BY DEF Commit
<1>2. log[i] \in Event /\ stage \in {"late", "durable"}
  BY Positions
<1>3. [log[i] EXCEPT !.stage = stage] \in Event
  BY <1>2 DEF Event
<1>4. /\ log' \in Seq(Event) /\ Len(log') = Len(log) /\ DOMAIN log' = DOMAIN log
      /\ log'[i] = [log[i] EXCEPT !.stage = stage]
      /\ \A k \in DOMAIN log \ {i} : log'[k] = log[k]
  BY <1>1, <1>3, Positions DEF Typed, TypeOK
<1>5. /\ log'[i].kind = log[i].kind /\ log'[i].target = log[i].target
      /\ log'[i].from = log[i].from /\ log'[i].stage = stage
  BY <1>2, <1>4 DEF Event
<1>6. stage = "durable" => \A j \in Visible : j < i
  BY <1>1, Positions
<1> HIDE DEF stage
<1>7. Visible \subseteq Visible'
  BY <1>1, <1>4, <1>5, Positions DEF Visible
<1>8. Len(log') \in Len(log) .. MaxEvents
  BY <1>4, Positions DEF Typed, TypeOK
<1> QED
  BY <1>1, <1>4, <1>5, <1>6, <1>7, <1>8, Positions DEF LogMoves, Durable

-----------------------------------------------------------------------------
(* What the invariant keeps while the log moves.                            *)
LEMMA HeardGrows ==
    ASSUME Typed, LogMoves, NEW s \in Sessions, NEW i \in DOMAIN log, NEW c \in Nat,
           seen[s] \subseteq seen'[s], Heard(s, i, c)
    PROVE  Heard(s, i, c)'
BY Positions DEF Heard, LogMoves

LEMMA SamePositions ==
    ASSUME Typed, LogMoves
    PROVE  /\ DOMAIN log' = 1 .. Len(log') /\ Len(log') \in Nat
           /\ DOMAIN log \subseteq DOMAIN log'
           /\ \A i : Durable(i)' => Durable(i) \/ \A j \in Visible : j < i
BY Positions DEF LogMoves, Durable

\* A cursor that no event appears behind stays as good as it is.
LEMMA SoundKept ==
    ASSUME IInv, LogMoves, NEW s \in Sessions, NEW c \in Nat, Within(s, c),
           seen[s] \subseteq seen'[s], start'[s] = start[s]
    PROVE  Anchored(c)' /\ Sound(s, c)'
<1>1. Typed /\ Anchored(c) /\ Sound(s, c)
  BY DEF IInv, CursorsSound
<1>2. Anchored(c)'
  BY <1>1 DEF Anchored, LogMoves
<1>3. ASSUME NEW i \in DOMAIN log', Durable(i)', Concerns(s, i)', start[s] < i, i <= c
      PROVE  Heard(s, i, c)'
  <2>1. i \in Nat \ {0}
    BY <1>1, SamePositions
  <2>2. Durable(i)
    BY <1>1, <1>3, <2>1, SamePositions, Positions DEF Anchored
  <2>3. i \in DOMAIN log /\ Concerns(s, i)
    BY <1>3, <2>2 DEF Durable, LogMoves, Concerns
  <2> QED BY <1>1, <1>3, <2>2, <2>3, HeardGrows DEF Sound
<1> QED BY <1>2, <1>3 DEF Sound

LEMMA SignalKept ==
    ASSUME IInv, LogMoves, NEW s \in Sessions, NEW c \in Nat, Within(s, c),
           \A u \in Sessions : seen[u] \subseteq seen'[u],
           NEW i \in DOMAIN log', Durable(i)', Addressed(i)', i <= c
    PROVE  \E u \in Sessions : i \in seen'[u]
<1>1. Typed /\ Anchored(c)
  BY DEF IInv, CursorsSound
<1>2. i \in Nat \ {0}
  BY <1>1, SamePositions
<1>3. Durable(i)
  BY <1>1, <1>2, SamePositions, Positions DEF Anchored
<1>4. i \in DOMAIN log /\ Addressed(i)
  BY <1>3 DEF Durable, LogMoves, Addressed
<1> QED BY <1>3, <1>4 DEF IInv, SignalsSound

LEMMA RequestKept ==
    ASSUME IInv, LogMoves, NEW s \in Sessions, request[s].active,
           request'[s] = request[s], cursor'[s] = cursor[s], start'[s] = start[s],
           seen[s] \subseteq seen'[s]
    PROVE  WindowWhole(s)' /\ WorkAhead(s)'
<1>1. Typed /\ WindowWhole(s) /\ WorkAhead(s)
  BY DEF IInv, RequestsSound
<1>2. request[s].scanned \subseteq Visible
  BY <1>1 DEF Typed, TypeOK
<1>3. WindowWhole(s)'
  <2> SUFFICES ASSUME NEW i \in DOMAIN log', NEW k \in request[s].scanned,
                      Durable(i)', cursor[s] < i, i < k
               PROVE  i \in request[s].scanned
    BY DEF WindowWhole
  <2>1. Durable(i)
    BY <1>1, <1>2, SamePositions, Positions
  <2> QED BY <1>1, <2>1 DEF WindowWhole, Durable
<1>4. WorkAhead(s)'
  <2> SUFFICES ASSUME NEW i \in DOMAIN log', Durable(i)', Concerns(s, i)',
                      start[s] < i, i <= cursor[s]
               PROVE  \/ i \in seen'[s]
                      \/ /\ log'[i].kind = "work"
                         /\ \E j \in Visible' : j > i /\ log'[j].kind = "work"
                                                /\ (j \in seen'[s] \/ Ahead(s, j)')
    BY DEF WorkAhead
  <2>1. cursor[s] \in Nat /\ Anchored(cursor[s])
    BY <1>1 DEF IInv, CursorsSound, Within, Typed, TypeOK
  <2>2. i \in Nat \ {0}
    BY <1>1, SamePositions
  <2>3. Durable(i)
    BY <1>1, <2>1, <2>2, SamePositions, Positions DEF Anchored
  <2>4. i \in DOMAIN log /\ Concerns(s, i)
    BY <2>3 DEF Durable, LogMoves, Concerns
  <2>5. \A j : Ahead(s, j) => Ahead(s, j)'
    BY DEF Ahead
  <2> QED BY <1>1, <2>3, <2>4, <2>5, Positions DEF WorkAhead, LogMoves
<1> QED BY <1>3, <1>4

-----------------------------------------------------------------------------
(* Steps.                                                                   *)
LEMMA DroppedRequest ==
    ASSUME Typed, NEW s \in Sessions, request' = [request EXCEPT ![s] = Idle]
    PROVE  /\ request' \in [Sessions -> Request]
           /\ \A t \in Sessions : request'[t].active =>
                  t # s /\ request[t].active /\ request'[t] = request[t]
           /\ \A t \in Sessions :
                /\ request'[t].active \in BOOLEAN
                /\ request'[t].effective \in 0 .. Len(log)
                /\ request'[t].scanned \subseteq {i \in Visible : i > request'[t].effective}
<1>1. Idle \in Request /\ ~Idle.active /\ Idle.effective = 0 /\ Idle.scanned = {}
  BY DEF Idle, Request
<1>2. Len(log) \in Nat
  BY Positions
<1>3. \A t \in Sessions : request'[t] = IF t = s THEN Idle ELSE request[t]
  BY DEF Typed
<1>4. request' \in [Sessions -> Request]
  BY <1>1 DEF Typed
<1>5. \A t \in Sessions :
        /\ request[t].active \in BOOLEAN
        /\ request[t].effective \in 0 .. Len(log)
        /\ request[t].scanned \subseteq {i \in Visible : i > request[t].effective}
  BY DEF Typed, TypeOK
<1> HIDE DEF Idle
<1> QED BY <1>1, <1>2, <1>3, <1>4, <1>5 DEF Request

\* A step that offers no cursor preserves what is said of cursors and signals,
\* and of the requests it leaves alone.
LEMMA QuietCursors ==
    ASSUME IInv, LogMoves,
           \A s \in Sessions : seen[s] \subseteq seen'[s],
           \A s \in Sessions : \A c \in Nat :
               Within(s, c)' => Within(s, c) /\ start'[s] = start[s],
           \A i \in DOMAIN log' :
               log'[i].target # None => status'[log'[i].target] # "absent"
    PROVE  CursorsSound' /\ SignalsSound'
<1>1. CursorsSound'
  BY SoundKept DEF CursorsSound
<1>2. SignalsSound'
  BY SignalKept DEF SignalsSound
<1> QED BY <1>1, <1>2

LEMMA QuietStep ==
    ASSUME IInv, LogMoves,
           \A s \in Sessions : seen[s] \subseteq seen'[s],
           \A s \in Sessions : \A c \in Nat :
               Within(s, c)' => Within(s, c) /\ start'[s] = start[s],
           \A s \in Sessions : request'[s].active =>
               /\ request[s].active /\ request'[s] = request[s]
               /\ cursor'[s] = cursor[s] /\ start'[s] = start[s] /\ status'[s] = status[s],
           \A i \in DOMAIN log' :
               log'[i].target # None => status'[log'[i].target] # "absent"
    PROVE  CursorsSound' /\ RequestsSound' /\ SignalsSound'
<1>1. RequestsSound'
  BY RequestKept DEF IInv, RequestsSound
<1> QED BY <1>1, QuietCursors

LEMMA SameHandoffs ==
    ASSUME HandoffsSound, UNCHANGED sessionVars PROVE HandoffsSound'
BY DEF HandoffsSound, sessionVars, Passed

LEMMA LogStepInv ==
    ASSUME IInv, Insert \/ \E i \in DOMAIN log : Commit(i) PROVE IInv'
<1>1. Typed /\ HandoffsSound
  BY DEF IInv
<1>2. UNCHANGED <<sessionVars, request, seen, offered>>
  BY DEF Insert, Commit
<1>3. LogMoves
  BY <1>1, InsertMoves, CommitMoves
<1>4. Typed'
  <2>1. \A s \in Sessions : request'[s].scanned \subseteq {i \in Visible' : i > request'[s].effective}
    BY <1>1, <1>2, <1>3 DEF Typed, TypeOK, LogMoves
  <2>2. log' \in Seq(Event) /\ Len(log') <= MaxEvents /\ Len(log) <= Len(log')
        /\ Len(log') \in Nat /\ Len(log) \in Nat
    BY <1>1, <1>3, SamePositions, Positions DEF LogMoves
  <2>3. \A s \in Sessions : seen'[s] \subseteq Visible'
    BY <1>1, <1>2, <1>3 DEF Typed, TypeOK, LogMoves
  <2>4. /\ cursor \in [Sessions -> 0 .. Len(log')] /\ start \in [Sessions -> 0 .. Len(log')]
        /\ baseline \in 0 .. Len(log')
        /\ \A s \in Sessions : request[s].effective \in 0 .. Len(log')
        /\ \A s \in Sessions : offered[s] \subseteq cursor[s] + 1 .. Len(log')
    BY <1>1, <2>2 DEF Typed, TypeOK
  <2> QED
    BY <1>1, <1>2, <2>1, <2>2, <2>3, <2>4 DEF Typed, TypeOK, sessionVars
<1>5. \A i \in DOMAIN log' : log'[i].target # None => status[log'[i].target] # "absent"
  <2>1. CASE Insert
    <3>1. PICK e \in Emittable : log' = Append(log, e)
      BY <2>1 DEF Insert
    <3>2. e.target # None => status[e.target] = "live"
      BY <3>1 DEF Emittable, Plain, SignalOf
    <3>3. e \in Event
      BY <3>1 DEF Emittable, Event, Plain, SignalOf, Kinds
    <3>4. \A i \in DOMAIN log' : log'[i] = e \/ (i \in DOMAIN log /\ log'[i] = log[i])
      BY <1>1, <3>1, <3>3, AppendProperties, Positions DEF Typed, TypeOK
    <3> QED BY <3>2, <3>4 DEF IInv, SignalsSound
  <2>2. CASE \E i \in DOMAIN log : Commit(i)
    <3>1. DOMAIN log' = DOMAIN log
      BY <1>1, <2>2, Positions DEF Commit
    <3> QED BY <1>3, <3>1 DEF LogMoves, IInv, SignalsSound
  <2> QED BY <2>1, <2>2
<1>6. \A s \in Sessions : \A c : Within(s, c)' <=> Within(s, c)
  BY <1>2 DEF Within, sessionVars
<1>7. HandoffsSound'
  BY <1>1, <1>2, SameHandoffs
<1>8. CursorsSound' /\ RequestsSound' /\ SignalsSound'
  BY <1>2, <1>3, <1>5, <1>6, QuietStep DEF sessionVars
<1>9. OnlyLiveAreOffered'
  BY <1>2 DEF IInv, OnlyLiveAreOffered, sessionVars
<1> QED BY <1>4, <1>7, <1>8, <1>9 DEF IInv

\* The baseline is behind a cursor of a session that ended.
LEMMA BaselineBehind ==
    ASSUME IInv, baseline # 0
    PROVE  \E u \in Sessions : status[u] = "ended" /\ baseline <= cursor[u]
<1>1. baseline \in 1 .. baseline
  BY DEF IInv, Typed, TypeOK
<1> QED BY <1>1 DEF IInv, HandoffsSound, Passed

LEMMA StartSessionInv ==
    ASSUME IInv, NEW s \in Sessions, StartSession(s) PROVE IInv'
<1>1. Typed /\ HandoffsSound /\ baseline \in Nat /\ LogMoves /\ Visible' = Visible
  BY SameLog, SMTT(40) DEF IInv, StartSession, Typed, TypeOK
<1>2. /\ status[s] = "absent" /\ offered[s] = {} /\ ~request[s].active
  BY DEF StartSession, IInv, OnlyLiveAreOffered, RequestsSound
<1>3. /\ cursor' = [cursor EXCEPT ![s] = baseline] /\ start' = [start EXCEPT ![s] = baseline]
      /\ status' = [status EXCEPT ![s] = "live"]
      /\ UNCHANGED <<log, leaving, request, baseline, seen, offered>>
  BY DEF StartSession
<1>4. Typed' /\ OnlyLiveAreOffered'
  BY <1>1, <1>2, <1>3 DEF Typed, TypeOK, IInv, OnlyLiveAreOffered
<1>5. ASSUME NEW t \in Sessions, NEW c \in Nat, Within(t, c)'
      PROVE  (t = s /\ c = baseline) \/ (t # s /\ Within(t, c) /\ start'[t] = start[t])
  BY <1>1, <1>2, <1>3, <1>5 DEF Within, Typed, TypeOK
<1>6. Anchored(baseline) /\ \A i \in DOMAIN log :
          Durable(i) /\ Addressed(i) /\ i <= baseline => \E u \in Sessions : i \in seen[u]
  <2>1. CASE baseline = 0
    BY <1>1, <2>1, Positions DEF Anchored
  <2>2. CASE baseline # 0
    <3>1. PICK u \in Sessions : baseline <= cursor[u]
      BY <2>2, BaselineBehind
    <3>2. cursor[u] \in Nat /\ Within(u, cursor[u])
      BY <1>1 DEF Typed, TypeOK, Within
    <3>3. Anchored(cursor[u])
      BY <3>2 DEF IInv, CursorsSound
    <3>4. Anchored(baseline)
      BY <1>1, <2>2, <3>1, <3>2, <3>3, Positions DEF Anchored
    <3>5. ASSUME NEW i \in DOMAIN log, Durable(i), Addressed(i), i <= baseline
          PROVE  \E v \in Sessions : i \in seen[v]
      <4>1. i <= cursor[u]
        BY <1>1, <3>1, <3>2, <3>5, Positions
      <4> QED BY <3>2, <3>5, <4>1 DEF IInv, SignalsSound
    <3> QED BY <3>4, <3>5
  <2> QED BY <2>1, <2>2
<1>7. CursorsSound'
  <2> SUFFICES ASSUME NEW t \in Sessions, NEW c \in Nat, Within(t, c)'
               PROVE  Anchored(c)' /\ Sound(t, c)'
    BY DEF CursorsSound
  <2>1. CASE t = s /\ c = baseline
    BY <1>1, <1>3, <1>6, <2>1, SamePositions DEF Anchored, Sound, Typed, TypeOK
  <2>2. CASE t # s /\ Within(t, c) /\ start'[t] = start[t]
    BY <1>1, <1>3, <2>2, SoundKept
  <2> QED BY <1>5, <2>1, <2>2
<1>8. SignalsSound'
  <2>1. \A i \in DOMAIN log' : log'[i].target # None => status'[log'[i].target] # "absent"
    BY <1>1, <1>3, Positions DEF IInv, SignalsSound, Typed, TypeOK, Event
  <2>2. ASSUME NEW i \in DOMAIN log', NEW t \in Sessions, NEW c \in Nat,
               Durable(i)', Addressed(i)', Within(t, c)', i <= c
        PROVE  \E u \in Sessions : i \in seen'[u]
    <3>1. CASE t = s /\ c = baseline
      BY <1>3, <1>6, <2>2, <3>1 DEF Durable, Addressed
    <3>2. CASE t # s /\ Within(t, c)
      BY <1>1, <1>3, <2>2, <3>2, SignalKept
    <3> QED BY <1>5, <2>2, <3>1, <3>2
  <2> QED BY <2>1, <2>2 DEF SignalsSound
<1>9. RequestsSound'
  <2> SUFFICES ASSUME NEW t \in Sessions, request'[t].active
               PROVE  /\ status'[t] = "live" /\ request'[t].effective = cursor'[t]
                      /\ WindowWhole(t)' /\ WorkAhead(t)'
    BY DEF RequestsSound
  <2>1. t # s
    BY <1>2, <1>3
  <2>2. request'[t] = request[t] /\ cursor'[t] = cursor[t] /\ start'[t] = start[t]
        /\ status'[t] = status[t] /\ seen' = seen
    BY <1>1, <1>3, <2>1 DEF Typed, TypeOK
  <2> QED BY <1>1, <2>2, RequestKept DEF IInv, RequestsSound
<1>10. HandoffsSound'
  <2>1. \A u \in Sessions : status[u] = "ended" =>
            status'[u] = "ended" /\ \A i : Passed(u, i) => Passed(u, i)'
    BY <1>1, <1>2, <1>3 DEF Passed, Typed, TypeOK
  <2>2. \A t \in Sessions : start'[t] <= baseline /\ start'[t] <= cursor'[t]
    BY <1>1, <1>3 DEF HandoffsSound, Typed, TypeOK
  <2>3. \A t \in Sessions : leaving[t] => status'[t] = "ended"
    BY <1>1, <1>2, <1>3 DEF HandoffsSound, Typed, TypeOK
  <2>4. \A t \in Sessions : status'[t] = "absent" => cursor'[t] = 0
    BY <1>1, <1>3 DEF HandoffsSound, Typed, TypeOK
  <2> QED BY <1>1, <1>3, <2>1, <2>2, <2>3, <2>4 DEF HandoffsSound
<1> QED BY <1>4, <1>7, <1>8, <1>9, <1>10 DEF IInv

LEMMA EndSessionInv ==
    ASSUME IInv, NEW s \in Sessions, EndSession(s) PROVE IInv'
<1>1. Typed /\ HandoffsSound /\ LogMoves /\ Visible' = Visible
  BY SameLog DEF IInv, EndSession
<1>2. PICK handoff \in BOOLEAN : leaving' = [leaving EXCEPT ![s] = handoff]
  BY DEF EndSession
<1>3. /\ status' = [status EXCEPT ![s] = "ended"] /\ request' = [request EXCEPT ![s] = Idle]
      /\ offered' = [offered EXCEPT ![s] = {}]
      /\ UNCHANGED <<log, cursor, baseline, start, seen>>
  BY DEF EndSession
<1>4. Typed' /\ OnlyLiveAreOffered'
  <2>1. /\ \A t \in Sessions : offered'[t] = IF t = s THEN {} ELSE offered[t]
        /\ offered' \in [Sessions -> SUBSET Nat]
    BY <1>1, <1>3 DEF Typed
  <2>2. /\ status' \in [Sessions -> {"absent", "live", "ended"}]
        /\ leaving' \in [Sessions -> BOOLEAN]
        /\ \A t \in Sessions : status'[t] = IF t = s THEN "ended" ELSE status[t]
    BY <1>1, <1>2, <1>3 DEF Typed, TypeOK
  <2>3. \A t \in Sessions : offered'[t] \subseteq cursor'[t] + 1 .. Len(log')
    BY <1>1, <1>3, <2>1 DEF Typed, TypeOK
  <2>4. TypeOK'
    BY <1>1, <1>3, <2>2, <2>3, DroppedRequest DEF Typed, TypeOK
  <2> QED
    BY <1>1, <1>3, <2>1, <2>2, <2>4, DroppedRequest, ZenonT(30) DEF Typed, IInv, OnlyLiveAreOffered
<1>5. \A t \in Sessions : \A c \in Nat : Within(t, c)' => Within(t, c)
  BY <1>1, <1>3 DEF Within, Typed
<1>6. \A t \in Sessions : request'[t].active =>
          t # s /\ request[t].active /\ request'[t] = request[t] /\ status'[t] = status[t]
  BY <1>1, <1>3, DroppedRequest, ZenonT(30) DEF Typed, TypeOK
<1>7. \A i \in DOMAIN log' : log'[i].target # None => status'[log'[i].target] # "absent"
  BY <1>1, <1>3, Positions DEF IInv, SignalsSound, Typed, TypeOK, Event
<1>8. HandoffsSound'
  BY <1>1, <1>2, <1>3 DEF HandoffsSound, Passed, Typed, TypeOK
<1> QED BY <1>1, <1>3, <1>4, <1>5, <1>6, <1>7, <1>8, QuietStep DEF IInv

LEMMA AckHandoffInv ==
    ASSUME IInv, NEW s \in Sessions, AckHandoff(s) PROVE IInv'
<1>1. Typed /\ HandoffsSound /\ LogMoves /\ Visible' = Visible
  BY SameLog DEF IInv, AckHandoff
<1>2. /\ leaving[s] /\ leaving' = [leaving EXCEPT ![s] = FALSE]
      /\ baseline' = Advanced(baseline, cursor[s])
      /\ UNCHANGED <<log, status, cursor, request, start, seen, offered>>
  BY DEF AckHandoff
<1>3. baseline' \in 0 .. Len(log) /\ baseline' >= baseline
      /\ baseline' \in {baseline, cursor[s]} /\ baseline \in Nat /\ cursor[s] \in Nat
  BY <1>1, <1>2, Positions DEF Advanced, Typed, TypeOK
<1>4. Typed' /\ OnlyLiveAreOffered'
  BY <1>1, <1>2, <1>3 DEF Typed, TypeOK, IInv, OnlyLiveAreOffered
<1>5. HandoffsSound'
  <2>1. ASSUME NEW i \in 1 .. baseline'
        PROVE  \E u \in Sessions : status[u] = "ended" /\ Passed(u, i)
    <3>1. CASE i <= baseline
      BY <1>1, <1>3, <3>1 DEF HandoffsSound
    <3>2. CASE i > baseline
      <4>1. start[s] <= baseline /\ start[s] \in Nat /\ status[s] = "ended" /\ i <= cursor[s]
        BY <1>1, <1>2, <1>3, <3>2 DEF HandoffsSound, Typed, TypeOK
      <4> QED BY <1>3, <3>2, <4>1 DEF Passed
    <3> QED BY <1>3, <3>1, <3>2
  <2>2. \A t \in Sessions : start[t] <= baseline'
    BY <1>1, <1>3 DEF HandoffsSound, Typed, TypeOK
  <2> QED BY <1>1, <1>2, <2>1, <2>2 DEF HandoffsSound, Passed, Typed, TypeOK
<1>6. \A t \in Sessions : \A c \in Nat : Within(t, c)' => Within(t, c)
  BY <1>2 DEF Within
<1> QED
  BY <1>1, <1>2, <1>4, <1>5, <1>6, QuietStep DEF IInv, RequestsSound, SignalsSound

LEMMA LoseInv ==
    ASSUME IInv, NEW s \in Sessions, Lose(s) PROVE IInv'
<1>1. Typed /\ HandoffsSound /\ LogMoves /\ Visible' = Visible
  BY SameLog DEF IInv, Lose
<1>2. request' = [request EXCEPT ![s] = Idle] /\ UNCHANGED <<log, sessionVars, seen, offered>>
  BY DEF Lose
<1>3. Typed' /\ OnlyLiveAreOffered' /\ HandoffsSound'
  <2>1. TypeOK'
    BY <1>1, <1>2, DroppedRequest DEF Typed, TypeOK, sessionVars
  <2> QED
    BY <1>1, <1>2, <2>1, DroppedRequest, SameHandoffs
       DEF Typed, IInv, OnlyLiveAreOffered, sessionVars
<1>4. \A t \in Sessions : request'[t].active => request[t].active /\ request'[t] = request[t]
  BY <1>1, <1>2, DroppedRequest
<1>5. \A t \in Sessions : \A c \in Nat : Within(t, c)' => Within(t, c)
  BY <1>2 DEF Within, sessionVars
<1> QED
  BY <1>1, <1>2, <1>3, <1>4, <1>5, QuietStep DEF IInv, SignalsSound, sessionVars

\* A window leaves out no visible event before its last one.
LEMMA WindowClosed ==
    ASSUME Typed, NEW after \in Nat
    PROVE  /\ Window(after) \subseteq {i \in Visible : i > after}
           /\ \A i \in Visible, k \in Window(after) :
                  after < i /\ i < k => i \in Window(after)
<1> DEFINE later == {i \in Visible : i > after}
           upTo(i) == {j \in later : j <= i}
<1>1. Window(after) = {i \in later : Cardinality(upTo(i)) <= ScanCap}
  BY DEF Window
<1>2. later \subseteq 1 .. Len(log) /\ Len(log) \in Nat
  BY Positions
<1>3. \A i : IsFiniteSet(upTo(i))
  <2>1. IsFiniteSet(1 .. Len(log))
    BY <1>2, FS_Interval
  <2>2. \A i : upTo(i) \subseteq 1 .. Len(log)
    BY <1>2
  <2> HIDE DEF upTo
  <2> QED BY <2>1, <2>2, FS_Subset
<1>4. ASSUME NEW i \in later, NEW k \in Window(after), i < k
      PROVE  i \in Window(after)
  <2>1. k \in later /\ Cardinality(upTo(k)) <= ScanCap
    BY <1>1, <1>4
  <2>2. upTo(i) \subseteq upTo(k)
    BY <1>2, <1>4, <2>1
  <2> HIDE DEF upTo
  <2>3. Cardinality(upTo(i)) <= Cardinality(upTo(k))
    BY <1>3, <2>2, FS_Subset
  <2>4. Cardinality(upTo(i)) \in Nat /\ Cardinality(upTo(k)) \in Nat /\ ScanCap \in Nat
    BY <1>3, FS_CardinalityType
  <2>5. Cardinality(upTo(i)) <= ScanCap
    BY <2>1, <2>3, <2>4
  <2> QED BY <1>1, <1>4, <2>5
<1> QED BY <1>1, <1>4

LEMMA BeginSyncInv ==
    ASSUME IInv, NEW s \in Sessions, NEW ack \in offered[s] \cup {0}, BeginSync(s, ack)
    PROVE  IInv'
<1> DEFINE effective == Advanced(cursor[s], ack)
           window == Window(effective)
           begun == [active |-> TRUE, effective |-> effective, scanned |-> window]
<1>1. Typed /\ HandoffsSound /\ LogMoves /\ Visible' = Visible
  BY SameLog DEF IInv, BeginSync
<1>2. /\ status[s] = "live" /\ ~request[s].active
      /\ cursor' = [cursor EXCEPT ![s] = effective]
      /\ request' = [request EXCEPT ![s] = begun]
      /\ offered' = [offered EXCEPT ![s] = {o \in @ : o > effective}]
      /\ UNCHANGED <<log, status, leaving, baseline, start, seen>>
  BY DEF BeginSync
<1>3. /\ effective \in 0 .. Len(log) /\ effective >= cursor[s] /\ cursor[s] \in Nat
      /\ Within(s, effective) /\ effective \in Nat
  BY <1>1, Positions DEF Advanced, Within, Typed, TypeOK
<1>4. /\ window \subseteq {i \in Visible : i > effective}
      /\ \A i \in Visible, k \in window : effective < i /\ i < k => i \in window
  BY <1>1, <1>3, WindowClosed
<1> HIDE DEF effective, window
<1>5. begun \in Request
  BY <1>1, <1>3, <1>4, Positions DEF Request
<1>6. /\ \A t \in Sessions : request'[t] = IF t = s THEN begun ELSE request[t]
      /\ \A t \in Sessions : cursor'[t] = IF t = s THEN effective ELSE cursor[t]
      /\ \A t \in Sessions :
           offered'[t] = IF t = s THEN {o \in offered[s] : o > effective} ELSE offered[t]
  BY <1>1, <1>2 DEF Typed, TypeOK
<1>7. Typed' /\ OnlyLiveAreOffered'
  <2>1. /\ request' \in [Sessions -> Request] /\ offered' \in [Sessions -> SUBSET Nat]
        /\ cursor' \in [Sessions -> 0 .. Len(log)]
    BY <1>1, <1>2, <1>3, <1>5 DEF Typed, TypeOK
  <2>2. ASSUME NEW t \in Sessions
        PROVE  /\ request'[t].active \in BOOLEAN
               /\ request'[t].effective \in 0 .. Len(log)
               /\ request'[t].scanned \subseteq {i \in Visible : i > request'[t].effective}
               /\ offered'[t] \subseteq cursor'[t] + 1 .. Len(log)
    <3>1. CASE t = s
      <4>1. offered[s] \subseteq cursor[s] + 1 .. Len(log)
        BY <1>1 DEF Typed, TypeOK
      <4>2. Len(log) \in Nat
        BY <1>1, Positions
      <4>3. {o \in offered[s] : o > effective} \subseteq effective + 1 .. Len(log)
        BY <1>3, <4>1, <4>2
      <4>4. request'[t] = begun /\ cursor'[t] = effective
            /\ offered'[t] = {o \in offered[s] : o > effective}
        BY <1>6, <3>1
      <4> QED BY <1>3, <1>4, <4>3, <4>4
    <3>2. CASE t # s
      <4>1. request'[t] = request[t] /\ cursor'[t] = cursor[t] /\ offered'[t] = offered[t]
        BY <1>6, <3>2
      <4> QED BY <1>1, <4>1 DEF Typed, TypeOK
    <3> QED BY <3>1, <3>2
  <2> QED
    BY <1>1, <1>2, <1>6, <2>1, <2>2 DEF Typed, TypeOK, IInv, OnlyLiveAreOffered
<1>8. CursorsSound' /\ SignalsSound'
  <2>1. \A t \in Sessions : \A c \in Nat : Within(t, c)' => Within(t, c)
    BY <1>3, <1>6 DEF Within
  <2> QED BY <1>1, <1>2, <2>1, QuietCursors DEF IInv, SignalsSound
<1>9. WindowWhole(s)' /\ WorkAhead(s)'
  <2>1. request'[s].scanned = window /\ cursor'[s] = effective /\ start' = start /\ seen' = seen
    BY <1>2, <1>6
  <2>2. WindowWhole(s)'
    BY <1>1, <1>2, <1>4, <2>1, Positions DEF WindowWhole, Durable
  <2>3. Sound(s, effective)
    BY <1>3 DEF IInv, CursorsSound
  <2>4. ASSUME NEW i \in DOMAIN log, Durable(i), Concerns(s, i), start[s] < i, i <= effective
        PROVE  \/ i \in seen[s]
               \/ /\ log[i].kind = "work"
                  /\ \E j \in Visible : j > i /\ log[j].kind = "work"
                                         /\ (j \in seen[s] \/ Ahead(s, j)')
    <3>1. Heard(s, i, effective)
      BY <2>3, <2>4 DEF Sound
    <3>2. \A j \in Visible : j > effective => Ahead(s, j)'
      <4>1. \A j \in Visible, k \in window : j > effective /\ ~(k < j) => j \in window
        BY <1>1, <1>3, <1>4, Positions
      <4> QED BY <2>1, <4>1 DEF Ahead
    <3> QED BY <3>1, <3>2 DEF Heard
  <2> QED
    BY <1>1, <1>2, <2>1, <2>2, <2>4 DEF WorkAhead, Durable, Concerns
<1>10. RequestsSound'
  <2> SUFFICES ASSUME NEW t \in Sessions, request'[t].active
               PROVE  /\ status'[t] = "live" /\ request'[t].effective = cursor'[t]
                      /\ WindowWhole(t)' /\ WorkAhead(t)'
    BY DEF RequestsSound
  <2>1. CASE t = s
    BY <1>2, <1>6, <1>9, <2>1
  <2>2. CASE t # s
    <3>1. request'[t] = request[t] /\ cursor'[t] = cursor[t] /\ start' = start
          /\ status' = status /\ seen' = seen
      BY <1>2, <1>6, <2>2
    <3> QED BY <1>1, <3>1, RequestKept DEF IInv, RequestsSound
  <2> QED BY <2>1, <2>2
<1>11. HandoffsSound'
  <2>1. \A t \in Sessions : status[t] = "ended" => cursor'[t] = cursor[t]
    BY <1>2, <1>6
  <2>2. \A t \in Sessions :
            start[t] \in Nat /\ cursor[t] \in Nat /\ start[t] <= cursor[t]
    BY <1>1 DEF HandoffsSound, Typed, TypeOK
  <2>3. \A t \in Sessions : start[t] <= cursor'[t]
    BY <1>3, <1>6, <2>2
  <2> QED BY <1>1, <1>2, <2>1, <2>3 DEF HandoffsSound, Passed
<1> QED BY <1>7, <1>8, <1>10, <1>11 DEF IInv

-----------------------------------------------------------------------------
(* An answer.                                                               *)
LEMMA NextBounds ==
    ASSUME NEW n \in Nat, NEW r, r.effective \in 0 .. n, r.scanned \in SUBSET (1 .. n),
           NEW items \in SUBSET r.scanned, NEW blocking \in SUBSET (1 .. n)
    PROVE  /\ NextCursor(r, items, blocking) \in 0 .. n
           /\ \A b \in blocking : NextCursor(r, items, blocking) < b
           /\ \/ NextCursor(r, items, blocking) <= r.effective
              \/ \E k \in r.scanned : NextCursor(r, items, blocking) <= k
<1> DEFINE S == {r.effective} \cup items
                  \cup IF Cardinality(r.scanned) = ScanCap THEN r.scanned ELSE {}
           T == {Reached(r, items)} \cup {b - 1 : b \in blocking}
           next == NextCursor(r, items, blocking)
<1>1. S \in SUBSET (0 .. n) /\ S # {} /\ S \subseteq {r.effective} \cup r.scanned
  OBVIOUS
<1>2. Max(S) \in S
  <2> HIDE DEF S
  <2> QED BY <1>1, MaxOf
<1>3. Reached(r, items) = Max(S)
  BY DEF Reached
<1> HIDE DEF S
<1>4. Reached(r, items) \in 0 .. n /\ Reached(r, items) \in {r.effective} \cup r.scanned
  BY <1>1, <1>2, <1>3
<1>5. T \in SUBSET Nat /\ T # {} /\ Reached(r, items) \in T
  <2>1. \A b \in 1 .. n : b - 1 \in Nat
    OBVIOUS
  <2>2. \A b \in blocking : b \in 1 .. n
    OBVIOUS
  <2>3. {b - 1 : b \in blocking} \subseteq Nat
    BY <2>1, <2>2
  <2> QED BY <1>4, <2>3
<1>6. \A b \in blocking : b - 1 \in T
  OBVIOUS
<1>7. next = Min(T)
  BY DEF NextCursor
<1> HIDE DEF T, next
<1>8. next \in Nat /\ \A y \in T : next <= y
  BY <1>5, <1>7, MinOf
<1>9. next <= Reached(r, items) /\ \A b \in blocking : next <= b - 1
  BY <1>5, <1>6, <1>8
<1>10. next \in 0 .. n /\ \A b \in blocking : next < b
  BY <1>4, <1>8, <1>9
<1>11. next <= r.effective \/ \E k \in r.scanned : next <= k
  BY <1>4, <1>9
<1> QED BY <1>10, <1>11 DEF next

LEMMA AnswerShape ==
    ASSUME NEW s \in Sessions, NEW a \in Answers(s)
    PROVE  \E items \in Fitting(Collapsed({j \in request[s].scanned : Matches(s, j)})) :
           \E kept \in Trimmed(items) :
             a = [items |-> kept,
                  next |-> NextCursor(request[s], items,
                      {i \in request[s].scanned : Pending(s, i)}
                        \cup {Floor({j \in request[s].scanned : Matches(s, j)}, i) :
                               i \in Collapsed({j \in request[s].scanned : Matches(s, j)}) \ items}
                        \cup (items \ kept))]
BY DEF Answers

\* An answer gives all that concerns s up to its cursor, or what stands for it,
\* and passes no signal that another session has to read.
LEMMA AnswerSound ==
    ASSUME IInv, NEW s \in Sessions, request[s].active, NEW a \in Answers(s)
    PROVE  /\ a.items \subseteq request[s].scanned
           /\ a.next \in 0 .. Len(log)
           /\ a.next <= cursor[s] \/ \E k \in request[s].scanned : a.next <= k
           /\ \A i \in request[s].scanned : Pending(s, i) => a.next < i
           /\ \A i \in request[s].scanned :
                Matches(s, i) /\ i <= a.next =>
                    \/ i \in a.items
                    \/ /\ log[i].kind = "work"
                       /\ \E j \in request[s].scanned :
                            /\ j > i /\ log[j].kind = "work"
                            /\ j \in a.items \/ j > a.next
<1> DEFINE scanned == request[s].scanned
           matched == {i \in scanned : Matches(s, i)}
           candidates == Collapsed(matched)
           pending == {i \in scanned : Pending(s, i)}
<1>0. PICK items \in Fitting(candidates) : \E kept \in Trimmed(items) :
        a = [items |-> kept,
             next |-> NextCursor(request[s], items,
                 pending \cup {Floor(matched, i) : i \in candidates \ items}
                         \cup (items \ kept))]
  BY AnswerShape
<1>1. PICK kept \in Trimmed(items) :
        a = [items |-> kept,
             next |-> NextCursor(request[s], items,
                 pending \cup {Floor(matched, i) : i \in candidates \ items}
                         \cup (items \ kept))]
  BY <1>0
<1> DEFINE floors == {Floor(matched, i) : i \in candidates \ items}
           blocking == pending \cup floors \cup (items \ kept)
<1>2. Typed /\ Len(log) \in Nat /\ scanned \in SUBSET (1 .. Len(log))
      /\ request[s].effective = cursor[s] /\ cursor[s] \in 0 .. Len(log)
  BY Positions DEF IInv, Typed, TypeOK, RequestsSound
<1>3. items \subseteq candidates /\ candidates \subseteq matched /\ kept \subseteq items
  BY <1>1 DEF Fitting, Trimmed, Collapsed
<1>4. WorkIn(matched) \in SUBSET (1 .. Len(log)) /\ WorkIn(matched) \subseteq matched
      /\ WorkIn(matched) = {i \in matched : log[i].kind = "work"}
  BY <1>2 DEF WorkIn
<1>5. ASSUME NEW i \in candidates
      PROVE  /\ Floor(matched, i) \in 1 .. Len(log)
             /\ log[i].kind = "work" =>
                  \A j \in WorkIn(matched) : Floor(matched, i) <= j
             /\ log[i].kind # "work" => Floor(matched, i) = i
  <2>1. i \in matched /\ i \in 1 .. Len(log)
    BY <1>2, <1>3
  <2>2. CASE log[i].kind = "work"
    <3>1. i \in WorkIn(matched) /\ WorkIn(matched) \in SUBSET Nat
      BY <1>2, <1>4, <2>1, <2>2
    <3>2. Min(WorkIn(matched)) \in WorkIn(matched)
          /\ \A j \in WorkIn(matched) : Min(WorkIn(matched)) <= j
      BY <3>1, MinOf
    <3> QED BY <1>4, <2>2, <3>2 DEF Floor
  <2>3. CASE log[i].kind # "work"
    BY <2>1, <2>3 DEF Floor
  <2> QED BY <2>2, <2>3
<1> HIDE DEF matched, candidates
<1>6. blocking \in SUBSET (1 .. Len(log)) /\ items \in SUBSET scanned
  BY <1>2, <1>3, <1>5, ZenonT(30) DEF matched
<1>7. a.items = kept /\ a.next = NextCursor(request[s], items, blocking)
  BY <1>1
<1> HIDE DEF blocking
<1>8. /\ a.next \in 0 .. Len(log)
      /\ \A b \in blocking : a.next < b
      /\ a.next <= cursor[s] \/ \E k \in scanned : a.next <= k
  BY <1>2, <1>6, <1>7, NextBounds
<1>9. ASSUME NEW i \in candidates, i <= a.next, log[i].kind # "work"
      PROVE  i \in kept
  <2>1. i \in 1 .. Len(log)
    BY <1>2, <1>3 DEF matched
  <2>2. i \in items
    <3> SUFFICES ASSUME i \notin items PROVE FALSE
      OBVIOUS
    <3>1. Floor(matched, i) \in blocking /\ Floor(matched, i) = i
      BY <1>5, <1>9 DEF blocking
    <3> QED BY <1>8, <1>9, <2>1, <3>1
  <2>3. i \in items \ kept => a.next < i
    BY <1>8 DEF blocking
  <2> QED BY <1>8, <1>9, <2>1, <2>2, <2>3
<1>10. ASSUME NEW i \in matched, i <= a.next
       PROVE  \/ i \in a.items
              \/ /\ log[i].kind = "work"
                 /\ \E j \in scanned : /\ j > i /\ log[j].kind = "work"
                                       /\ j \in a.items \/ j > a.next
  <2>1. i \in scanned /\ i \in 1 .. Len(log) /\ a.next \in Nat
    BY <1>2, <1>8 DEF matched
  <2>2. CASE log[i].kind # "work"
    <3>1. i \in candidates
      BY <1>4, <2>2 DEF candidates, Collapsed
    <3> QED BY <1>7, <1>9, <1>10, <2>2, <3>1
  <2>3. CASE log[i].kind = "work"
    <3> DEFINE m == Max(WorkIn(matched))
    <3>1. i \in WorkIn(matched)
      BY <1>4, <2>3
    <3>2. m \in WorkIn(matched) /\ \A j \in WorkIn(matched) : m >= j
      <4>1. WorkIn(matched) \in SUBSET (0 .. Len(log))
        BY <1>2, <1>4
      <4> QED BY <1>2, <3>1, <4>1, MaxOf
    <3> HIDE DEF m
    <3>3. m \in matched /\ log[m].kind = "work" /\ m \in 1 .. Len(log) /\ m \in scanned
      BY <1>2, <1>4, <3>2 DEF matched
    <3>4. m \in candidates
      <4>1. \A j \in WorkIn(matched) : ~(j > m)
        BY <1>4, <3>2, <3>3
      <4> QED BY <3>3, <4>1 DEF candidates, Collapsed
    <3>5. m \in items
      <4> SUFFICES ASSUME m \notin items PROVE FALSE
        OBVIOUS
      <4>1. Floor(matched, m) \in blocking /\ Floor(matched, m) <= i
        BY <1>5, <3>1, <3>3, <3>4 DEF blocking
      <4>2. Floor(matched, m) \in 1 .. Len(log) /\ a.next < Floor(matched, m)
        BY <1>5, <1>8, <3>4, <4>1
      <4> QED BY <1>10, <2>1, <4>1, <4>2
    <3>6. m \in kept \/ a.next < m
      BY <1>8, <3>5 DEF blocking
    <3>7. m = i \/ m > i
      BY <2>1, <3>1, <3>2, <3>3
    <3> QED BY <1>7, <1>10, <2>1, <2>3, <3>3, <3>6, <3>7
  <2> QED BY <2>2, <2>3
<1>11. \A i \in scanned : Pending(s, i) => a.next < i
  BY <1>8 DEF blocking
<1>12. a.items \subseteq scanned
  BY <1>3, <1>6, <1>7
<1> QED BY <1>8, <1>10, <1>11, <1>12 DEF matched

LEMMA ReceiveInv ==
    ASSUME IInv, NEW s \in Sessions, Receive(s) PROVE IInv'
<1>1. Typed /\ HandoffsSound /\ LogMoves /\ Visible' = Visible
  BY SameLog DEF IInv, Receive
<1>2. PICK a \in Answers(s) :
        /\ seen' = [seen EXCEPT ![s] = @ \cup a.items]
        /\ offered' = [offered EXCEPT ![s] = @ \cup ({a.next} \ 0 .. cursor[s])]
  BY DEF Receive
<1>3. /\ request[s].active /\ request' = [request EXCEPT ![s] = Idle]
      /\ UNCHANGED <<log, status, cursor, leaving, baseline, start>>
  BY DEF Receive, sessionVars
<1>4. /\ status[s] = "live" /\ request[s].effective = cursor[s] /\ WindowWhole(s) /\ WorkAhead(s)
      /\ cursor[s] \in Nat /\ cursor[s] \in 0 .. Len(log) /\ Len(log) \in Nat
      /\ request[s].scanned \subseteq {i \in Visible : i > cursor[s]}
  BY <1>1, <1>3, Positions DEF IInv, RequestsSound, Typed, TypeOK
<1>5. /\ a.items \subseteq request[s].scanned
      /\ a.next \in 0 .. Len(log)
      /\ a.next <= cursor[s] \/ \E k \in request[s].scanned : a.next <= k
      /\ \A i \in request[s].scanned : Pending(s, i) => a.next < i
  BY <1>3, AnswerSound
<1>6. \A i \in request[s].scanned :
        Matches(s, i) /\ i <= a.next =>
            \/ i \in a.items
            \/ /\ log[i].kind = "work"
               /\ \E j \in request[s].scanned :
                    /\ j > i /\ log[j].kind = "work"
                    /\ j \in a.items \/ j > a.next
  BY <1>3, AnswerSound
<1>7. /\ \A t \in Sessions : seen'[t] = IF t = s THEN seen[s] \cup a.items ELSE seen[t]
      /\ \A t \in Sessions : offered'[t] = IF t = s THEN offered[s] \cup ({a.next} \ 0 .. cursor[s])
                                          ELSE offered[t]
      /\ \A t \in Sessions : seen[t] \subseteq seen'[t]
  BY <1>1, <1>2 DEF Typed
<1>8. Typed' /\ OnlyLiveAreOffered'
  <2>1. seen' \in [Sessions -> SUBSET Nat] /\ offered' \in [Sessions -> SUBSET Nat]
    <3>1. a.items \subseteq Nat /\ {a.next} \ 0 .. cursor[s] \subseteq Nat
      BY <1>1, <1>4, <1>5, Positions
    <3> QED BY <1>1, <1>2, <3>1 DEF Typed
  <2>2. \A t \in Sessions : seen'[t] \subseteq Visible
    BY <1>1, <1>4, <1>5, <1>7 DEF Typed, TypeOK
  <2>3. \A t \in Sessions : offered'[t] \subseteq cursor[t] + 1 .. Len(log)
    <3>1. {a.next} \ 0 .. cursor[s] \subseteq cursor[s] + 1 .. Len(log)
      BY <1>4, <1>5
    <3> QED BY <1>1, <1>7, <3>1 DEF Typed, TypeOK
  <2>4. TypeOK'
    BY <1>1, <1>3, <2>2, <2>3, DroppedRequest DEF Typed, TypeOK
  <2> QED
    BY <1>1, <1>3, <1>4, <1>7, <2>1, <2>4, DroppedRequest DEF Typed, IInv, OnlyLiveAreOffered
\* An event past the cursor that reading up to a.next passes was in the window.
<1>9. ASSUME NEW i \in DOMAIN log, Durable(i), cursor[s] < i, i <= a.next
      PROVE  i \in request[s].scanned
  <2>1. i \in Nat /\ a.next \in Nat
    BY <1>1, <1>5, Positions
  <2>2. PICK k \in request[s].scanned : i <= k
    BY <1>1, <1>4, <1>5, <1>9, <2>1, Positions
  <2>3. k \in Nat
    BY <1>1, <1>4, Positions
  <2>4. CASE i = k
    BY <2>2, <2>4
  <2>5. CASE i < k
    BY <1>4, <1>9, <2>2, <2>5 DEF WindowWhole
  <2> QED BY <2>1, <2>2, <2>3, <2>4, <2>5
<1>10. Anchored(a.next)'
  <2>1. Anchored(cursor[s])
    BY <1>4 DEF IInv, CursorsSound, Within
  <2>2. CASE a.next <= cursor[s]
    BY <1>1, <1>4, <1>5, <2>1, <2>2, Positions DEF Anchored
  <2>3. CASE \E k \in request[s].scanned : a.next <= k
    BY <1>1, <1>4, <2>3 DEF Anchored
  <2> QED BY <1>5, <2>2, <2>3
<1>11. ASSUME NEW i \in DOMAIN log, Durable(i), Concerns(s, i), start[s] < i, i <= a.next
       PROVE  \/ i \in seen'[s]
              \/ /\ log[i].kind = "work"
                 /\ \E j \in Visible : j > i /\ log[j].kind = "work"
                                        /\ (j \in seen'[s] \/ j > a.next)
  <2>1. i \in Nat /\ a.next \in Nat /\ request[s].scanned \subseteq Nat
        /\ request[s].scanned \subseteq Visible /\ Visible \subseteq Nat
    BY <1>1, <1>4, <1>5, Positions
  <2>2. a.items \subseteq seen'[s] /\ seen[s] \subseteq seen'[s]
    BY <1>7
  <2>3. CASE i > cursor[s]
    <3>1. i \in request[s].scanned
      BY <1>4, <1>9, <1>11, <2>1, <2>3
    <3>2. Matches(s, i)
      BY <1>11 DEF Concerns, Matches
    <3> QED BY <1>6, <1>11, <2>1, <2>2, <3>1, <3>2
  <2>4. CASE i <= cursor[s]
    <3>1. CASE i \in seen[s]
      BY <2>2, <3>1
    <3>2. CASE i \notin seen[s]
      <4>1. PICK j \in Visible : j > i /\ log[i].kind = "work" /\ log[j].kind = "work"
                                  /\ (j \in seen[s] \/ Ahead(s, j))
        BY <1>4, <1>11, <2>4, <3>2 DEF WorkAhead
      <4>2. CASE j \in seen[s] \/ j > a.next
        BY <2>2, <4>1, <4>2
      <4>3. CASE j \notin seen[s] /\ j <= a.next
        <5>1. j > cursor[s] /\ j \in Nat
          BY <2>1, <4>1, <4>3 DEF Ahead
        <5>2. j \in request[s].scanned
          <6>1. PICK k \in request[s].scanned : a.next <= k
            BY <1>4, <1>5, <2>1, <4>3, <5>1
          <6>2. ~(k < j) /\ k \in request[s].scanned
            BY <2>1, <4>3, <5>1, <6>1
          <6> QED BY <4>1, <4>3, <6>2 DEF Ahead
        <5>3. Matches(s, j)
          BY <4>1 DEF Matches
        <5>4. \/ j \in a.items
              \/ \E m \in request[s].scanned :
                   m > j /\ log[m].kind = "work" /\ (m \in a.items \/ m > a.next)
          BY <1>6, <4>3, <5>2, <5>3
        <5>5. CASE j \in a.items
          BY <2>2, <4>1, <5>5
        <5>6. CASE \E m \in request[s].scanned :
                     m > j /\ log[m].kind = "work" /\ (m \in a.items \/ m > a.next)
          <6>1. PICK m \in request[s].scanned :
                  m > j /\ log[m].kind = "work" /\ (m \in a.items \/ m > a.next)
            BY <5>6
          <6>2. m > i /\ m \in Visible
            BY <2>1, <4>1, <5>1, <6>1
          <6> QED BY <2>2, <4>1, <6>1, <6>2
        <5> QED BY <5>4, <5>5, <5>6
      <4> QED BY <2>1, <4>2, <4>3
    <3> QED BY <3>1, <3>2
  <2> QED BY <1>4, <2>1, <2>3, <2>4
<1>12. Sound(s, a.next)'
  BY <1>1, <1>3, <1>11 DEF Sound, Heard, Durable, Concerns
<1>13. ASSUME NEW t \in Sessions, NEW c \in Nat, Within(t, c)'
       PROVE  Within(t, c) \/ (t = s /\ c = a.next)
  BY <1>3, <1>7, <1>13 DEF Within
<1>14. CursorsSound'
  <2> SUFFICES ASSUME NEW t \in Sessions, NEW c \in Nat, Within(t, c)'
               PROVE  Anchored(c)' /\ Sound(t, c)'
    BY DEF CursorsSound
  <2>1. CASE Within(t, c)
    BY <1>1, <1>3, <1>7, <2>1, SoundKept
  <2>2. CASE t = s /\ c = a.next
    BY <1>10, <1>12, <2>2 DEF Anchored, Sound, Heard
  <2> QED BY <1>13, <2>1, <2>2
<1>15. ASSUME NEW i \in DOMAIN log, Durable(i), Addressed(i), i <= a.next
       PROVE  \E u \in Sessions : i \in seen'[u]
  <2>1. i \in Nat /\ log[i].target \in Sessions /\ log[i].target # log[i].from
        /\ log[i].kind = "signal"
    BY <1>1, <1>15, Positions DEF Addressed, Event
  <2>2. ASSUME NEW u \in Sessions, i <= cursor[u] PROVE \E v \in Sessions : i \in seen'[v]
    <3>1. cursor[u] \in Nat /\ Within(u, cursor[u])
      BY <1>1 DEF Typed, TypeOK, Within
    <3> QED BY <1>7, <1>15, <2>2, <3>1 DEF IInv, SignalsSound
  <2>3. CASE i > cursor[s] /\ i > cursor[log[i].target]
    <3>1. i \in request[s].scanned
      BY <1>9, <1>15, <2>3
    <3>2. status[log[i].target] \in {"live", "ended"}
      BY <1>1, <2>1 DEF IInv, SignalsSound, Typed, TypeOK
    <3>3. Matches(s, i) \/ Pending(s, i)
      BY <2>1, <2>3, <3>2 DEF Matches, Pending
    <3>4. ~Pending(s, i)
      BY <1>5, <1>15, <2>1, <3>1
    <3>5. i \in a.items
      BY <1>6, <1>15, <2>1, <3>1, <3>3, <3>4
    <3> QED BY <1>7, <3>5
  <2>4. cursor[s] \in Nat /\ cursor[log[i].target] \in Nat
    BY <1>1, <2>1 DEF Typed, TypeOK
  <2> QED BY <2>1, <2>2, <2>3, <2>4
<1>16. SignalsSound'
  <2>1. \A i \in DOMAIN log' : log'[i].target # None => status'[log'[i].target] # "absent"
    BY <1>3 DEF IInv, SignalsSound
  <2>2. ASSUME NEW i \in DOMAIN log', NEW t \in Sessions, NEW c \in Nat,
               Durable(i)', Addressed(i)', Within(t, c)', i <= c
        PROVE  \E u \in Sessions : i \in seen'[u]
    <3>1. CASE Within(t, c)
      BY <1>1, <1>7, <2>2, <3>1, SignalKept
    <3>2. CASE t = s /\ c = a.next
      BY <1>3, <1>15, <2>2, <3>2 DEF Durable, Addressed
    <3> QED BY <1>13, <2>2, <3>1, <3>2
  <2> QED BY <2>1, <2>2 DEF SignalsSound
<1>17. RequestsSound'
  <2> SUFFICES ASSUME NEW t \in Sessions, request'[t].active
               PROVE  /\ status'[t] = "live" /\ request'[t].effective = cursor'[t]
                      /\ WindowWhole(t)' /\ WorkAhead(t)'
    BY DEF RequestsSound
  <2>1. request[t].active /\ request'[t] = request[t] /\ cursor'[t] = cursor[t]
        /\ start'[t] = start[t] /\ status'[t] = status[t]
    BY <1>1, <1>3, DroppedRequest
  <2> QED BY <1>1, <1>7, <2>1, RequestKept DEF IInv, RequestsSound
<1>18. HandoffsSound'
  BY <1>1, <1>3, SameHandoffs DEF sessionVars
<1> QED BY <1>8, <1>14, <1>16, <1>17, <1>18 DEF IInv

-----------------------------------------------------------------------------
LEMMA InitInv == Init => IInv
<1> SUFFICES ASSUME Init PROVE IInv
  OBVIOUS
<1>1. /\ log = <<>> /\ Len(log) = 0 /\ log \in Seq(Event) /\ DOMAIN log = {} /\ Visible = {}
      /\ MaxEvents \in Nat
  BY DEF Init, Visible
<1>2. Idle \in Request /\ ~Idle.active /\ Idle.effective = 0 /\ Idle.scanned = {}
  BY DEF Idle, Request
<1> HIDE DEF Idle
<1>3. Typed
  BY <1>1, <1>2 DEF Init, Typed, TypeOK, Request
<1>4. OnlyLiveAreOffered /\ CursorsSound
  BY <1>1 DEF Init, OnlyLiveAreOffered, CursorsSound, Within, Anchored, Sound
<1>5. RequestsSound /\ SignalsSound
  BY <1>1, <1>2 DEF Init, RequestsSound, SignalsSound
<1>6. HandoffsSound
  BY DEF Init, HandoffsSound
<1> QED BY <1>3, <1>4, <1>5, <1>6 DEF IInv

LEMMA StepInv == IInv /\ [Next]_vars => IInv'
<1> SUFFICES ASSUME IInv, [Next]_vars PROVE IInv'
  OBVIOUS
<1>1. CASE UNCHANGED vars
  BY <1>1, SameLog, SameHandoffs, QuietStep
     DEF IInv, vars, Typed, TypeOK, OnlyLiveAreOffered, Within, SignalsSound, sessionVars, Visible
<1>2. CASE Insert \/ \E i \in DOMAIN log : Commit(i)
  BY <1>2, LogStepInv
<1>3. ASSUME NEW s \in Sessions, Sync(s) PROVE IInv'
  BY <1>3, BeginSyncInv DEF Sync
<1> QED
  BY <1>1, <1>2, <1>3, StartSessionInv, EndSessionInv, AckHandoffInv, ReceiveInv, LoseInv DEF Next

LEMMA AlwaysInv == Spec => []IInv
BY InitInv, StepInv, PTL DEF Spec

-----------------------------------------------------------------------------
\* The log, the cursors and the requests keep their types; no cursor, stored or
\* offered, points past the log.
THEOREM TypeCorrect == Spec => []TypeOK
<1>1. IInv => TypeOK
  BY DEF IInv, Typed
<1> QED BY <1>1, AlwaysInv, PTL

\* What NothingSkipped says of one session and its cursor.
LEMMA SoundIsNothingSkipped == IInv => NothingSkipped
<1> SUFFICES ASSUME IInv PROVE NothingSkipped
  OBVIOUS
<1>1. \A s \in Sessions : Sound(s, cursor[s])
  BY DEF IInv, Typed, TypeOK, CursorsSound, Within
<1> QED BY <1>1 DEF NothingSkipped, Sound, Durable, Passed, Heard, Learnt

\* sync()'s cursor never passes an event committed in order that the session
\* has to learn, however the window, the answer and the trimming cut it.
THEOREM NoEventSkipped == Spec => []NothingSkipped
BY SoundIsNothingSkipped, AlwaysInv, PTL

\* A signal for a session is received by some session before a cursor of the
\* task is past it, however sessions end and hand off.
THEOREM SignalsAreReceived == Spec => []SignalsReachSomebody
<1>1. IInv => SignalsReachSomebody
  <2> SUFFICES ASSUME IInv, NEW i \in DOMAIN log, log[i].stage = "durable",
                      log[i].kind = "signal", log[i].target \notin {log[i].from, None},
                      NEW s \in Sessions, i <= cursor[s]
               PROVE  \E u \in Sessions : i \in seen[u]
    BY DEF SignalsReachSomebody
  <2>1. cursor[s] \in Nat /\ Within(s, cursor[s])
    BY DEF IInv, Typed, TypeOK, Within
  <2> QED BY <2>1 DEF IInv, SignalsSound, Durable, Addressed
<1> QED BY <1>1, AlwaysInv, PTL

\* What a session does not read because it starts from the task's baseline,
\* another one has read before.
THEOREM HandoffIsLossless == Spec => []HandoffLosesNothing
<1>1. IInv => HandoffLosesNothing
  <2> SUFFICES ASSUME IInv, NEW s \in Sessions, NEW i \in DOMAIN log,
                      log[i].stage = "durable", log[i].kind \in {"news", "work"},
                      i <= start[s]
               PROVE  \E u \in Sessions \ {s} : Passed(u, i) /\ Learnt(u, i)
    BY DEF HandoffLosesNothing
  <2>1. Typed /\ HandoffsSound /\ NothingSkipped
    BY SoundIsNothingSkipped DEF IInv
  <2>2. i \in Nat \ {0} /\ start[s] \in Nat /\ baseline \in Nat /\ start[s] <= baseline
    BY <2>1, Positions DEF Typed, TypeOK, HandoffsSound
  <2>3. PICK u \in Sessions : Passed(u, i)
    BY <2>1, <2>2 DEF HandoffsSound
  <2>4. u # s
    BY <2>2, <2>3 DEF Passed
  <2>5. Learnt(u, i)
    BY <2>1, <2>3 DEF NothingSkipped, Concerns
  <2> QED BY <2>3, <2>4, <2>5
<1> QED BY <1>1, AlwaysInv, PTL

\* ack_sync_cursor and ack_handoff_cursor move no cursor back.
THEOREM CursorsAdvance == Spec => CursorsOnlyAdvance
<1>1. ASSUME IInv, [Next]_vars
      PROVE  [/\ baseline' >= baseline
              /\ \A s \in Sessions : cursor'[s] >= cursor[s]]_vars
  <2>1. /\ baseline \in Nat /\ cursor \in [Sessions -> Nat] /\ offered \in [Sessions -> SUBSET Nat]
        /\ \A s \in Sessions : status[s] = "absent" => cursor[s] = 0
    BY <1>1 DEF IInv, Typed, TypeOK, HandoffsSound
  <2>2. CASE UNCHANGED <<cursor, baseline>>
    BY <2>1, <2>2
  <2>3. ASSUME NEW s \in Sessions, StartSession(s)
        PROVE  baseline' >= baseline /\ \A t \in Sessions : cursor'[t] >= cursor[t]
    BY <2>1, <2>3 DEF StartSession
  <2>4. ASSUME NEW s \in Sessions, AckHandoff(s)
        PROVE  baseline' >= baseline /\ \A t \in Sessions : cursor'[t] >= cursor[t]
    BY <2>1, <2>4 DEF AckHandoff, Advanced
  <2>5. ASSUME NEW s \in Sessions, Sync(s)
        PROVE  baseline' >= baseline /\ \A t \in Sessions : cursor'[t] >= cursor[t]
    BY <2>1, <2>5 DEF Sync, BeginSync, Advanced
  <2> QED
    BY <1>1, <2>2, <2>3, <2>4, <2>5
       DEF Next, vars, sessionVars, Insert, Commit, EndSession, Receive, Lose
<1> QED BY <1>1, AlwaysInv, PTL DEF Spec, CursorsOnlyAdvance
=============================================================================
