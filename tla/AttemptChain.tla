---------------------------- MODULE AttemptChain ----------------------------
(***************************************************************************)
(* What the launch service promises about recovery, with versions, clocks, *)
(* sessions and transactions left out: an attempt is opened once, is live  *)
(* until it is closed, and is never live again; a retry is a new attempt   *)
(* that replaces a closed one, and an attempt is replaced at most once.    *)
(* TaskLaunch implements it (see MCTaskLaunch and TaskLaunch_proofs).      *)
(***************************************************************************)
CONSTANTS Attempts,   \* the launch attempts that may ever be created
          NoAttempt   \* what an attempt that retries nothing replaces

VARIABLES phase,      \* where each attempt is in its life
          replaces    \* the attempt each one retries

chainVars == <<phase, replaces>>

Init ==
    /\ phase = [a \in Attempts |-> "absent"]
    /\ replaces = [a \in Attempts |-> NoAttempt]

\* A requester asks for a first attempt.
Open(a) ==
    /\ phase[a] = "absent"
    /\ phase' = [phase EXCEPT ![a] = "live"]
    /\ UNCHANGED replaces

\* The machine finishes it, the requester cancels it or the server expires it.
Close(a) ==
    /\ phase[a] = "live"
    /\ phase' = [phase EXCEPT ![a] = "closed"]
    /\ UNCHANGED replaces

\* Attempt b replaces the closed attempt a, which nothing replaced yet.
Retry(a, b) ==
    /\ phase[a] = "closed"
    /\ phase[b] = "absent"
    /\ \A c \in Attempts : replaces[c] # a
    /\ phase' = [phase EXCEPT ![b] = "live"]
    /\ replaces' = [replaces EXCEPT ![b] = a]

Next ==
    \/ \E a \in Attempts : Open(a) \/ Close(a)
    \/ \E a, b \in Attempts : Retry(a, b)

Spec == Init /\ [][Next]_chainVars
=============================================================================
