------------------------------ MODULE Budgets ------------------------------
(***************************************************************************)
(* The budget of one project (services/budgets.py): its policy, the        *)
(* reservations that admitted launches hold against it, and the usage      *)
(* ledger they are settled from.                                           *)
(*                                                                         *)
(* Admissions and reconciliations hold the policy row's lock from their    *)
(* first read to their commit, so each is one step.  Reports, prolonga-    *)
(* tions, expiries and ledger writes do not take it.  An admission's clock *)
(* is read before it waits for the lock, and its rows are dated by the     *)
(* start of its transaction, earlier still.                                *)
(*                                                                         *)
(* One metric stands for both (cost and tokens); limits and the amount     *)
(* reserved per launch are the same in every version of the policy.        *)
(***************************************************************************)
EXTENDS FiniteSets, FiniteSetsExt, Integers

CONSTANTS
    Launches,
    Reports,      \* the ledger entries a launch may have, by source_event_id
    Outside,      \* the work that is in no launch, under any names
    Users,        \* who reads, writes and approves the policy
    Bodies,       \* the policy bodies they write
    Limit,        \* cost_limit (or token_limit)
    Reserved,     \* reservation_cost
    Slots,        \* max_active_launches
    SettleAfter,  \* settle_after_seconds
    Ttl,          \* expires_in_seconds, and the window of a prolongation
    Day,          \* the accounting period; 0 is the project's lifetime
    MaxWait,      \* bound on a transaction's age when it reads the clock
    Amounts,      \* the amounts of the ledger's entries
    MaxLate,      \* bound on how long after the work its usage is reported
    MaxVersion,   \* bounds on the versions of the policy that are written, and on the clock
    MaxTime

PolicyBodies == [mode         : {"alert_only", "enforce"},
                 late_usage   : {"hold_reservation", "release"},
                 unknown_cost : {"charge_reservation", "ignore"}]

ASSUME LaunchesAssumption ==
    /\ IsFiniteSet(Launches) /\ IsFiniteSet(Outside) /\ IsFiniteSet(Reports)
    /\ Launches \cap Outside = {}
ASSUME BodiesAssumption == Bodies \subseteq PolicyBodies /\ Bodies # {}
ASSUME LimitsAssumption == Limit \in Nat /\ Amounts \subseteq Nat /\ Reserved \in Nat /\ Slots \in Nat \ {0}
ASSUME TimesAssumption ==
    SettleAfter \in Nat /\ Ttl \in Nat \ {0} /\ Day \in Nat /\ MaxWait \in Nat
ASSUME BoundsAssumption == MaxLate \in Nat /\ MaxVersion \in Nat /\ MaxTime \in Nat

VARIABLES
    policy,       \* the project's row of budget_policies
    copy,         \* the policy as each user last read it
    confirmed,    \* history: the body its approver had read
    launch,       \* what budgets read of task_launches
    arrival,      \* the clock as read by an admission that waits for the lock
    reservation,  \* budget_reservations, by launch
    ledger,       \* usage_ledger_entries, by launch and report
    now,
    prolonged     \* history: the launches that were overdue and went on

vars == <<policy, copy, confirmed, launch, arrival, reservation, ledger, now, prolonged>>

policyVars == <<policy, copy, confirmed>>
launchVars == <<launch, prolonged>>

-----------------------------------------------------------------------------
NoTime == -1
Times == 0..MaxTime

Policy == [version : 0..(MaxVersion + 1), body : PolicyBodies, approved : BOOLEAN]

\* No row, which has no body to speak of.
NoPolicy == [version |-> 0, body |-> CHOOSE body \in Bodies : TRUE, approved |-> FALSE]

\* "unpulled" is expired_unpulled; "ended" has the terminal statuses of runs,
\* a cancellation included, whether or not the launch had been pulled.
Terminal == {"rejected", "unpulled", "ended"}

Launch == [status  : {"absent", "requested", "started"} \cup Terminal,
           expires : Int, finished : Times \cup {NoTime}, session : BOOLEAN]

NoLaunch == [status |-> "absent", expires |-> NoTime, finished |-> NoTime, session |-> FALSE]

\* created: the transaction's start, as far as periods tell it apart; admitted,
\* a history: the period whose bill an effective policy admitted it by.
Reservation == [status   : {"absent", "held", "settled", "released"},
                basis    : {"none", "measured", "reservation"},
                created  : Nat, admitted : Int]

NoReservation == [status |-> "absent", basis |-> "none", created |-> 0, admitted |-> NoTime]

\* An entry's measure is unknown or an amount; it is dated by its period.
Unknown == -1
NoEntry == [amount |-> -2, at |-> 0]
Entry == [amount : Amounts \cup {Unknown}, at : Nat]

Over(l) == launch[l].status \in Terminal
Live(l) == launch[l].status \in {"requested", "started"}
Reserving(l) == reservation[l].status # "absent"

effective_mode == IF policy.version > 0 /\ policy.approved THEN policy.body.mode ELSE "alert_only"

-----------------------------------------------------------------------------
(* The ledger and the bill *)

Entries(l) == {r \in Reports : ledger[l][r] # NoEntry}
Known(l) == {r \in Entries(l) : ledger[l][r].amount # Unknown}
Since(l, start) == {r \in Known(l) : ledger[l][r].at >= start}

Amount(l, reports) == SumFunctionOnSet([r \in Reports |-> ledger[l][r].amount], reports)
Actual(l) == Amount(l, Known(l))

Larger(a, b) == IF a >= b THEN a ELSE b

\* Mutant: what is settled costs what was measured, and no less.
Mutant_Charge(l, res) ==
    IF res[l].status = "held" THEN Larger(Actual(l), Reserved) ELSE Actual(l)

\* _charge, over the reservations res.
Charge(l, res) ==
    CASE res[l].status = "absent" -> 0
      [] res[l].status = "held" -> Larger(Actual(l), Reserved)
      [] res[l].status \in {"settled", "released"} ->
           IF Entries(l) # Known(l) /\ policy.body.unknown_cost = "charge_reservation"
           THEN Larger(Actual(l), Reserved)
           ELSE IF Known(l) = {} /\ res[l].basis = "reservation" THEN Reserved
           ELSE Actual(l)

\* period_start
PeriodStart(t) == IF Day = 0 THEN 0 ELSE (t \div Day) * Day

\* Mutant: the entries of a launch without a reservation are forgotten.
Mutant_Loose(start) ==
    SumFunctionOnSet([l \in Outside |-> Amount(l, Since(l, start))], Outside)

\* The entries of no reserved launch, those of no launch among them.
Loose(start) ==
    LET unreserved == {l \in Launches : ~Reserving(l)} \cup Outside IN
    SumFunctionOnSet([l \in unreserved |-> Amount(l, Since(l, start))], unreserved)

\* consumed and held together (_meters): a reservation counts in the period it
\* was created in, whenever its usage comes.
Bill(res, start) ==
    SumFunctionOnSet([l \in Launches |-> Charge(l, res)],
                     {l \in Launches : res[l].status # "absent" /\ res[l].created >= start})
      + Loose(start)

\* Mutant: only what has started takes a slot.
Mutant_Active(res, t) ==
    {l \in Launches : /\ res[l].status = "held"
                      /\ launch[l].status = "started"
                      /\ launch[l].expires > t}

\* _active_launches
Active(res, t) ==
    {l \in Launches : res[l].status = "held" /\ Live(l) /\ launch[l].expires > t}

-----------------------------------------------------------------------------
(* Settling *)

\* _never_ran
NeverRan(l) ==
    ~launch[l].session /\ launch[l].status \in {"rejected", "requested", "unpulled"}

Ended(l) == IF launch[l].finished # NoTime THEN launch[l].finished ELSE launch[l].expires

Outcome(l, t) ==
    CASE Entries(l) # {} -> <<"settled", "measured">>
      [] Entries(l) = {} /\ NeverRan(l) -> <<"released", "none">>
      [] Entries(l) = {} /\ ~NeverRan(l) ->
           IF Ended(l) + SettleAfter > t THEN <<"held", "none">>
           ELSE IF policy.body.late_usage = "hold_reservation" THEN <<"settled", "reservation">>
           ELSE <<"released", "none">>

\* The held reservations whose launch is over, or overdue.
Settleable(l, t) ==
    /\ reservation[l].status = "held"
    /\ Over(l) \/ launch[l].expires <= t

\* reconcile
Reconciled(t) ==
    [l \in Launches |->
        IF Settleable(l, t)
        THEN [reservation[l] EXCEPT !.status = Outcome(l, t)[1], !.basis = Outcome(l, t)[2]]
        ELSE reservation[l]]

-----------------------------------------------------------------------------
Init ==
    /\ policy = NoPolicy
    /\ copy = [u \in Users |-> policy]
    /\ confirmed = policy.body
    /\ launch = [l \in Launches |-> NoLaunch]
    /\ arrival = [l \in Launches |-> NoTime]
    /\ reservation = [l \in Launches |-> NoReservation]
    /\ ledger = [l \in Launches \cup Outside |-> [r \in Reports |-> NoEntry]]
    /\ now = 0
    /\ prolonged = {}

-----------------------------------------------------------------------------
(* The policy *)

ReadPolicy(u) ==
    /\ copy[u] # policy
    /\ copy' = [copy EXCEPT ![u] = policy]
    /\ UNCHANGED <<policy, confirmed, launchVars, arrival, reservation, ledger, now>>

\* put_policy with the version the user has read; a creation reads none.  A
\* conflict, or the replay of a creation, changes nothing.
PutPolicy(u, body) ==
    /\ copy[u].version = policy.version /\ policy.version < MaxVersion
    /\ policy' = [version |-> policy.version + 1, body |-> body, approved |-> FALSE]
    /\ UNCHANGED <<copy, confirmed, launchVars, arrival, reservation, ledger, now>>

\* Mutant: whatever the approver has read is approved.
Mutant_ApprovePolicy(u) ==
    /\ policy.version \in 1..MaxVersion
    /\ policy.body.mode = "enforce" /\ ~policy.approved
    /\ policy' = [policy EXCEPT !.version = @ + 1, !.approved = TRUE]
    /\ confirmed' = copy[u].body
    /\ UNCHANGED <<copy, launchVars, arrival, reservation, ledger, now>>

\* approve_policy
ApprovePolicy(u) ==
    /\ copy[u].version = policy.version /\ policy.version \in 1..MaxVersion
    /\ policy.body.mode = "enforce" /\ ~policy.approved
    /\ policy' = [policy EXCEPT !.version = @ + 1, !.approved = TRUE]
    /\ confirmed' = copy[u].body
    /\ UNCHANGED <<copy, launchVars, arrival, reservation, ledger, now>>

-----------------------------------------------------------------------------
(* Admission *)

\* stage_launch reads the clock, then waits for the policy row.
Arrive(l) ==
    /\ launch[l] = NoLaunch /\ arrival[l] = NoTime
    /\ arrival' = [arrival EXCEPT ![l] = now]
    /\ UNCHANGED <<policyVars, launchVars, reservation, ledger, now>>

NewLaunch(t) ==
    [status |-> "requested", expires |-> t + Ttl, finished |-> NoTime, session |-> FALSE]

Fits(res, t) ==
    /\ Cardinality(Active(res, t)) < Slots
    /\ Bill(res, PeriodStart(t)) + Reserved <= Limit

\* Under an approved enforce policy, what does not fit is refused: the whole
\* transaction is rolled back.  Otherwise it only raises alerts.
Admit(l) ==
    /\ arrival[l] # NoTime /\ policy.version > 0
    /\ LET reconciled == Reconciled(arrival[l]) IN
         /\ effective_mode = "enforce" => Fits(reconciled, arrival[l])
         /\ \E began \in (arrival[l] - MaxWait)..arrival[l] \cap Nat :
              reservation' = [reconciled EXCEPT ![l] =
                  [status |-> "held", basis |-> "none", created |-> PeriodStart(began),
                   admitted |-> IF effective_mode = "enforce" THEN PeriodStart(arrival[l])
                                ELSE NoTime]]
    /\ launch' = [launch EXCEPT ![l] = NewLaunch(arrival[l])]
    /\ arrival' = [arrival EXCEPT ![l] = NoTime]
    /\ UNCHANGED <<policyVars, ledger, now, prolonged>>

Refuse(l) ==
    /\ arrival[l] # NoTime /\ effective_mode = "enforce"
    /\ ~Fits(Reconciled(arrival[l]), arrival[l])
    /\ arrival' = [arrival EXCEPT ![l] = NoTime]
    /\ UNCHANGED <<policyVars, launchVars, reservation, ledger, now>>

\* Without a policy nothing is reserved.
AdmitUnbudgeted(l) ==
    /\ arrival[l] # NoTime /\ policy.version = 0
    /\ launch' = [launch EXCEPT ![l] = NewLaunch(arrival[l])]
    /\ arrival' = [arrival EXCEPT ![l] = NoTime]
    /\ UNCHANGED <<policyVars, reservation, ledger, now, prolonged>>

\* reconcile_project, with the clock as it was before the wait.
ReconcileProject(t) ==
    /\ policy.version > 0
    /\ Reconciled(t) # reservation
    /\ reservation' = Reconciled(t)
    /\ UNCHANGED <<policyVars, launchVars, arrival, ledger, now>>

-----------------------------------------------------------------------------
(* The launches, which module TaskLaunch has in full, and their usage *)

OnTime(l) == now < launch[l].expires

StartLaunch(l) ==
    /\ launch[l].status = "requested" /\ OnTime(l)
    /\ launch' = [launch EXCEPT ![l].status = "started"]
    /\ UNCHANGED <<policyVars, arrival, reservation, ledger, now, prolonged>>

LinkSession(l) ==
    /\ launch[l].status = "started" /\ ~launch[l].session
    /\ launch' = [launch EXCEPT ![l].session = TRUE]
    /\ UNCHANGED <<policyVars, arrival, reservation, ledger, now, prolonged>>

\* A report, a cancellation, or a refusal by the machine.
EndLaunch(l, status) ==
    /\ OnTime(l)
    /\ \/ Live(l) /\ status = "ended"
       \/ launch[l].status = "requested" /\ status = "rejected"
    /\ launch' = [launch EXCEPT ![l].status = status, ![l].finished = now]
    /\ UNCHANGED <<policyVars, arrival, reservation, ledger, now, prolonged>>

\* Whoever reads an overdue launch prolongs it, if its session is active, or
\* else expires it.
Prolong(l) ==
    /\ launch[l].status = "started" /\ launch[l].session /\ ~OnTime(l)
    /\ launch' = [launch EXCEPT ![l].expires = now + Ttl]
    /\ prolonged' = prolonged \cup {l}
    /\ UNCHANGED <<policyVars, arrival, reservation, ledger, now>>

Expire(l) ==
    /\ Live(l) /\ ~OnTime(l)
    /\ launch' = [launch EXCEPT
         ![l].status = IF launch[l].status = "requested" THEN "unpulled" ELSE "ended",
         ![l].finished = now]
    /\ UNCHANGED <<policyVars, arrival, reservation, ledger, now, prolonged>>

\* create_usage and correct_usage: an entry is never deleted, a correction may
\* make a known measure unknown, and either says when the work was done.
RecordUsage(l, r, entry) ==
    /\ l \in Launches => launch[l] # NoLaunch
    /\ ledger[l][r] # entry
    /\ ledger' = [ledger EXCEPT ![l][r] = entry]
    /\ UNCHANGED <<policyVars, launchVars, arrival, reservation, now>>

Tick ==
    /\ now < MaxTime
    /\ now' = now + 1
    /\ UNCHANGED <<policyVars, launchVars, arrival, reservation, ledger>>

-----------------------------------------------------------------------------
PolicyStep == \E u \in Users :
    ReadPolicy(u) \/ ApprovePolicy(u) \/ \E body \in Bodies : PutPolicy(u, body)

AdmissionStep ==
    \/ \E t \in 0..now : ReconcileProject(t)
    \/ \E l \in Launches : Arrive(l) \/ Admit(l) \/ Refuse(l) \/ AdmitUnbudgeted(l)

LaunchStep == \E l \in Launches :
    \/ StartLaunch(l) \/ LinkSession(l) \/ Prolong(l) \/ Expire(l)
    \/ \E status \in {"ended", "rejected"} : EndLaunch(l, status)

UsageStep == \E l \in Launches \cup Outside, r \in Reports :
    \E amount \in Amounts \cup {Unknown}, done \in ((now - MaxLate)..now) \cap Nat :
        RecordUsage(l, r, [amount |-> amount, at |-> PeriodStart(done)])

Next == PolicyStep \/ AdmissionStep \/ LaunchStep \/ UsageStep \/ Tick

Spec == Init /\ [][Next]_vars

-----------------------------------------------------------------------------
(* Properties *)

\* Every variable has its type.
TypeOK ==
    /\ policy \in Policy
    /\ copy \in [Users -> Policy]
    /\ confirmed \in PolicyBodies
    /\ launch \in [Launches -> Launch]
    /\ arrival \in [Launches -> Times \cup {NoTime}]
    /\ reservation \in [Launches -> Reservation]
    /\ ledger \in [Launches \cup Outside -> [Reports -> Entry \cup {NoEntry}]]
    /\ now \in Times
    /\ prolonged \subseteq Launches

\* What an effective policy enforces is a body its approver had read: no write
\* that came between the reading and the approval, or after it, takes effect
\* (put_policy, approve_policy).
EnforcedAsConfirmed == effective_mode = "enforce" => policy.body = confirmed

\* What admissions under an effective policy have committed of a period: a
\* reservation stays committed until usage is reported or it is released.
Committed(l) ==
    /\ reservation[l].admitted # NoTime
    /\ \/ reservation[l].status = "held"
       \/ reservation[l].basis = "reservation" /\ Entries(l) = {}

CommittedIn(start) == {l \in Launches :
    Committed(l) /\ reservation[l].created = start /\ reservation[l].admitted = start}

\* The reservations that an effective policy has admitted by the bill of their
\* own period stay within the limit, however admissions, reports, settlements,
\* late and corrected usage and policy changes interleave (decide_admission).
\* One whose transaction was older than the period it was admitted by is on no
\* bill that its admission read.
AdmittedWithinLimit == \A t \in Times :
    Reserved * Cardinality(CommittedIn(PeriodStart(t))) <= Limit

Running(l) == reservation[l].admitted # NoTime /\ Live(l) /\ OnTime(l)

\* No more launches that an effective policy has admitted run at a time than
\* it has slots, unless one goes on after it was overdue: that one has given up
\* its slot, and may have been settled (_active_launches).
SlotsHonouredUnlessProlonged ==
    Cardinality({l \in Launches : Running(l) /\ l \notin prolonged}) <= Slots

\* The entries whose amounts nobody knows are billed by their reservations.
Estimated(l) ==
    /\ Reserving(l)
    /\ \/ reservation[l].status = "held"
       \/ Known(l) # Entries(l)
       \/ Known(l) = {} /\ reservation[l].basis = "reservation"

\* Every measured amount of the ledger is on the project's bill exactly once,
\* with or without a launch, a reservation or a policy at the time, reported
\* early, late or corrected; the rest of the bill is estimates (_meters).
UsageIsBilledOnce ==
    LET measured == SumFunction([l \in Launches \cup Outside |-> Actual(l)])
        bill == Bill(reservation, 0) IN
    measured <= bill /\ bill <= measured + Reserved * Cardinality({l \in Launches : Estimated(l)})
=============================================================================
