--------------------------- MODULE Budgets_proofs ---------------------------
(* Proofs about Budgets: for any launches, reports, users, policy bodies,    *)
(* limits, periods and times.                                                *)
EXTENDS Budgets, FiniteSetTheorems, TLAPS

-----------------------------------------------------------------------------
(* Sums of natural numbers: each is the number of its units. *)

Units(f, S) == {p \in S \X Nat : 1 <= p[2] /\ p[2] <= f[p[1]]}

LEMMA UnitsOf ==
    ASSUME NEW f, NEW S, NEW x \in S, f[x] \in Nat,
           IsFiniteSet(Units(f, S \ {x}))
    PROVE  /\ IsFiniteSet(Units(f, S))
           /\ Cardinality(Units(f, S)) = f[x] + Cardinality(Units(f, S \ {x}))
<1> DEFINE T == {x} \X (1 .. f[x])
<1>1. IsFiniteSet(T) /\ Cardinality(T) = f[x]
  <2>1. IsFiniteSet(1 .. f[x]) /\ Cardinality(1 .. f[x]) = f[x]
    BY FS_Interval
  <2>2. IsFiniteSet({x}) /\ Cardinality({x}) = 1
    BY FS_Singleton
  <2>3. IsFiniteSet(T) /\ Cardinality(T) = Cardinality({x}) * Cardinality(1 .. f[x])
    BY <2>1, <2>2, FS_Product
  <2> QED BY <2>1, <2>2, <2>3
<1>2. Units(f, S) = Units(f, S \ {x}) \cup T
  BY DEF Units
<1>3. Units(f, S \ {x}) \cap T = {}
  BY DEF Units
<1>4. Cardinality(Units(f, S \ {x}) \cap T) = 0
  BY <1>3, FS_EmptySet
<1>5. /\ IsFiniteSet(Units(f, S \ {x}) \cup T)
      /\ Cardinality(Units(f, S \ {x}) \cup T)
           = Cardinality(Units(f, S \ {x})) + Cardinality(T) - Cardinality(Units(f, S \ {x}) \cap T)
  <2> HIDE DEF T
  <2> QED BY <1>1, FS_Union
<1>6. Cardinality(Units(f, S \ {x})) \in Nat
  BY FS_CardinalityType
<1> HIDE DEF T
<1> QED BY <1>1, <1>2, <1>4, <1>5, <1>6

LEMMA UnitsFinite ==
    ASSUME NEW f, NEW S, IsFiniteSet(S), \A x \in S : f[x] \in Nat
    PROVE  \A T \in SUBSET S : IsFiniteSet(Units(f, T))
<1> DEFINE Bad == {T \in SUBSET S : ~IsFiniteSet(Units(f, T))}
<1> SUFFICES ASSUME Bad # {} PROVE FALSE
  OBVIOUS
<1>1. IsWellFoundedOn(StrictSubsetOrdering(S), SUBSET S)
  BY FS_StrictSubsetOrderingWellFounded, FS_FiniteSubsetsOfFinite
<1>2. PICK T \in Bad : \A U \in Bad : ~(<<U, T>> \in StrictSubsetOrdering(S))
  BY <1>1, WFMin, Zenon
<1>3. CASE T = {}
  <2>1. Units(f, T) = {}
    BY <1>3 DEF Units
  <2> QED BY <2>1, FS_EmptySet
<1>4. CASE T # {}
  <2>1. PICK x \in T : TRUE
    BY <1>4
  <2>2. T \ {x} \notin Bad /\ T \ {x} \in SUBSET S
    BY <1>2, <2>1 DEF StrictSubsetOrdering
  <2>3. IsFiniteSet(Units(f, T \ {x})) /\ f[x] \in Nat
    BY <2>2
  <2> QED BY <2>3, UnitsOf
<1> QED BY <1>3, <1>4

LEMMA SumIsUnits ==
    ASSUME NEW f, NEW S, IsFiniteSet(S), \A x \in S : f[x] \in Nat
    PROVE  SumFunctionOnSet(f, S) = Cardinality(Units(f, S))
<1> DEFINE Recursive(g) ==
             g = [s \in SUBSET S |->
                    IF s = {} THEN 0
                    ELSE f[CHOOSE x \in s : TRUE] + g[s \ {CHOOSE x \in s : TRUE}]]
           sum == CHOOSE g : Recursive(g)
           size == [s \in SUBSET S |-> Cardinality(Units(f, s))]
<1>1. \A s \in SUBSET S : s # {} =>
        LET x == CHOOSE y \in s : TRUE IN
        /\ x \in s /\ s \ {x} \in SUBSET S
        /\ Cardinality(Units(f, s)) = f[x] + Cardinality(Units(f, s \ {x}))
  <2> SUFFICES ASSUME NEW s \in SUBSET S, s # {}
               PROVE  LET x == CHOOSE y \in s : TRUE IN
                      /\ x \in s /\ s \ {x} \in SUBSET S
                      /\ Cardinality(Units(f, s)) = f[x] + Cardinality(Units(f, s \ {x}))
    OBVIOUS
  <2> DEFINE x == CHOOSE y \in s : TRUE
  <2>1. x \in s
    OBVIOUS
  <2> HIDE DEF x
  <2>2. s \ {x} \in SUBSET S /\ f[x] \in Nat
    BY <2>1
  <2>3. IsFiniteSet(Units(f, s \ {x}))
    BY <2>2, UnitsFinite
  <2>4. Cardinality(Units(f, s)) = f[x] + Cardinality(Units(f, s \ {x}))
    BY <2>1, <2>2, <2>3, UnitsOf
  <2> QED BY <2>1, <2>2, <2>4 DEF x
<1>2. Units(f, {}) = {} /\ Cardinality(Units(f, {})) = 0
  <2>1. Units(f, {}) = {}
    BY DEF Units
  <2> QED BY <2>1, FS_EmptySet
<1>3. Recursive(size)
  BY <1>1, <1>2
<1>4. Recursive(sum)
  <2> HIDE DEF Recursive, size
  <2> QED BY <1>3
<1>5. SumFunctionOnSet(f, S) = sum[S]
  BY DEF SumFunctionOnSet, FoldFunctionOnSet, MapThenFoldSet
<1>6. ASSUME NEW s \in SUBSET S PROVE sum[s] = size[s]
  <2> DEFINE Bad == {T \in SUBSET S : sum[T] # size[T]}
  <2> SUFFICES ASSUME Bad # {} PROVE FALSE
    BY <1>6
  <2> HIDE DEF sum, size
  <2>1. IsWellFoundedOn(StrictSubsetOrdering(S), SUBSET S)
    BY FS_StrictSubsetOrderingWellFounded, FS_FiniteSubsetsOfFinite
  <2>2. PICK T \in Bad : \A U \in Bad : ~(<<U, T>> \in StrictSubsetOrdering(S))
    BY <2>1, WFMin, Zenon
  <2>3. CASE T = {}
    BY <1>3, <1>4, <2>2, <2>3
  <2>4. CASE T # {}
    <3> DEFINE x == CHOOSE y \in T : TRUE
    <3>1. x \in T
      BY <2>4
    <3> HIDE DEF x
    <3>2. T \ {x} \notin Bad /\ T \ {x} \in SUBSET S
      BY <2>2, <3>1, ZenonT(30) DEF StrictSubsetOrdering
    <3>3. sum[T] = f[x] + sum[T \ {x}] /\ size[T] = f[x] + size[T \ {x}]
      BY <1>3, <1>4, <2>4 DEF x
    <3> QED BY <2>2, <3>2, <3>3
  <2> QED BY <2>3, <2>4
<1> QED BY <1>5, <1>6

\* Sums of smaller or fewer numbers are smaller; of two sets, they add up.
LEMMA SumLess ==
    ASSUME NEW f, NEW S, NEW g, NEW T, IsFiniteSet(S), IsFiniteSet(T), T \subseteq S,
           \A x \in S : f[x] \in Nat, \A x \in T : g[x] \in Nat /\ g[x] <= f[x]
    PROVE  /\ SumFunctionOnSet(f, S) \in Nat /\ SumFunctionOnSet(g, T) \in Nat
           /\ SumFunctionOnSet(g, T) <= SumFunctionOnSet(f, S)
<1>1. IsFiniteSet(Units(f, S)) /\ IsFiniteSet(Units(g, T))
  BY UnitsFinite
<1>2. Units(g, T) \subseteq Units(f, S)
  BY DEF Units
<1>3. SumFunctionOnSet(f, S) = Cardinality(Units(f, S)) /\ SumFunctionOnSet(g, T) = Cardinality(Units(g, T))
  BY SumIsUnits
<1>4. Cardinality(Units(g, T)) <= Cardinality(Units(f, S))
  BY <1>1, <1>2, FS_Subset
<1>5. Cardinality(Units(f, S)) \in Nat /\ Cardinality(Units(g, T)) \in Nat
  BY <1>1, FS_CardinalityType
<1> QED BY <1>3, <1>4, <1>5

LEMMA SumDisjoint ==
    ASSUME NEW f, NEW S, NEW T, IsFiniteSet(S), IsFiniteSet(T), S \cap T = {},
           \A x \in S \cup T : f[x] \in Nat
    PROVE  SumFunctionOnSet(f, S \cup T) = SumFunctionOnSet(f, S) + SumFunctionOnSet(f, T)
<1>1. IsFiniteSet(Units(f, S)) /\ IsFiniteSet(Units(f, T)) /\ IsFiniteSet(S \cup T)
  BY UnitsFinite, FS_Union
<1>2. Units(f, S \cup T) = Units(f, S) \cup Units(f, T) /\ Units(f, S) \cap Units(f, T) = {}
  BY DEF Units
<1>3. /\ SumFunctionOnSet(f, S) = Cardinality(Units(f, S))
      /\ SumFunctionOnSet(f, T) = Cardinality(Units(f, T))
      /\ SumFunctionOnSet(f, S \cup T) = Cardinality(Units(f, S \cup T))
  BY <1>1, SumIsUnits
<1>4. Cardinality(Units(f, S) \cup Units(f, T))
        = Cardinality(Units(f, S)) + Cardinality(Units(f, T)) - Cardinality(Units(f, S) \cap Units(f, T))
  BY <1>1, FS_Union
<1>5. Cardinality(Units(f, S) \cap Units(f, T)) = 0
  BY <1>2, FS_EmptySet
<1>6. Cardinality(Units(f, S)) \in Nat /\ Cardinality(Units(f, T)) \in Nat
  BY <1>1, FS_CardinalityType
<1>7. Cardinality(Units(f, S \cup T)) = Cardinality(Units(f, S)) + Cardinality(Units(f, T))
  <2>1. Cardinality(Units(f, S \cup T)) = Cardinality(Units(f, S) \cup Units(f, T))
    BY <1>2
  <2> QED BY <1>4, <1>5, <1>6, <2>1
<1> QED BY <1>3, <1>7

\* A constant for each member of T comes on top.
LEMMA SumExtra ==
    ASSUME NEW f, NEW g, NEW S, NEW T, NEW c \in Nat, IsFiniteSet(S), T \subseteq S,
           \A x \in S : f[x] \in Nat /\ g[x] \in Nat,
           \A x \in S \ T : f[x] <= g[x], \A x \in T : f[x] <= g[x] + c
    PROVE  SumFunctionOnSet(f, S) <= SumFunctionOnSet(g, S) + c * Cardinality(T)
<1> DEFINE P == T \X (1 .. c)
           h == [p \in P |-> <<p[1], g[p[1]] + p[2]>>]
           extra == {h[p] : p \in P}
<1>1. /\ IsFiniteSet(T) /\ Cardinality(T) \in Nat
      /\ IsFiniteSet(P) /\ Cardinality(P) = Cardinality(T) * c
  <2>1. IsFiniteSet(T) /\ Cardinality(T) \in Nat
    BY FS_Subset, FS_CardinalityType
  <2>2. IsFiniteSet(1 .. c) /\ Cardinality(1 .. c) = c
    BY FS_Interval
  <2> QED BY <2>1, <2>2, FS_Product
<1>2. IsFiniteSet(extra) /\ Cardinality(extra) <= Cardinality(P)
  <2> HIDE DEF P
  <2>1. h \in Surjection(P, extra)
    BY DEF Surjection
  <2> HIDE DEF h, extra
  <2> QED BY <1>1, <2>1, FS_Surjection
<1>3. Units(f, S) \subseteq Units(g, S) \cup extra
  <2> SUFFICES ASSUME NEW p \in Units(f, S), p \notin Units(g, S) PROVE p \in extra
    OBVIOUS
  <2>1. /\ p = <<p[1], p[2]>> /\ p[1] \in S /\ p[2] \in Nat
        /\ 1 <= p[2] /\ p[2] <= f[p[1]] /\ g[p[1]] < p[2]
    BY DEF Units
  <2>2. p[1] \in T /\ p[2] - g[p[1]] \in 1 .. c
    BY <2>1
  <2>3. h[<<p[1], p[2] - g[p[1]]>>] = p
    BY <2>1, <2>2
  <2> QED BY <2>2, <2>3
<1>4. IsFiniteSet(Units(g, S)) /\ IsFiniteSet(Units(f, S))
  BY UnitsFinite
<1>5. /\ Cardinality(Units(f, S)) <= Cardinality(Units(g, S) \cup extra)
      /\ IsFiniteSet(Units(g, S) \cup extra)
      /\ Cardinality(Units(g, S) \cup extra) <= Cardinality(Units(g, S)) + Cardinality(extra)
  <2> HIDE DEF extra
  <2>1. IsFiniteSet(Units(g, S) \cup extra)
        /\ Cardinality(Units(g, S) \cup extra)
             = Cardinality(Units(g, S)) + Cardinality(extra) - Cardinality(Units(g, S) \cap extra)
    BY <1>2, <1>4, FS_Union
  <2>2. Cardinality(Units(g, S) \cap extra) \in Nat
    BY <1>4, FS_Intersection, FS_CardinalityType
  <2>3. Cardinality(Units(g, S)) \in Nat /\ Cardinality(extra) \in Nat
    BY <1>2, <1>4, FS_CardinalityType
  <2>4. Cardinality(Units(f, S)) <= Cardinality(Units(g, S) \cup extra)
    BY <1>3, <2>1, FS_Subset
  <2> QED BY <2>1, <2>2, <2>3, <2>4
<1>6. /\ Cardinality(Units(f, S)) \in Nat /\ Cardinality(Units(g, S)) \in Nat
      /\ Cardinality(extra) \in Nat /\ Cardinality(Units(g, S) \cup extra) \in Nat
  <2> HIDE DEF extra
  <2> QED BY <1>2, <1>4, <1>5, FS_CardinalityType
<1>7. SumFunctionOnSet(f, S) = Cardinality(Units(f, S)) /\ SumFunctionOnSet(g, S) = Cardinality(Units(g, S))
  BY SumIsUnits
<1> HIDE DEF P, extra
<1>8. c * Cardinality(T) = Cardinality(T) * c
  BY <1>1
<1> QED BY <1>1, <1>2, <1>5, <1>6, <1>7, <1>8

\* c for each member of T is the least there can be.
LEMMA SumAtLeast ==
    ASSUME NEW f, NEW S, NEW T, NEW c \in Nat, IsFiniteSet(S), T \subseteq S,
           \A x \in S : f[x] \in Nat, \A x \in T : f[x] >= c
    PROVE  c * Cardinality(T) <= SumFunctionOnSet(f, S)
<1> DEFINE P == T \X (1 .. c)
<1>1. /\ IsFiniteSet(T) /\ Cardinality(T) \in Nat
      /\ IsFiniteSet(P) /\ Cardinality(P) = Cardinality(T) * c
  <2>1. IsFiniteSet(T) /\ Cardinality(T) \in Nat
    BY FS_Subset, FS_CardinalityType
  <2>2. IsFiniteSet(1 .. c) /\ Cardinality(1 .. c) = c
    BY FS_Interval
  <2> QED BY <2>1, <2>2, FS_Product
<1>2. P \subseteq Units(f, S)
  BY DEF Units
<1>3. Cardinality(P) <= Cardinality(Units(f, S))
  <2> HIDE DEF P
  <2> QED BY <1>2, UnitsFinite, FS_Subset
<1>4. SumFunctionOnSet(f, S) = Cardinality(Units(f, S))
  BY SumIsUnits
<1>5. c * Cardinality(T) = Cardinality(T) * c
  BY <1>1
<1> HIDE DEF P
<1> QED BY <1>1, <1>3, <1>4, <1>5

-----------------------------------------------------------------------------

USE LaunchesAssumption, BodiesAssumption, LimitsAssumption, TimesAssumption,
    BoundsAssumption

\* A launch that does not exist has no reservation, and only such a launch waits
\* for its admission, whose clock was read in the past.
Waiting(l) ==
    /\ launch[l] = NoLaunch => reservation[l] = NoReservation
    /\ arrival[l] # NoTime =>
         launch[l] = NoLaunch /\ arrival[l] \in Times /\ arrival[l] <= now

\* What makes a launch count at every admission while it keeps its slot.
Keeps(l) == Running(l) /\ l \notin prolonged
KeepsReservation(l) == Keeps(l) => reservation[l].status = "held"

Keeping == {l \in Launches : Keeps(l)}

\* Versions name bodies: no write can follow a copy of the current version.
CopySound(u) ==
    /\ copy[u].version <= policy.version
    /\ copy[u].version = policy.version => copy[u].body = policy.body

IInv ==
    /\ TypeOK
    /\ EnforcedAsConfirmed
    /\ \A u \in Users : CopySound(u)
    /\ \A l \in Launches : Waiting(l) /\ KeepsReservation(l)
    /\ Cardinality(Keeping) <= Slots

LEMMA PeriodStartIsTime == ASSUME NEW t \in Nat PROVE PeriodStart(t) \in Nat
<1>1. CASE Day = 0
  BY <1>1 DEF PeriodStart
<1>2. CASE Day # 0
  <2>1. t \div Day \in Nat
    BY <1>2
  <2> DEFINE q == t \div Day
  <2>2. q * Day \in Nat
    <3> HIDE DEF q
    <3>1. q \in Nat
      BY <2>1 DEF q
    <3> QED BY <3>1
  <2> QED BY <1>2, <2>2 DEF PeriodStart
<1> QED BY <1>1, <1>2

LEMMA InitInv == Init => IInv
<1> SUFFICES ASSUME Init PROVE IInv
  OBVIOUS
<1>1. TypeOK
  <2>1. policy \in Policy /\ copy \in [Users -> Policy] /\ confirmed \in PolicyBodies
    <3>1. (CHOOSE body \in Bodies : TRUE) \in PolicyBodies
      BY BodiesAssumption
    <3>2. NoPolicy \in Policy /\ NoPolicy.body \in PolicyBodies
      BY <3>1, BoundsAssumption DEF NoPolicy, Policy
    <3> QED BY <3>2 DEF Init
  <2>2. launch \in [Launches -> Launch] /\ arrival \in [Launches -> Times \cup {NoTime}]
    BY DEF Init, Launch, NoLaunch, Terminal, NoTime, Times
  <2>3. reservation \in [Launches -> Reservation]
    BY DEF Init, Reservation, NoReservation, NoTime
  <2>4. ledger \in [Launches \cup Outside -> [Reports -> Entry \cup {NoEntry}]]
    BY DEF Init
  <2> QED
    BY <2>1, <2>2, <2>3, <2>4 DEF TypeOK, Init, Times
<1>2. EnforcedAsConfirmed /\ \A u \in Users : CopySound(u)
  BY DEF Init, NoPolicy, EnforcedAsConfirmed, effective_mode, CopySound
<1>3. \A l \in Launches : ~Keeps(l) /\ arrival[l] = NoTime
  BY DEF Init, Keeps, Running, NoReservation
<1>4. Keeping = {} /\ Cardinality(Keeping) = 0
  BY <1>3, FS_EmptySet DEF Keeping
<1> QED
  BY <1>1, <1>2, <1>3, <1>4 DEF Init, IInv, Waiting, KeepsReservation

\* Fewer slots are kept by fewer launches.
LEMMA FewerKeep ==
    ASSUME Cardinality(Keeping) <= Slots, \A l \in Launches : Keeps(l)' => Keeps(l)
    PROVE  Cardinality(Keeping') <= Slots
<1>1. Keeping' \subseteq Keeping /\ IsFiniteSet(Keeping)
  <2>1. IsFiniteSet(Keeping)
    BY FS_Subset DEF Keeping
  <2> QED BY <2>1 DEF Keeping
<1>2. Cardinality(Keeping') <= Cardinality(Keeping)
  BY <1>1, FS_Subset
<1>3. Cardinality(Keeping) \in Nat /\ Cardinality(Keeping') \in Nat
  BY <1>1, FS_Subset, FS_CardinalityType
<1> QED BY <1>2, <1>3

\* Settling changes a reservation's status and basis only, and leaves those of
\* the launches that keep their slots.
LEMMA ReconciledSound ==
    ASSUME TypeOK, NEW t \in Times, t <= now
    PROVE  /\ Reconciled(t) \in [Launches -> Reservation]
           /\ \A l \in Launches :
                /\ Reconciled(t)[l].admitted = reservation[l].admitted
                /\ reservation[l].status # "held" => Reconciled(t)[l] = reservation[l]
                /\ Live(l) /\ OnTime(l) => Reconciled(t)[l] = reservation[l]
<1>1. ASSUME NEW l \in Launches
      PROVE  Outcome(l, t)[1] \in {"held", "settled", "released"}
             /\ Outcome(l, t)[2] \in {"none", "measured", "reservation"}
  BY DEF Outcome
<1>2. reservation \in [Launches -> Reservation] /\ launch \in [Launches -> Launch] /\ now \in Int
  BY DEF TypeOK, Times
<1>3. ASSUME NEW l \in Launches PROVE Reconciled(t)[l] \in Reservation
  BY <1>1, <1>2, <1>3 DEF Reconciled, Reservation
<1>4. ASSUME NEW l \in Launches, Live(l), OnTime(l) PROVE ~Settleable(l, t)
  BY <1>2, <1>4 DEF Settleable, Live, Over, OnTime, Terminal, Launch, Times
<1> QED
  BY <1>2, <1>3, <1>4 DEF Reconciled, Settleable, Reservation

-----------------------------------------------------------------------------
LEMMA PolicyInv == IInv /\ PolicyStep => IInv'
<1> SUFFICES ASSUME IInv, PolicyStep PROVE IInv'
  OBVIOUS
<1> USE DEF IInv
<1>1. UNCHANGED <<launchVars, arrival, reservation, ledger, now>>
  BY DEF PolicyStep, ReadPolicy, ApprovePolicy, PutPolicy
<1>2. policy \in Policy /\ copy \in [Users -> Policy] /\ confirmed \in PolicyBodies
  BY DEF TypeOK
<1>3. /\ policy' \in Policy /\ copy' \in [Users -> Policy] /\ confirmed' \in PolicyBodies
      /\ EnforcedAsConfirmed'
      /\ \A u \in Users : CopySound(u)'
  <2> USE DEF CopySound, EnforcedAsConfirmed, effective_mode, Policy
  <2>1. ASSUME NEW u \in Users, ReadPolicy(u) PROVE <1>3!:
    BY <1>2, <2>1 DEF ReadPolicy
  <2>2. ASSUME NEW u \in Users, ApprovePolicy(u) PROVE <1>3!:
    <3>1. copy[u].body = policy.body /\ copy[u].body \in PolicyBodies
      BY <1>2, <2>2 DEF ApprovePolicy
    <3>2. /\ policy' = [version |-> policy.version + 1, body |-> policy.body, approved |-> TRUE]
          /\ confirmed' = copy[u].body /\ copy' = copy
          /\ policy.version \in 1..MaxVersion
      BY <1>2, <2>2 DEF ApprovePolicy
    <3> QED BY <1>2, <3>1, <3>2
  <2>3. ASSUME NEW u \in Users, NEW body \in Bodies, PutPolicy(u, body) PROVE <1>3!:
    BY <1>2, <2>3 DEF PutPolicy
  <2> QED BY <2>1, <2>2, <2>3 DEF PolicyStep
<1>4. TypeOK'
  BY <1>1, <1>3 DEF TypeOK, launchVars
<1>5. \A l \in Launches : Waiting(l)' /\ (Keeps(l)' <=> Keeps(l)) /\ KeepsReservation(l)'
  BY <1>1 DEF launchVars, Waiting, KeepsReservation, Keeps, Running, Live, OnTime
<1>6. Cardinality(Keeping') <= Slots
  BY <1>5, FewerKeep
<1> QED BY <1>3, <1>4, <1>5, <1>6

LEMMA PolicyKept ==
    ASSUME EnforcedAsConfirmed, \A u \in Users : CopySound(u), UNCHANGED policyVars
    PROVE  EnforcedAsConfirmed' /\ \A u \in Users : CopySound(u)'
BY DEF policyVars, EnforcedAsConfirmed, effective_mode, CopySound

\* The admission of a launch that the policy is effective for takes a slot that
\* no other launch keeps.
LEMMA AdmitKeeps ==
    ASSUME IInv, NEW l \in Launches, Admit(l)
    PROVE  Cardinality(Keeping') <= Slots
<1> USE DEF IInv
<1> DEFINE t == arrival[l]
           res == Reconciled(t)
<1>1. t \in Times /\ t <= now /\ launch[l] = NoLaunch /\ reservation[l] = NoReservation
  BY DEF Admit, Waiting
<1>2. /\ res \in [Launches -> Reservation]
      /\ \A k \in Launches : /\ res[k].admitted = reservation[k].admitted
                             /\ Live(k) /\ OnTime(k) => res[k] = reservation[k]
  BY <1>1, ReconciledSound
<1>3. /\ launch \in [Launches -> Launch] /\ now \in Int
      /\ launch' = [launch EXCEPT ![l] = NewLaunch(t)]
      /\ now' = now /\ prolonged' = prolonged
  BY DEF TypeOK, Times, Admit
<1>4. PICK began \in (t - MaxWait)..t \cap Nat :
        reservation' = [res EXCEPT ![l] =
          [status |-> "held", basis |-> "none", created |-> PeriodStart(began),
           admitted |-> IF effective_mode = "enforce" THEN PeriodStart(t) ELSE NoTime]]
  BY DEF Admit
<1>5. \A k \in Launches \ {l} : Keeps(k)' => Keeps(k)
  BY <1>2, <1>3, <1>4 DEF Keeps, Running, Live, OnTime
<1>6. CASE effective_mode = "enforce"
  <2>1. Fits(res, t)
    BY <1>6 DEF Admit
  <2>2. IsFiniteSet(Active(res, t)) /\ l \notin Active(res, t)
    BY <1>1, FS_Subset DEF Active, Live, NoLaunch
  <2>3. Cardinality(Active(res, t)) + 1 = Cardinality(Active(res, t) \cup {l})
        /\ IsFiniteSet(Active(res, t) \cup {l})
    BY <2>2, FS_AddElement
  <2>4. Keeping' \subseteq Active(res, t) \cup {l}
    <3> SUFFICES ASSUME NEW k \in Launches \ {l}, Keeps(k)'
                 PROVE  k \in Active(res, t)
      BY DEF Keeping
    <3>1. Keeps(k) /\ Live(k) /\ OnTime(k) /\ reservation[k].status = "held"
      BY <1>5 DEF Keeps, Running, KeepsReservation
    <3>2. res[k].status = "held" /\ launch[k].expires > t
      BY <1>1, <1>2, <1>3, <3>1 DEF OnTime, Launch, Times
    <3> QED BY <3>1, <3>2 DEF Active
  <2>5. Cardinality(Keeping') <= Cardinality(Active(res, t) \cup {l})
    BY <2>3, <2>4, FS_Subset
  <2>6. Cardinality(Active(res, t)) \in Nat /\ Cardinality(Keeping') \in Nat
    BY <2>2, <2>3, <2>4, FS_Subset, FS_CardinalityType
  <2> QED BY <2>1, <2>3, <2>5, <2>6 DEF Fits
<1>7. CASE effective_mode # "enforce"
  <2>1. reservation'[l].admitted = NoTime
    BY <1>2, <1>4, <1>7
  <2>2. \A k \in Launches : Keeps(k)' => Keeps(k)
    BY <1>5, <2>1 DEF Keeps, Running
  <2> QED BY <2>2, FewerKeep
<1> QED BY <1>6, <1>7

LEMMA AdmitInv ==
    ASSUME IInv, NEW l \in Launches, Admit(l)
    PROVE  IInv'
<1> USE DEF IInv
<1> DEFINE t == arrival[l]
           res == Reconciled(t)
<1>1. t \in Times /\ t <= now /\ launch[l] = NoLaunch /\ reservation[l] = NoReservation
  BY DEF Admit, Waiting
<1>2. /\ res \in [Launches -> Reservation]
      /\ \A k \in Launches : /\ res[k].admitted = reservation[k].admitted
                             /\ reservation[k].status # "held" => res[k] = reservation[k]
                             /\ Live(k) /\ OnTime(k) => res[k] = reservation[k]
  BY <1>1, ReconciledSound
<1>3. /\ launch \in [Launches -> Launch] /\ now \in Times /\ prolonged \subseteq Launches
      /\ arrival \in [Launches -> Times \cup {NoTime}]
      /\ launch' = [launch EXCEPT ![l] = NewLaunch(t)]
      /\ arrival' = [arrival EXCEPT ![l] = NoTime]
      /\ UNCHANGED <<policyVars, ledger, now, prolonged>>
  BY DEF TypeOK, Admit
<1>4. PICK began \in (t - MaxWait)..t \cap Nat :
        reservation' = [res EXCEPT ![l] =
          [status |-> "held", basis |-> "none", created |-> PeriodStart(began),
           admitted |-> IF effective_mode = "enforce" THEN PeriodStart(t) ELSE NoTime]]
  BY DEF Admit
<1>5. TypeOK'
  <2>1. launch' \in [Launches -> Launch]
    BY <1>1, <1>3 DEF Launch, NewLaunch, NoTime, Times
  <2>2. PeriodStart(began) \in Nat /\ PeriodStart(t) \in Nat
    <3>1. began \in Nat /\ t \in Nat
      BY <1>1, <1>4 DEF Times
    <3> QED BY <3>1, PeriodStartIsTime
  <2>3. reservation' \in [Launches -> Reservation]
    BY <1>2, <1>4, <2>2 DEF Reservation, NoTime
  <2> QED BY <1>3, <2>1, <2>3 DEF TypeOK, policyVars
<1>6. \A k \in Launches : Waiting(k)'
  BY <1>2, <1>3, <1>4 DEF Waiting, NoReservation, NewLaunch, NoLaunch
<1>7. \A k \in Launches : KeepsReservation(k)'
  BY <1>2, <1>3, <1>4 DEF KeepsReservation, Keeps, Running, Live, OnTime
<1> QED BY <1>3, <1>5, <1>6, <1>7, AdmitKeeps, PolicyKept

LEMMA AdmissionInv == IInv /\ AdmissionStep => IInv'
<1> SUFFICES ASSUME IInv, AdmissionStep PROVE IInv'
  OBVIOUS
<1> USE DEF IInv
<1>1. ASSUME NEW l \in Launches, Arrive(l) \/ Refuse(l) PROVE IInv'
  <2>1. /\ arrival \in [Launches -> Times \cup {NoTime}]
        /\ now \in Times
        /\ arrival' \in {[arrival EXCEPT ![l] = now], [arrival EXCEPT ![l] = NoTime]}
        /\ UNCHANGED <<policyVars, launchVars, reservation, ledger, now>>
    <3>1. CASE Arrive(l) BY <3>1 DEF TypeOK, Arrive
    <3>2. CASE Refuse(l) BY <3>2 DEF TypeOK, Refuse
    <3> QED BY <1>1, <3>1, <3>2
  <2>2. TypeOK'
    BY <2>1 DEF TypeOK, policyVars, launchVars
  <2>3. \A k \in Launches : (Keeps(k)' <=> Keeps(k)) /\ KeepsReservation(k)'
    BY <2>1 DEF launchVars, KeepsReservation, Keeps, Running, Live, OnTime
  <2>4. \A k \in Launches : Waiting(k)'
    <3>1. CASE Arrive(l)
      BY <2>1, <3>1 DEF Arrive, launchVars, Waiting, NoTime, Times
    <3>2. CASE Refuse(l)
      BY <2>1, <3>2 DEF Refuse, launchVars, Waiting
    <3> QED BY <1>1, <3>1, <3>2
  <2> QED BY <2>1, <2>2, <2>3, <2>4, FewerKeep, PolicyKept
<1>2. ASSUME NEW l \in Launches, AdmitUnbudgeted(l) PROVE IInv'
  <2>1. /\ arrival[l] \in Times /\ reservation[l] = NoReservation
        /\ launch \in [Launches -> Launch]
        /\ arrival \in [Launches -> Times \cup {NoTime}]
        /\ launch' = [launch EXCEPT ![l] = NewLaunch(arrival[l])]
        /\ arrival' = [arrival EXCEPT ![l] = NoTime]
        /\ UNCHANGED <<policyVars, reservation, ledger, now, prolonged>>
    BY <1>2 DEF TypeOK, AdmitUnbudgeted, Waiting
  <2>2. TypeOK'
    <3>1. launch' \in [Launches -> Launch]
      BY <2>1 DEF Launch, NewLaunch, NoTime, Times
    <3> QED BY <2>1, <3>1 DEF TypeOK, policyVars
  <2>3. \A k \in Launches : (Keeps(k)' => Keeps(k)) /\ KeepsReservation(k)'
    BY <2>1 DEF KeepsReservation, Keeps, Running, Live, OnTime, NoReservation
  <2>4. launch'[l] # NoLaunch /\ \A k \in Launches : Waiting(k)'
    BY <2>1 DEF Waiting, NewLaunch, NoLaunch
  <2> QED BY <2>1, <2>2, <2>3, <2>4, FewerKeep, PolicyKept
<1>3. ASSUME NEW t \in 0..now, ReconcileProject(t) PROVE IInv'
  <2>1. /\ t \in Times /\ t <= now
        /\ reservation' = Reconciled(t)
        /\ UNCHANGED <<policyVars, launchVars, arrival, ledger, now>>
    BY <1>3 DEF TypeOK, Times, ReconcileProject
  <2>2. /\ reservation' \in [Launches -> Reservation]
        /\ \A k \in Launches :
             /\ reservation'[k].admitted = reservation[k].admitted
             /\ reservation[k].status # "held" => reservation'[k] = reservation[k]
             /\ Live(k) /\ OnTime(k) => reservation'[k] = reservation[k]
    BY <2>1, ReconciledSound
  <2>3. TypeOK'
    BY <2>1, <2>2 DEF TypeOK, policyVars, launchVars
  <2>4. \A k \in Launches : (Keeps(k)' <=> Keeps(k)) /\ KeepsReservation(k)'
    BY <2>1, <2>2 DEF launchVars, KeepsReservation, Keeps, Running, Live, OnTime
  <2>5. \A k \in Launches : Waiting(k)'
    BY <2>1, <2>2 DEF launchVars, Waiting, NoReservation
  <2> QED BY <2>1, <2>3, <2>4, <2>5, FewerKeep, PolicyKept
<1> QED BY <1>1, <1>2, <1>3, AdmitInv DEF AdmissionStep

-----------------------------------------------------------------------------
\* A launch's own steps end it, or go on within its deadline, or are recorded as
\* prolongations.
LEMMA LaunchInv == IInv /\ LaunchStep => IInv'
<1> SUFFICES ASSUME IInv, NEW l \in Launches,
                    \/ StartLaunch(l) \/ LinkSession(l) \/ Prolong(l) \/ Expire(l)
                    \/ \E status \in {"ended", "rejected"} : EndLaunch(l, status)
             PROVE  IInv'
  BY DEF LaunchStep
<1> USE DEF IInv
<1>1. /\ launch \in [Launches -> Launch] /\ now \in Times /\ prolonged \subseteq Launches
      /\ UNCHANGED <<policyVars, arrival, reservation, ledger, now>>
      /\ launch[l] # NoLaunch
      /\ \A k \in Launches \ {l} : launch'[k] = launch[k]
  BY DEF TypeOK, StartLaunch, LinkSession, Prolong, Expire, EndLaunch, NoLaunch, Live
<1>2. /\ launch' \in [Launches -> Launch] /\ launch'[l].status # "absent"
      /\ prolonged \subseteq prolonged' /\ prolonged' \subseteq Launches
  <2> USE <1>1 DEF Launch, Terminal, Times
  <2>1. CASE StartLaunch(l) BY <2>1 DEF StartLaunch
  <2>2. CASE LinkSession(l) BY <2>2 DEF LinkSession
  <2>3. CASE Prolong(l) BY <2>3 DEF Prolong
  <2>4. CASE Expire(l)
    <3> DEFINE status == IF launch[l].status = "requested" THEN "unpulled" ELSE "ended"
    <3>1. launch' = [launch EXCEPT ![l].status = status, ![l].finished = now]
          /\ prolonged' = prolonged
      BY <2>4 DEF Expire
    <3>2. status \in {"unpulled", "ended"}
      OBVIOUS
    <3> HIDE DEF status
    <3> QED BY <3>1, <3>2, ZenonT(30)
  <2>5. ASSUME NEW status \in {"ended", "rejected"}, EndLaunch(l, status) PROVE <1>2!:
    BY <2>5 DEF EndLaunch
  <2> QED BY <2>1, <2>2, <2>3, <2>4, <2>5
<1>3. TypeOK'
  BY <1>1, <1>2 DEF TypeOK, policyVars
<1>4. Keeps(l)' => Keeps(l)
  <2> USE <1>1 DEF Keeps, Running, Live, OnTime, Launch, Terminal
  <2>1. CASE StartLaunch(l) BY <2>1 DEF StartLaunch
  <2>2. CASE LinkSession(l) BY <2>2 DEF LinkSession
  <2>3. CASE Prolong(l) BY <2>3 DEF Prolong
  <2>4. CASE Expire(l) BY <2>4 DEF Expire
  <2>5. ASSUME NEW status \in {"ended", "rejected"}, EndLaunch(l, status) PROVE <1>4!:
    BY <2>5 DEF EndLaunch
  <2> QED BY <2>1, <2>2, <2>3, <2>4, <2>5
<1>5. \A k \in Launches : Keeps(k)' => Keeps(k)
  BY <1>1, <1>2, <1>4 DEF Keeps, Running, Live, OnTime
<1>6. \A k \in Launches : KeepsReservation(k)'
  BY <1>1, <1>5 DEF KeepsReservation
<1>7. \A k \in Launches : Waiting(k)'
  BY <1>1, <1>2 DEF Waiting, NoLaunch
<1> QED BY <1>1, <1>3, <1>5, <1>6, <1>7, FewerKeep, PolicyKept

LEMMA UsageInv == IInv /\ UsageStep => IInv'
<1> SUFFICES ASSUME IInv, NEW l \in Launches \cup Outside, NEW r \in Reports,
                    NEW amount \in Amounts \cup {Unknown}, NEW done \in 0..now,
                    RecordUsage(l, r, [amount |-> amount, at |-> PeriodStart(done)])
             PROVE  IInv'
  BY DEF UsageStep
<1> USE DEF IInv
<1>1. UNCHANGED <<policyVars, launchVars, arrival, reservation, now>>
  BY DEF RecordUsage
<1>2. PeriodStart(done) \in Nat
  BY PeriodStartIsTime DEF TypeOK, Times
<1>3. ledger' \in [Launches \cup Outside -> [Reports -> Entry \cup {NoEntry}]]
  <2>1. [amount |-> amount, at |-> PeriodStart(done)] \in Entry
    BY <1>2 DEF Entry
  <2> DEFINE entry == [amount |-> amount, at |-> PeriodStart(done)]
  <2>2. ledger' = [ledger EXCEPT ![l][r] = entry]
    BY DEF RecordUsage
  <2>3. entry \in Entry \cup {NoEntry}
    BY <2>1
  <2> HIDE DEF entry
  <2> QED BY <2>2, <2>3 DEF TypeOK
<1>4. TypeOK'
  BY <1>1, <1>3 DEF TypeOK, policyVars, launchVars
<1>5. \A k \in Launches : Waiting(k)' /\ (Keeps(k)' <=> Keeps(k)) /\ KeepsReservation(k)'
  BY <1>1 DEF launchVars, Waiting, KeepsReservation, Keeps, Running, Live, OnTime
<1> QED BY <1>1, <1>4, <1>5, FewerKeep, PolicyKept

LEMMA TickInv == IInv /\ Tick => IInv'
<1> SUFFICES ASSUME IInv, Tick PROVE IInv'
  OBVIOUS
<1> USE DEF IInv
<1>1. /\ now \in Times /\ now' = now + 1 /\ now' \in Times
      /\ UNCHANGED <<policyVars, launchVars, arrival, reservation, ledger>>
  BY DEF TypeOK, Times, Tick
<1>2. TypeOK'
  BY <1>1 DEF TypeOK, policyVars, launchVars
<1>3. \A k \in Launches : Waiting(k)' /\ (Keeps(k)' => Keeps(k))
  BY <1>1 DEF TypeOK, Launch, launchVars, Waiting, Keeps, Running, Live, OnTime, Times
<1>4. \A k \in Launches : KeepsReservation(k)'
  BY <1>1, <1>3 DEF KeepsReservation
<1> QED BY <1>1, <1>2, <1>3, <1>4, FewerKeep, PolicyKept

LEMMA StutterInv == IInv /\ UNCHANGED vars => IInv'
<1> SUFFICES ASSUME IInv, UNCHANGED vars PROVE IInv'
  OBVIOUS
<1> USE DEF IInv, vars
<1>1. TypeOK'
  BY DEF TypeOK
<1>2. \A k \in Launches : Waiting(k)' /\ (Keeps(k)' <=> Keeps(k)) /\ KeepsReservation(k)'
  BY DEF Waiting, KeepsReservation, Keeps, Running, Live, OnTime
<1> QED BY <1>1, <1>2, FewerKeep, PolicyKept DEF policyVars

LEMMA Invariance == Spec => []IInv
<1>1. IInv /\ [Next]_vars => IInv'
  BY PolicyInv, AdmissionInv, LaunchInv, UsageInv, TickInv, StutterInv DEF Next
<1> QED BY InitInv, <1>1, PTL DEF Spec

-----------------------------------------------------------------------------
\* Every variable has its type, for any launches, users, limits and times.
THEOREM TypeCorrect == Spec => []TypeOK
<1>1. IInv => TypeOK
  BY DEF IInv
<1> QED BY Invariance, <1>1, PTL

\* Whoever writes and approves the policy, what is enforced was read by its
\* approver (put_policy, approve_policy).
THEOREM EnforcedIsConfirmed == Spec => []EnforcedAsConfirmed
<1>1. IInv => EnforcedAsConfirmed
  BY DEF IInv
<1> QED BY Invariance, <1>1, PTL

\* However many launches ask, and however reports, settlements and expiries
\* interleave, no more of them run at a time than the policy has slots, but for
\* those prolonged after they were overdue (decide_admission, reconcile).
THEOREM SlotsAreHonoured == Spec => []SlotsHonouredUnlessProlonged
<1>1. IInv => SlotsHonouredUnlessProlonged
  BY DEF IInv, Keeping, Keeps, SlotsHonouredUnlessProlonged
<1> QED BY Invariance, <1>1, PTL

-----------------------------------------------------------------------------
(* The bill *)

LEMMA SumSame ==
    ASSUME NEW f, NEW g, NEW S, IsFiniteSet(S), \A x \in S : f[x] \in Nat /\ f[x] = g[x]
    PROVE  SumFunctionOnSet(f, S) = SumFunctionOnSet(g, S)
<1>1. /\ SumFunctionOnSet(f, S) \in Nat /\ SumFunctionOnSet(g, S) \in Nat
      /\ SumFunctionOnSet(f, S) <= SumFunctionOnSet(g, S)
  BY SumLess
<1>2. SumFunctionOnSet(g, S) <= SumFunctionOnSet(f, S)
  BY SumLess
<1> QED BY <1>1, <1>2

LEMMA SumOfNone == ASSUME NEW f PROVE SumFunctionOnSet(f, {}) = 0
<1>1. Units(f, {}) = {}
  BY DEF Units
<1>2. SumFunctionOnSet(f, {}) = Cardinality(Units(f, {}))
  BY SumIsUnits, FS_EmptySet
<1> QED BY <1>1, <1>2, FS_EmptySet

\* What is known of a launch is amounts, in whatever selection of its entries.
LEMMA AmountType ==
    ASSUME TypeOK, NEW l \in Launches \cup Outside, NEW reports \in SUBSET Known(l)
    PROVE  Amount(l, reports) \in Nat
<1> DEFINE f == [r \in Reports |-> ledger[l][r].amount]
<1>1. reports \subseteq Reports /\ IsFiniteSet(reports)
  <2>1. reports \subseteq Reports
    BY DEF Known, Entries
  <2> QED BY <2>1, LaunchesAssumption, FS_Subset
<1>2. \A r \in reports : f[r] \in Nat
  <2> SUFFICES ASSUME NEW r \in reports PROVE ledger[l][r].amount \in Nat
    BY <1>1
  <2>1. ledger[l][r] \in Entry /\ ledger[l][r].amount # Unknown
    BY <1>1 DEF TypeOK, Known, Entries
  <2> QED BY <2>1, LimitsAssumption DEF Entry
<1> HIDE DEF f
<1>3. SumFunctionOnSet(f, reports) \in Nat
  BY <1>1, <1>2, SumLess
<1> QED BY <1>3 DEF Amount, f

\* A reservation is charged what was measured, or else itself.
LEMMA ChargeSound ==
    ASSUME TypeOK, NEW res \in [Launches -> Reservation], NEW l \in Launches
    PROVE  /\ Charge(l, res) \in Nat
           /\ res[l].status # "absent" =>
                Actual(l) <= Charge(l, res) /\ Charge(l, res) <= Actual(l) + Reserved
           /\ (res[l].status = "held"
                 \/ (res[l].status # "absent" /\ res[l].basis = "reservation" /\ Entries(l) = {}))
                => Charge(l, res) >= Reserved
<1> DEFINE actual == Actual(l)
<1>1. actual \in Nat
  BY AmountType DEF Actual
<1>2. Known(l) = {} => actual = 0
  BY SumOfNone DEF Actual, Amount
<1>3. Entries(l) = {} => Known(l) = {} /\ Entries(l) = Known(l)
  BY DEF Known
<1>4. res[l].status \in {"absent", "held", "settled", "released"}
  BY DEF Reservation
<1>5. Reserved \in Nat
  BY LimitsAssumption
<1> HIDE DEF actual
<1>6. Actual(l) = actual
  BY DEF actual
<1>7. CASE res[l].status = "absent"
  BY <1>1, <1>5, <1>6, <1>7 DEF Charge
<1>8. CASE res[l].status = "held"
  <2>1. Charge(l, res) = Larger(actual, Reserved)
    BY <1>6, <1>8 DEF Charge
  <2> QED BY <1>1, <1>5, <1>6, <1>8, <2>1 DEF Larger
<1>9. CASE res[l].status \in {"settled", "released"}
  <2>1. Charge(l, res) =
          IF Entries(l) # Known(l) /\ policy.body.unknown_cost = "charge_reservation"
          THEN Larger(actual, Reserved)
          ELSE IF Known(l) = {} /\ res[l].basis = "reservation" THEN Reserved
          ELSE actual
    BY <1>6, <1>9 DEF Charge
  <2> QED BY <1>1, <1>2, <1>3, <1>5, <1>6, <1>9, <2>1 DEF Larger
<1> QED BY <1>4, <1>7, <1>8, <1>9

LEMMA ChargeMeasured ==
    ASSUME TypeOK, NEW l \in Launches, Reserving(l), ~Estimated(l)
    PROVE  Charge(l, reservation) = Actual(l)
<1>1. reservation[l].status \in {"settled", "released"}
  BY DEF TypeOK, Reservation, Reserving, Estimated
<1>2. Known(l) = Entries(l) /\ ~(Known(l) = {} /\ reservation[l].basis = "reservation")
  BY DEF Estimated
<1> QED BY <1>1, <1>2 DEF Charge

LEMMA LooseType ==
    ASSUME TypeOK, NEW start
    PROVE  Loose(start) \in Nat
<1> DEFINE unreserved == {l \in Launches : ~Reserving(l)} \cup Outside
           f == [l \in unreserved |-> Amount(l, Since(l, start))]
<1>1. IsFiniteSet(unreserved) /\ unreserved \subseteq Launches \cup Outside
  <2>1. IsFiniteSet({l \in Launches : ~Reserving(l)})
    BY LaunchesAssumption, FS_Subset
  <2> QED BY <2>1, LaunchesAssumption, FS_Union
<1>2. \A l \in unreserved : f[l] \in Nat
  BY <1>1, AmountType DEF Since
<1> HIDE DEF f, unreserved
<1>3. SumFunctionOnSet(f, unreserved) \in Nat
  BY <1>1, <1>2, SumLess
<1> QED BY <1>3 DEF Loose, f, unreserved

\* The bill of all time has every launch and every amount on it.
LEMMA BilledOnce == TypeOK => UsageIsBilledOnce
<1> SUFFICES ASSUME TypeOK PROVE UsageIsBilledOnce
  OBVIOUS
<1> DEFINE reserved == {l \in Launches : Reserving(l)}
           unreserved == {l \in Launches : ~Reserving(l)} \cup Outside
           estimated == {l \in Launches : Estimated(l)}
           all == Launches \cup Outside
           actual == [l \in all |-> Actual(l)]
           charge == [l \in Launches |-> Charge(l, reservation)]
           loose == [l \in unreserved |-> Amount(l, Since(l, 0))]
<1>1. /\ IsFiniteSet(reserved) /\ IsFiniteSet(unreserved) /\ reserved \cap unreserved = {}
      /\ all = reserved \cup unreserved
  <2>1. IsFiniteSet(reserved) /\ IsFiniteSet({l \in Launches : ~Reserving(l)})
    BY LaunchesAssumption, FS_Subset
  <2>2. IsFiniteSet(unreserved)
    BY <2>1, LaunchesAssumption, FS_Union
  <2> QED BY <2>1, <2>2, LaunchesAssumption
<1>2. \A l \in all : actual[l] \in Nat
  BY AmountType DEF Actual
<1>3. /\ \A l \in reserved : charge[l] \in Nat /\ actual[l] \in Nat /\ actual[l] <= charge[l]
      /\ \A l \in estimated : charge[l] <= actual[l] + Reserved
      /\ \A l \in reserved \ estimated : charge[l] <= actual[l]
      /\ estimated \subseteq reserved
  <2>1. reservation \in [Launches -> Reservation]
    BY DEF TypeOK
  <2>2. \A l \in reserved : charge[l] \in Nat /\ actual[l] <= charge[l]
                            /\ charge[l] <= actual[l] + Reserved
    BY <2>1, ChargeSound DEF Reserving
  <2>3. \A l \in reserved \ estimated : charge[l] = actual[l]
    BY ChargeMeasured
  <2>4. estimated \subseteq reserved
    BY DEF Estimated
  <2> HIDE DEF actual, charge
  <2> QED BY <1>1, <1>2, <2>2, <2>3, <2>4
<1>4. \A l \in unreserved : loose[l] \in Nat /\ loose[l] = actual[l]
  <2> SUFFICES ASSUME NEW l \in unreserved PROVE Since(l, 0) = Known(l)
    BY <1>1, <1>2 DEF Actual
  <2>1. \A r \in Known(l) : ledger[l][r] \in Entry
    BY <1>1 DEF TypeOK, Known, Entries
  <2> QED BY <2>1 DEF Since, Entry
<1>5. Bill(reservation, 0) = SumFunctionOnSet(charge, reserved) + SumFunctionOnSet(loose, unreserved)
  <2>1. {l \in Launches : reservation[l].status # "absent" /\ reservation[l].created >= 0} = reserved
    BY DEF TypeOK, Reservation, Reserving
  <2>2. Loose(0) = SumFunctionOnSet(loose, unreserved)
    BY DEF Loose
  <2> HIDE DEF loose, unreserved, reserved
  <2> QED BY <2>1, <2>2 DEF Bill
<1>6. SumFunction(actual) = SumFunctionOnSet(actual, all)
  BY DEF SumFunction
<1> HIDE DEF reserved, unreserved, estimated, all, actual, charge, loose
<1>7. SumFunctionOnSet(actual, all)
        = SumFunctionOnSet(actual, reserved) + SumFunctionOnSet(actual, unreserved)
  <2>1. \A l \in reserved \cup unreserved : actual[l] \in Nat
    BY <1>1, <1>2
  <2>2. SumFunctionOnSet(actual, reserved \cup unreserved)
          = SumFunctionOnSet(actual, reserved) + SumFunctionOnSet(actual, unreserved)
    BY <1>1, <2>1, SumDisjoint
  <2> QED BY <1>1, <2>2
<1>8. SumFunctionOnSet(loose, unreserved) = SumFunctionOnSet(actual, unreserved)
  BY <1>1, <1>4, SumSame
<1>9. /\ SumFunctionOnSet(actual, reserved) \in Nat /\ SumFunctionOnSet(charge, reserved) \in Nat
      /\ SumFunctionOnSet(actual, reserved) <= SumFunctionOnSet(charge, reserved)
  BY <1>1, <1>3, SumLess
<1>10. SumFunctionOnSet(charge, reserved)
         <= SumFunctionOnSet(actual, reserved) + Reserved * Cardinality(estimated)
  BY <1>1, <1>3, LimitsAssumption, SumExtra
<1>11. SumFunctionOnSet(actual, unreserved) \in Nat
  <2>1. \A l \in unreserved : actual[l] \in Nat
    BY <1>1, <1>2
  <2> QED BY <1>1, <2>1, SumLess
<1>12. Reserved * Cardinality(estimated) \in Nat
  <2>1. Cardinality(estimated) \in Nat
    BY <1>1, <1>3, FS_Subset, FS_CardinalityType
  <2> QED BY <2>1, LimitsAssumption
<1>13. SumFunction(actual) <= Bill(reservation, 0)
       /\ Bill(reservation, 0) <= SumFunction(actual) + Reserved * Cardinality(estimated)
  BY <1>5, <1>6, <1>7, <1>8, <1>9, <1>10, <1>11, <1>12
<1> QED BY <1>13 DEF UsageIsBilledOnce, actual, all, estimated

\* Whatever launches, reservations and policies there were when usage was
\* recorded or corrected, the bill has each measured amount once (_meters).
THEOREM BilledExactlyOnce == Spec => []UsageIsBilledOnce
<1>1. IInv => UsageIsBilledOnce
  BY BilledOnce DEF IInv
<1> QED BY Invariance, <1>1, PTL

-----------------------------------------------------------------------------
(* The limit *)

LEMMA BillCovers ==
    ASSUME TypeOK, NEW res \in [Launches -> Reservation], NEW start \in Nat,
           NEW C \in SUBSET {l \in Launches :
               /\ res[l].status # "absent" /\ res[l].created = start
               /\ \/ res[l].status = "held"
                  \/ res[l].basis = "reservation" /\ Entries(l) = {}}
    PROVE  Reserved * Cardinality(C) <= Bill(res, start) /\ Bill(res, start) \in Nat
<1> DEFINE window == {l \in Launches : res[l].status # "absent" /\ res[l].created >= start}
           charge == [l \in Launches |-> Charge(l, res)]
<1>1. C \subseteq window /\ IsFiniteSet(window)
  <2>1. IsFiniteSet(window)
    BY LaunchesAssumption, FS_Subset
  <2> QED BY <2>1
<1>2. \A l \in window : charge[l] \in Nat
  BY ChargeSound
<1>3. \A l \in C : charge[l] >= Reserved
  BY ChargeSound
<1>4. Bill(res, start) = SumFunctionOnSet(charge, window) + Loose(start)
  BY DEF Bill
<1> HIDE DEF window, charge
<1>5. Reserved * Cardinality(C) <= SumFunctionOnSet(charge, window)
  BY <1>1, <1>2, <1>3, LimitsAssumption, SumAtLeast
<1>6. SumFunctionOnSet(charge, window) \in Nat
  BY <1>1, <1>2, SumLess
<1>7. Reserved * Cardinality(C) \in Nat
  <2>1. Cardinality(C) \in Nat
    BY <1>1, FS_Subset, FS_CardinalityType
  <2> QED BY <2>1, LimitsAssumption
<1> QED BY <1>4, <1>5, <1>6, <1>7, LooseType

\* What fits the limit with a margin of one reservation has room for one more.
LEMMA OneMoreFits ==
    ASSUME NEW C, NEW D, NEW l, IsFiniteSet(C), D \subseteq C \cup {l}, NEW bill \in Nat,
           Reserved * Cardinality(C) <= bill, bill + Reserved <= Limit
    PROVE  Reserved * Cardinality(D) <= Limit
<1>1. IsFiniteSet(C \cup {l}) /\ Cardinality(C \cup {l}) <= Cardinality(C) + 1
  <2>1. Cardinality(C) \in Nat
    BY FS_CardinalityType
  <2>2. CASE l \in C
    <3>1. C \cup {l} = C
      BY <2>2
    <3>2. Cardinality(C) <= Cardinality(C) + 1
      BY <2>1
    <3> QED BY <3>1, <3>2, Zenon
  <2>3. CASE l \notin C
    <3>1. IsFiniteSet(C \cup {l}) /\ Cardinality(C \cup {l}) = Cardinality(C) + 1
      BY <2>3, FS_AddElement
    <3> QED BY <2>1, <3>1
  <2> QED BY <2>2, <2>3
<1>2. Cardinality(D) <= Cardinality(C \cup {l}) /\ IsFiniteSet(D)
  BY <1>1, FS_Subset
<1>3. Cardinality(C) \in Nat /\ Cardinality(D) \in Nat /\ Cardinality(C \cup {l}) \in Nat
  BY <1>1, <1>2, FS_CardinalityType
<1>4. Cardinality(D) <= Cardinality(C) + 1
  BY <1>1, <1>2, <1>3
<1>5. ASSUME NEW c \in Nat, NEW d \in Nat, d <= c + 1 PROVE Reserved * d <= Reserved * c + Reserved
  BY <1>5, LimitsAssumption
<1>6. Reserved * Cardinality(D) <= Reserved * Cardinality(C) + Reserved
  BY <1>3, <1>4, <1>5
<1>7. Reserved * Cardinality(D) \in Nat /\ Reserved * Cardinality(C) \in Nat
  BY <1>3, LimitsAssumption
<1> QED BY <1>6, <1>7, LimitsAssumption

\* A launch without a reservation has never had one, and what is committed of
\* any period is within the limit.
NeverReserved(l) == reservation[l].status = "absent" => reservation[l] = NoReservation

LimitInv ==
    /\ \A l \in Launches : NeverReserved(l)
    /\ \A start \in Nat : Reserved * Cardinality(CommittedIn(start)) <= Limit

LEMMA FewerCommitted ==
    ASSUME LimitInv, NEW start \in Nat, CommittedIn(start)' \subseteq CommittedIn(start)
    PROVE  Reserved * Cardinality(CommittedIn(start)') <= Limit
<1>1. IsFiniteSet(CommittedIn(start))
  BY LaunchesAssumption, FS_Subset DEF CommittedIn
<1>2. /\ Cardinality(CommittedIn(start)') <= Cardinality(CommittedIn(start))
      /\ Cardinality(CommittedIn(start)') \in Nat /\ Cardinality(CommittedIn(start)) \in Nat
  BY <1>1, FS_Subset, FS_CardinalityType
<1>3. ASSUME NEW c \in Nat, NEW d \in Nat, d <= c PROVE Reserved * d <= Reserved * c
  BY <1>3, LimitsAssumption
<1>4. Reserved * Cardinality(CommittedIn(start)') <= Reserved * Cardinality(CommittedIn(start))
  BY <1>2, <1>3
<1>5. Reserved * Cardinality(CommittedIn(start)) <= Limit
  BY DEF LimitInv
<1>6. /\ Reserved * Cardinality(CommittedIn(start)') \in Nat
      /\ Reserved * Cardinality(CommittedIn(start)) \in Nat
  BY <1>2, LimitsAssumption
<1> QED BY <1>4, <1>5, <1>6, LimitsAssumption

LEMMA NoMoreCommitted ==
    ASSUME LimitInv, \A l \in Launches : NeverReserved(l)',
           \A l \in Launches : Committed(l)' => /\ Committed(l)
                                                /\ reservation[l].created = reservation'[l].created
                                                /\ reservation[l].admitted = reservation'[l].admitted
    PROVE  LimitInv'
<1>1. ASSUME NEW start \in Nat PROVE CommittedIn(start)' \subseteq CommittedIn(start)
  BY DEF CommittedIn
<1> QED BY <1>1, FewerCommitted DEF LimitInv

\* A settlement commits nothing.
LEMMA ReconciledCommits ==
    ASSUME TypeOK, NEW t \in Times, t <= now, NEW l \in Launches, NeverReserved(l)
    PROVE  LET res == Reconciled(t) IN
           /\ res[l].created = reservation[l].created /\ res[l].admitted = reservation[l].admitted
           /\ res[l].status = "absent" => res[l] = NoReservation
           /\ (/\ res[l].admitted # NoTime
               /\ \/ res[l].status = "held"
                  \/ res[l].basis = "reservation" /\ Entries(l) = {}) => Committed(l)
<1>1. reservation[l] \in Reservation
  BY DEF TypeOK
<1>2. CASE ~Settleable(l, t)
  <2>1. Reconciled(t)[l] = reservation[l]
    BY <1>2 DEF Reconciled
  <2> QED BY <2>1 DEF Committed, NeverReserved
<1>3. CASE Settleable(l, t)
  <2>1. Outcome(l, t)[1] \in {"held", "settled", "released"}
    BY DEF Outcome
  <2> DEFINE status == Outcome(l, t)[1]
             basis == Outcome(l, t)[2]
  <2>2. Reconciled(t)[l] = [reservation[l] EXCEPT !.status = status, !.basis = basis]
    BY <1>3 DEF Reconciled
  <2>3. reservation[l].status = "held"
    BY <1>3 DEF Settleable
  <2> HIDE DEF status, basis
  <2>4. /\ Reconciled(t)[l].created = reservation[l].created
        /\ Reconciled(t)[l].admitted = reservation[l].admitted
        /\ Reconciled(t)[l].status = status
    BY <1>1, <2>2 DEF Reservation
  <2> QED BY <2>1, <2>3, <2>4 DEF Committed, status
<1> QED BY <1>2, <1>3

LEMMA LimitInit == Init => LimitInv
<1> SUFFICES ASSUME Init PROVE LimitInv
  OBVIOUS
<1>1. ASSUME NEW start \in Nat PROVE CommittedIn(start) = {}
  BY DEF Init, CommittedIn, Committed, NoReservation
<1>2. Cardinality({}) = 0 /\ Reserved * 0 <= Limit
  BY FS_EmptySet, LimitsAssumption
<1> QED BY <1>1, <1>2 DEF LimitInv, NeverReserved, Init

LEMMA LimitAdmit ==
    ASSUME IInv, LimitInv, NEW l \in Launches, Admit(l)
    PROVE  LimitInv'
<1> DEFINE t == arrival[l]
           res == Reconciled(t)
<1>1. TypeOK /\ t \in Times /\ t <= now /\ ledger' = ledger
  BY DEF IInv, Admit, Waiting
<1>2. PICK start \in Nat : start = PeriodStart(t)
  BY <1>1, PeriodStartIsTime DEF Times
<1>3. res \in [Launches -> Reservation]
  BY <1>1, ReconciledSound
<1>4. PICK began \in (t - MaxWait)..t \cap Nat :
        reservation' = [res EXCEPT ![l] =
          [status |-> "held", basis |-> "none", created |-> PeriodStart(began),
           admitted |-> IF effective_mode = "enforce" THEN start ELSE NoTime]]
  BY <1>2 DEF Admit
<1>5. reservation'[l].status = "held"
      /\ reservation'[l].admitted = IF effective_mode = "enforce" THEN start ELSE NoTime
  BY <1>3, <1>4
<1>6. ASSUME NEW k \in Launches \ {l}
      PROVE  /\ reservation'[k] = res[k] /\ NeverReserved(k)'
             /\ reservation[k].created = reservation'[k].created
             /\ reservation[k].admitted = reservation'[k].admitted
             /\ Committed(k)' => Committed(k)
  <2>1. reservation'[k] = res[k]
    BY <1>3, <1>4
  <2>2. Entries(k)' = Entries(k)
    BY <1>1 DEF Entries
  <2> HIDE DEF res
  <2>3. NeverReserved(k)
    BY DEF LimitInv
  <2> QED BY <1>1, <2>1, <2>2, <2>3, ReconciledCommits DEF res, NeverReserved, Committed
<1>7. NeverReserved(l)'
  BY <1>5 DEF NeverReserved
<1>8. ASSUME NEW other \in Nat,
             other # start \/ effective_mode # "enforce"
      PROVE  CommittedIn(other)' \subseteq CommittedIn(other)
  BY <1>2, <1>5, <1>6, <1>8 DEF CommittedIn, Committed
<1>9. ASSUME effective_mode = "enforce"
      PROVE  Reserved * Cardinality(CommittedIn(start)') <= Limit
  <2> DEFINE C == CommittedIn(start)' \ {l}
  <2>1. Fits(res, t)
    BY <1>9 DEF Admit
  <2>2. C \in SUBSET {k \in Launches :
               /\ res[k].status # "absent" /\ res[k].created = start
               /\ \/ res[k].status = "held"
                  \/ res[k].basis = "reservation" /\ Entries(k) = {}}
    <3> SUFFICES ASSUME NEW k \in C
                 PROVE  /\ res[k].status # "absent" /\ res[k].created = start
                        /\ \/ res[k].status = "held"
                           \/ res[k].basis = "reservation" /\ Entries(k) = {}
      BY DEF CommittedIn
    <3>1. k \in Launches \ {l} /\ Committed(k)' /\ reservation'[k].created = start
      BY DEF CommittedIn
    <3>2. reservation'[k] = res[k] /\ NeverReserved(k)'
      BY <1>6, <3>1
    <3>3. Entries(k)' = Entries(k)
      BY <1>1 DEF Entries
    <3> HIDE DEF res
    <3> QED BY <3>1, <3>2, <3>3 DEF Committed, NeverReserved, NoReservation
  <2> HIDE DEF res, t
  <2>3. Reserved * Cardinality(C) <= Bill(res, start) /\ Bill(res, start) \in Nat
    BY <1>1, <1>2, <1>3, <2>2, BillCovers
  <2>4. Bill(res, start) + Reserved <= Limit
    BY <1>2, <2>1 DEF Fits
  <2>5. IsFiniteSet(C) /\ CommittedIn(start)' \subseteq C \cup {l}
    BY LaunchesAssumption, FS_Subset DEF CommittedIn
  <2> HIDE DEF C
  <2> QED BY <2>3, <2>4, <2>5, OneMoreFits
<1>10. ASSUME NEW other \in Nat PROVE Reserved * Cardinality(CommittedIn(other)') <= Limit
  <2>1. CASE other = start /\ effective_mode = "enforce"
    BY <1>9, <2>1
  <2>2. CASE other # start \/ effective_mode # "enforce"
    BY <1>8, <2>2, FewerCommitted
  <2> QED BY <2>1, <2>2
<1> QED BY <1>6, <1>7, <1>10 DEF LimitInv

LEMMA LimitStep == IInv /\ IInv' /\ LimitInv /\ [Next]_vars => LimitInv'
<1> SUFFICES ASSUME IInv, IInv', LimitInv, [Next]_vars PROVE LimitInv'
  OBVIOUS
<1>1. CASE UNCHANGED <<reservation, ledger>>
  BY <1>1, NoMoreCommitted DEF LimitInv, NeverReserved, Committed, Entries
<1>2. ASSUME NEW l \in Launches, Admit(l) PROVE LimitInv'
  BY <1>2, LimitAdmit
<1>3. ASSUME NEW t \in 0..now, ReconcileProject(t) PROVE LimitInv'
  <2>1. TypeOK /\ t \in Times /\ t <= now /\ reservation' = Reconciled(t) /\ ledger' = ledger
    BY <1>3 DEF IInv, TypeOK, Times, ReconcileProject
  <2>2. ASSUME NEW l \in Launches
        PROVE  /\ NeverReserved(l)'
               /\ Committed(l)' => /\ Committed(l)
                                   /\ reservation[l].created = reservation'[l].created
                                   /\ reservation[l].admitted = reservation'[l].admitted
    <3>1. NeverReserved(l) /\ Entries(l)' = Entries(l)
      BY <2>1 DEF LimitInv, Entries
    <3> QED BY <2>1, <3>1, ReconciledCommits DEF NeverReserved, Committed
  <2> QED BY <2>2, NoMoreCommitted
<1>4. ASSUME NEW l \in Launches \cup Outside, NEW r \in Reports,
             NEW amount \in Amounts \cup {Unknown}, NEW at,
             RecordUsage(l, r, [amount |-> amount, at |-> at])
      PROVE  LimitInv'
  <2> DEFINE entry == [amount |-> amount, at |-> at]
  <2>1. /\ ledger \in [Launches \cup Outside -> [Reports -> Entry \cup {NoEntry}]]
        /\ ledger' = [ledger EXCEPT ![l][r] = entry] /\ reservation' = reservation
    BY <1>4 DEF IInv, TypeOK, RecordUsage
  <2>2. entry.amount = amount /\ amount \in Amounts \cup {Unknown}
    OBVIOUS
  <2>3. entry # NoEntry
    BY <2>2, LimitsAssumption DEF NoEntry, Unknown
  <2> HIDE DEF entry
  <2>4. ASSUME NEW k \in Launches, Entries(k)' = {} PROVE Entries(k) = {}
    BY <2>1, <2>3, <2>4 DEF Entries
  <2>5. ASSUME NEW k \in Launches, Committed(k)' PROVE Committed(k)
    BY <2>1, <2>4, <2>5 DEF Committed
  <2> QED BY <2>1, <2>5, NoMoreCommitted DEF LimitInv, NeverReserved
<1>5. CASE PolicyStep
  BY <1>1, <1>5 DEF PolicyStep, ReadPolicy, ApprovePolicy, PutPolicy
<1>6. CASE AdmissionStep
  <2>1. ASSUME NEW l \in Launches, Arrive(l) \/ Refuse(l) \/ AdmitUnbudgeted(l) PROVE LimitInv'
    BY <1>1, <2>1 DEF Arrive, Refuse, AdmitUnbudgeted
  <2> QED BY <1>2, <1>3, <1>6, <2>1 DEF AdmissionStep
<1>7. CASE LaunchStep
  BY <1>1, <1>7 DEF LaunchStep, StartLaunch, LinkSession, Prolong, Expire, EndLaunch
<1>8. CASE UsageStep
  BY <1>4, <1>8 DEF UsageStep
<1>9. CASE Tick \/ UNCHANGED vars
  BY <1>1, <1>9 DEF Tick, vars
<1> QED BY <1>5, <1>6, <1>7, <1>8, <1>9 DEF Next

\* However admissions, settlements, usage and policy changes interleave, what an
\* effective policy has admitted by the bill of a period, and is not yet billed
\* by its usage, fits the limit with the others (decide_admission).
THEOREM LimitIsHonoured == Spec => []AdmittedWithinLimit
<1>1. LimitInv => AdmittedWithinLimit
  <2> SUFFICES ASSUME LimitInv, NEW t \in Times
               PROVE  Reserved * Cardinality(CommittedIn(PeriodStart(t))) <= Limit
    BY DEF AdmittedWithinLimit
  <2>1. PeriodStart(t) \in Nat
    BY PeriodStartIsTime DEF Times
  <2> QED BY <2>1 DEF LimitInv
<1> QED BY Invariance, LimitInit, LimitStep, <1>1, PTL DEF Spec
=============================================================================
