-------------------------- MODULE BudgetGateProofs ---------------------------
(***************************************************************************)
(* The budget is overspent by at most one response per thread, reset at    *)
(* most once per window, and the global counter stays close to the sum of  *)
(* the tenants': for any number of threads and tenants, any limits, any    *)
(* interleaving of checks, responses and resets.                           *)
(***************************************************************************)
EXTENDS BudgetGate, FiniteSetTheorems, TLAPS

(* Threads whose response may still be added to the global counter, and to *)
(* a tenant's.                                                             *)
Admitted == {i \in Thread : pc[i] \in {"check_tenant", "calling"}}

AdmittedFor(t) ==
    {i \in Thread : pc[i] \in {"calling", "record_tenant"} /\ tenant[i] = t}

(* What is used and what may still come fits the limit and one response    *)
(* per thread.                                                             *)
GlobalRoom ==
    Admitted # {} \/ global_used > 0 =>
        global_used + MaxTokens * Cardinality(Admitted)
            < GlobalLimit + MaxTokens * Cardinality(Thread)

TenantRoom(t) ==
    UsedBy(t) + MaxTokens * Cardinality(AdmittedFor(t))
        <= PerTenantLimit + MaxTokens * Cardinality(Thread)

ResetInv ==
    /\ zeroed_at <= now
    /\ holder = Nobody => zeroed_at <= window_start

BudgetInv ==
    /\ TypeOK
    /\ GlobalRoom
    /\ \A t \in Tenant : TenantRoom(t)
    /\ ResetInv

------------------------------------------------------------------------------
(* Arithmetic of sets of threads *)

LEMMA ThreadCard ==
    ASSUME NEW S \in SUBSET Thread
    PROVE  /\ Cardinality(S) \in Nat /\ Cardinality(Thread) \in Nat
           /\ Cardinality(S) <= Cardinality(Thread)
           /\ MaxTokens * Cardinality(S) \in Nat
           /\ MaxTokens * Cardinality(Thread) \in Nat
           /\ MaxTokens * Cardinality(S) <= MaxTokens * Cardinality(Thread)
<1>1. IsFiniteSet(Thread) /\ MaxTokens \in Nat
  BY BudgetAssumption
<1>2. IsFiniteSet(S)
  BY <1>1, FS_Subset
<1>3. /\ Cardinality(S) \in Nat /\ Cardinality(Thread) \in Nat
      /\ Cardinality(S) <= Cardinality(Thread)
  BY <1>1, <1>2, FS_CardinalityType, FS_Subset
<1>4. \A m, a, b \in Nat : m * a \in Nat /\ (a <= b => m * a <= m * b)
  BY SMT
<1>5. QED
  BY <1>1, <1>3, <1>4

(* One thread less in the set makes room for one response. *)
LEMMA RemoveThread ==
    ASSUME NEW S \in SUBSET Thread, NEW i \in S
    PROVE  MaxTokens * Cardinality(S \ {i}) + MaxTokens = MaxTokens * Cardinality(S)
<1>1. IsFiniteSet(S) /\ MaxTokens \in Nat
  BY BudgetAssumption, FS_Subset
<1>2. Cardinality(S \ {i}) = Cardinality(S) - 1 /\ Cardinality(S) \in Nat
  BY <1>1, FS_RemoveElement, FS_CardinalityType
<1>3. \A m, a \in Nat : m * (a - 1) + m = m * a
  BY SMT
<1>4. QED
  BY <1>1, <1>2, <1>3

LEMMA ShrinkThreads ==
    ASSUME NEW S \in SUBSET Thread, NEW R \in SUBSET S
    PROVE  MaxTokens * Cardinality(R) <= MaxTokens * Cardinality(S)
<1>1. IsFiniteSet(S) /\ MaxTokens \in Nat
  BY BudgetAssumption, FS_Subset
<1>2. /\ Cardinality(R) \in Nat /\ Cardinality(S) \in Nat
      /\ Cardinality(R) <= Cardinality(S)
  BY <1>1, FS_Subset, FS_CardinalityType
<1>3. \A m, a, b \in Nat : a <= b => m * a <= m * b
  BY SMT
<1>4. QED
  BY <1>1, <1>2, <1>3

------------------------------------------------------------------------------

LEMMA InitBudget == Init => BudgetInv
<1> SUFFICES ASSUME Init PROVE BudgetInv
  OBVIOUS
<1>1. TypeOK
  BY BudgetAssumption DEF Init, TypeOK, Phase
<1>2. GlobalRoom
  BY DEF Init, GlobalRoom, Admitted
<1>3. ASSUME NEW t \in Tenant PROVE TenantRoom(t)
  <2>1. AdmittedFor(t) = {} /\ UsedBy(t) = 0
    BY DEF Init, AdmittedFor, UsedBy
  <2>2. Cardinality({}) = 0
    BY FS_EmptySet
  <2>3. {} \in SUBSET Thread
    OBVIOUS
  <2>4. MaxTokens * Cardinality({}) = 0 /\ MaxTokens * Cardinality(Thread) \in Nat
    BY <2>2, <2>3, ThreadCard, BudgetAssumption
  <2>5. QED
    BY <2>1, <2>4, BudgetAssumption DEF TenantRoom
<1>4. ResetInv
  BY BudgetAssumption DEF Init, ResetInv
<1>5. QED
  BY <1>1, <1>2, <1>3, <1>4 DEF BudgetInv

LEMMA UsedByType == ASSUME TypeOK, NEW t \in Tenant PROVE UsedBy(t) \in Nat
  BY DEF TypeOK, UsedBy

(* Room is kept by every step that admits nobody and adds nothing. *)
LEMMA GlobalRoomKept ==
    ASSUME TypeOK, GlobalRoom, Admitted' \subseteq Admitted,
           global_used' \in {0, global_used}
    PROVE  GlobalRoom'
<1>1. Admitted \in SUBSET Thread /\ Admitted' \in SUBSET Admitted
  BY DEF Admitted
<1>2. /\ MaxTokens * Cardinality(Admitted') <= MaxTokens * Cardinality(Admitted)
      /\ MaxTokens * Cardinality(Admitted) \in Nat
      /\ MaxTokens * Cardinality(Thread) \in Nat
  BY <1>1, ShrinkThreads, ThreadCard
<1>3. MaxTokens * Cardinality(Admitted') \in Nat
  BY <1>1, ThreadCard
<1>4. QED
  BY <1>2, <1>3, BudgetAssumption DEF GlobalRoom, TypeOK

LEMMA TenantRoomKept ==
    ASSUME TypeOK, TypeOK', NEW t \in Tenant, TenantRoom(t),
           AdmittedFor(t)' \subseteq AdmittedFor(t),
           UsedBy(t)' \in {0, UsedBy(t)}
    PROVE  TenantRoom(t)'
<1>1. AdmittedFor(t) \in SUBSET Thread /\ AdmittedFor(t)' \in SUBSET AdmittedFor(t)
  BY DEF AdmittedFor
<1>2. /\ MaxTokens * Cardinality(AdmittedFor(t)')
            <= MaxTokens * Cardinality(AdmittedFor(t))
      /\ MaxTokens * Cardinality(AdmittedFor(t)) \in Nat
      /\ MaxTokens * Cardinality(Thread) \in Nat
  BY <1>1, ShrinkThreads, ThreadCard
<1>3. MaxTokens * Cardinality(AdmittedFor(t)') \in Nat
  BY <1>1, ThreadCard
<1>4. QED
  BY <1>2, <1>3, UsedByType, BudgetAssumption DEF TenantRoom

(* The steps before the checks, a check that refuses, and a failed call.   *)
LEMMA NothingAdmitted ==
    ASSUME BudgetInv, TypeOK', ResetInv',
           Admitted' \subseteq Admitted,
           \A t \in Tenant : AdmittedFor(t)' \subseteq AdmittedFor(t),
           global_used' \in {0, global_used},
           \A t \in Tenant : UsedBy(t)' \in {0, UsedBy(t)}
    PROVE  BudgetInv'
  BY GlobalRoomKept, TenantRoomKept DEF BudgetInv

LEMMA HasCapacityType ==
    ASSUME TypeOK, NEW i \in Thread, HasCapacity(i)
    PROVE  TypeOK'
<1> USE BudgetAssumption DEF TypeOK, Goto, Phase
<1>1. CASE Ask(i)
  BY <1>1 DEF Ask
<1>2. CASE WindowStillOpen(i)
  BY <1>2 DEF WindowStillOpen
<1>3. CASE ResetGlobal(i)
  BY <1>3 DEF ResetGlobal, Tenants
<1>4. CASE ResetTenant(i)
  BY <1>4 DEF ResetTenant, Tenants
<1>5. CASE StartWindow(i)
  BY <1>5 DEF StartWindow, NewWindowStart
<1>6. CASE CheckGlobal(i)
  BY <1>6 DEF CheckGlobal
<1>7. CASE CheckTenant(i)
  BY <1>7 DEF CheckTenant
<1>8. QED
  BY <1>1, <1>2, <1>3, <1>4, <1>5, <1>6, <1>7 DEF HasCapacity

LEMMA RecordUsageType ==
    ASSUME TypeOK, NEW i \in Thread, RecordUsage(i)
    PROVE  TypeOK'
<1> USE BudgetAssumption DEF TypeOK, Goto, Phase
<1>1. CASE RecordGlobal(i)
  BY <1>1 DEF RecordGlobal
<1>2. CASE RecordTenant(i)
  <2>1. UsedBy(tenant[i]) + tokens[i] \in Nat
    BY UsedByType
  <2>2. QED
    BY <1>2, <2>1 DEF RecordTenant
<1>3. QED
  BY <1>1, <1>2 DEF RecordUsage

LEMMA NextBudgetType == TypeOK /\ [Next]_vars => TypeOK'
<1>1. ASSUME TypeOK, NEW i \in Thread, CallFails(i) PROVE TypeOK'
  BY <1>1 DEF CallFails, TypeOK, Goto, Phase
<1>2. ASSUME TypeOK, Tick PROVE TypeOK'
  BY <1>2, BudgetAssumption DEF Tick, TypeOK
<1>3. ASSUME TypeOK, UNCHANGED vars PROVE TypeOK'
  BY <1>3 DEF TypeOK, vars
<1>4. QED
  BY <1>1, <1>2, <1>3, HasCapacityType, RecordUsageType DEF Next

(* Passing the global check needs room, and gives the thread one of the    *)
(* Cardinality(Thread) places.                                             *)
LEMMA CheckGlobalKeepsRoom ==
    ASSUME BudgetInv, NEW i \in Thread, CheckGlobal(i)
    PROVE  GlobalRoom'
<1> USE DEF BudgetInv, TypeOK
<1>1. CASE GlobalHasRoom
  <2>1. Admitted' \in SUBSET Thread /\ global_used' = global_used
    BY DEF Admitted, CheckGlobal
  <2>2. /\ MaxTokens * Cardinality(Admitted') <= MaxTokens * Cardinality(Thread)
        /\ MaxTokens * Cardinality(Admitted') \in Nat
        /\ MaxTokens * Cardinality(Thread) \in Nat
    BY <2>1, ThreadCard
  <2>3. QED
    BY <1>1, <2>1, <2>2, BudgetAssumption DEF GlobalHasRoom, GlobalRoom
<1>2. CASE ~GlobalHasRoom
  BY <1>2, GlobalRoomKept DEF CheckGlobal, Goto, Admitted
<1>3. QED
  BY <1>1, <1>2

LEMMA CheckTenantKeepsRoom ==
    ASSUME BudgetInv, TypeOK', NEW i \in Thread, CheckTenant(i), NEW t \in Tenant
    PROVE  TenantRoom(t)'
<1> USE DEF BudgetInv, TypeOK
<1>1. UsedBy(t)' = UsedBy(t)
  BY DEF CheckTenant, UsedBy
<1>2. CASE TenantHasRoom(i) /\ tenant[i] = t
  <2>1. UsedBy(t) <= PerTenantLimit
    BY <1>2, BudgetAssumption DEF TenantHasRoom, UsedBy
  <2>2. AdmittedFor(t)' \in SUBSET Thread
    BY DEF AdmittedFor
  <2>3. /\ MaxTokens * Cardinality(AdmittedFor(t)') <= MaxTokens * Cardinality(Thread)
        /\ MaxTokens * Cardinality(AdmittedFor(t)') \in Nat
        /\ MaxTokens * Cardinality(Thread) \in Nat
    BY <2>2, ThreadCard
  <2>4. QED
    BY <1>1, <2>1, <2>3, UsedByType, BudgetAssumption DEF TenantRoom
<1>3. CASE ~(TenantHasRoom(i) /\ tenant[i] = t)
  <2>1. AdmittedFor(t)' \subseteq AdmittedFor(t)
    BY <1>3 DEF CheckTenant, Goto, AdmittedFor
  <2>2. QED
    BY <1>1, <2>1, TenantRoomKept
<1>4. QED
  BY <1>2, <1>3

LEMMA HasCapacityBudget ==
    ASSUME BudgetInv, NEW i \in Thread, HasCapacity(i)
    PROVE  BudgetInv'
<1> TypeOK /\ TypeOK'
  BY HasCapacityType DEF BudgetInv
<1> USE DEF Goto, Admitted, AdmittedFor, UsedBy
<1>1. CASE Ask(i)
  <2>1. ResetInv'
    BY <1>1 DEF BudgetInv, Ask, ResetInv
  <2>2. Admitted' \subseteq Admitted
    BY <1>1 DEF Ask, TypeOK
  <2>3. \A t \in Tenant : AdmittedFor(t)' \subseteq AdmittedFor(t)
    BY <1>1 DEF Ask, TypeOK
  <2>4. QED
    BY <1>1, <2>1, <2>2, <2>3, NothingAdmitted DEF Ask
<1>2. CASE WindowStillOpen(i)
  <2>1. ResetInv'
    BY <1>2 DEF BudgetInv, WindowStillOpen, ResetInv
  <2>2. QED
    BY <1>2, <2>1, NothingAdmitted DEF WindowStillOpen, TypeOK
<1>3. CASE ResetGlobal(i)
  <2>1. ResetInv'
    BY <1>3, BudgetAssumption DEF ResetGlobal, ResetInv, TypeOK
  <2>2. QED
    BY <1>3, <2>1, NothingAdmitted DEF ResetGlobal, TypeOK
<1>4. CASE ResetTenant(i)
  <2>1. ResetInv'
    BY <1>4 DEF BudgetInv, ResetTenant, ResetInv
  <2>2. \A t \in Tenant : UsedBy(t)' \in {0, UsedBy(t)}
    BY <1>4 DEF ResetTenant, TypeOK
  <2>3. QED
    BY <1>4, <2>1, <2>2, NothingAdmitted DEF ResetTenant
<1>5. CASE StartWindow(i)
  <2>1. ResetInv'
    BY <1>5 DEF BudgetInv, StartWindow, NewWindowStart, ResetInv
  <2>2. QED
    BY <1>5, <2>1, NothingAdmitted DEF StartWindow, TypeOK
<1>6. CASE CheckGlobal(i)
  <2>1. ResetInv'
    BY <1>6 DEF BudgetInv, CheckGlobal, ResetInv
  <2>2. ASSUME NEW t \in Tenant PROVE TenantRoom(t)'
    <3>1. AdmittedFor(t)' \subseteq AdmittedFor(t)
      BY <1>6 DEF CheckGlobal, TypeOK
    <3>2. UsedBy(t)' = UsedBy(t)
      BY <1>6 DEF CheckGlobal
    <3>3. QED
      BY <3>1, <3>2, TenantRoomKept DEF BudgetInv
  <2>3. QED
    BY <1>6, <2>1, <2>2, CheckGlobalKeepsRoom DEF BudgetInv
<1>7. CASE CheckTenant(i)
  <2>1. ResetInv'
    BY <1>7 DEF BudgetInv, CheckTenant, ResetInv
  <2>2. Admitted' \subseteq Admitted
    BY <1>7 DEF CheckTenant, TypeOK
  <2>3. GlobalRoom'
    BY <1>7, <2>2, GlobalRoomKept DEF BudgetInv, CheckTenant
  <2>4. QED
    BY <1>7, <2>1, <2>3, CheckTenantKeepsRoom DEF BudgetInv
<1>8. QED
  BY <1>1, <1>2, <1>3, <1>4, <1>5, <1>6, <1>7 DEF HasCapacity

(* A response costs at most MaxTokens and gives up its thread's place.     *)
LEMMA RecordUsageBudget ==
    ASSUME BudgetInv, NEW i \in Thread, RecordUsage(i)
    PROVE  BudgetInv'
<1> TypeOK /\ TypeOK'
  BY RecordUsageType DEF BudgetInv
<1>1. CASE RecordGlobal(i)
  <2>1. ResetInv'
    BY <1>1 DEF BudgetInv, RecordGlobal, ResetInv
  <2>2. GlobalRoom'
    <3>1. i \in Admitted /\ Admitted \in SUBSET Thread
      BY <1>1 DEF RecordGlobal, Admitted
    <3>2. Admitted' = Admitted \ {i}
      BY <1>1 DEF RecordGlobal, Goto, Admitted, TypeOK
    <3>3. PICK n \in 0 .. MaxTokens : global_used' = global_used + n
      BY <1>1 DEF RecordGlobal
    <3>4. MaxTokens * Cardinality(Admitted') + MaxTokens
            = MaxTokens * Cardinality(Admitted)
      BY <3>1, <3>2, RemoveThread
    <3>5. /\ MaxTokens * Cardinality(Admitted) \in Nat
          /\ MaxTokens * Cardinality(Admitted') \in Nat
          /\ MaxTokens * Cardinality(Thread) \in Nat
      BY <3>1, <3>2, ThreadCard
    <3>6. QED
      BY <3>1, <3>3, <3>4, <3>5, BudgetAssumption DEF BudgetInv, GlobalRoom, TypeOK
  <2>3. ASSUME NEW t \in Tenant PROVE TenantRoom(t)'
    <3>1. AdmittedFor(t)' = AdmittedFor(t)
      BY <1>1 DEF RecordGlobal, Goto, AdmittedFor, TypeOK
    <3>2. UsedBy(t)' = UsedBy(t)
      BY <1>1 DEF RecordGlobal, UsedBy
    <3>3. QED
      BY <3>1, <3>2, TenantRoomKept DEF BudgetInv
  <2>4. QED
    BY <2>1, <2>2, <2>3 DEF BudgetInv
<1>2. CASE RecordTenant(i)
  <2>1. ResetInv'
    BY <1>2 DEF BudgetInv, RecordTenant, ResetInv
  <2>2. GlobalRoom'
    <3>1. Admitted' \subseteq Admitted
      BY <1>2 DEF RecordTenant, Goto, Admitted, TypeOK
    <3>2. QED
      BY <1>2, <3>1, GlobalRoomKept DEF BudgetInv, RecordTenant
  <2>3. ASSUME NEW t \in Tenant PROVE TenantRoom(t)'
    <3>1. CASE t # tenant[i]
      <4>1. AdmittedFor(t)' \subseteq AdmittedFor(t)
        BY <1>2 DEF RecordTenant, Goto, AdmittedFor, TypeOK
      <4>2. UsedBy(t)' = UsedBy(t)
        BY <1>2, <3>1 DEF RecordTenant, UsedBy, TypeOK
      <4>3. QED
        BY <4>1, <4>2, TenantRoomKept DEF BudgetInv
    <3>2. CASE t = tenant[i]
      <4>1. i \in AdmittedFor(t) /\ AdmittedFor(t) \in SUBSET Thread
        BY <1>2, <3>2 DEF RecordTenant, AdmittedFor
      <4>2. AdmittedFor(t)' = AdmittedFor(t) \ {i}
        BY <1>2 DEF RecordTenant, Goto, AdmittedFor, TypeOK
      <4>3. UsedBy(t) \in Nat /\ tokens[i] \in 0 .. MaxTokens
        BY UsedByType DEF TypeOK
      <4>4. UsedBy(t)' = UsedBy(t) + tokens[i]
        <5>1. tenant_used'[t] = UsedBy(t) + tokens[i]
          BY <1>2, <3>2 DEF RecordTenant, TypeOK
        <5>2. QED
          BY <4>3, <5>1 DEF UsedBy, Absent
      <4>5. MaxTokens * Cardinality(AdmittedFor(t)') + MaxTokens
              = MaxTokens * Cardinality(AdmittedFor(t))
        BY <4>1, <4>2, RemoveThread
      <4>6. /\ MaxTokens * Cardinality(AdmittedFor(t)) \in Nat
            /\ MaxTokens * Cardinality(AdmittedFor(t)') \in Nat
            /\ MaxTokens * Cardinality(Thread) \in Nat
        BY <4>1, <4>2, ThreadCard
      <4>7. QED
        BY <4>3, <4>4, <4>5, <4>6, BudgetAssumption DEF BudgetInv, TenantRoom
    <3>3. QED
      BY <3>1, <3>2
  <2>4. QED
    BY <2>1, <2>2, <2>3 DEF BudgetInv
<1>3. QED
  BY <1>1, <1>2 DEF RecordUsage

LEMMA NextBudget == BudgetInv /\ [Next]_vars => BudgetInv'
<1> SUFFICES ASSUME BudgetInv, [Next]_vars PROVE BudgetInv'
  OBVIOUS
<1> TypeOK /\ TypeOK'
  BY NextBudgetType DEF BudgetInv
<1>1. ASSUME NEW i \in Thread, CallFails(i) PROVE BudgetInv'
  <2>1. ResetInv'
    BY <1>1 DEF BudgetInv, CallFails, ResetInv
  <2>2. QED
    BY <1>1, <2>1, NothingAdmitted
    DEF CallFails, Goto, Admitted, AdmittedFor, UsedBy, TypeOK
<1>2. CASE Tick
  <2>1. ResetInv'
    BY <1>2 DEF BudgetInv, Tick, ResetInv, TypeOK
  <2>2. QED
    BY <1>2, <2>1, NothingAdmitted DEF Tick, Admitted, AdmittedFor, UsedBy
<1>3. CASE UNCHANGED vars
  <2>1. ResetInv'
    BY <1>3 DEF BudgetInv, vars, ResetInv
  <2>2. QED
    BY <1>3, <2>1, NothingAdmitted DEF vars, Admitted, AdmittedFor, UsedBy
<1>4. QED
  BY <1>1, <1>2, <1>3, HasCapacityBudget, RecordUsageBudget DEF Next

THEOREM BudgetInvHolds == Spec => []BudgetInv
  BY InitBudget, NextBudget, PTL DEF Spec

(* The counters stay naturals and the window starts within the clock, for  *)
(* any threads and limits (budget.rs:19-26).                               *)
THEOREM TypeCorrect == Spec => []TypeOK
<1>1. BudgetInv => TypeOK
  BY DEF BudgetInv
<1>2. QED
  BY <1>1, BudgetInvHolds, PTL

(* One window is overspent by at most one response per thread, in total    *)
(* and for each tenant.                                                    *)
THEOREM OvershootHolds == Spec => [](OvershootBounded /\ TenantOvershootBounded)
<1>1. ASSUME BudgetInv PROVE OvershootBounded
  <2>1. Admitted \in SUBSET Thread
    BY DEF Admitted
  <2>2. /\ MaxTokens * Cardinality(Admitted) \in Nat
        /\ MaxTokens * Cardinality(Thread) \in Nat
    BY <2>1, ThreadCard
  <2>3. QED
    BY <1>1, <2>2, BudgetAssumption DEF BudgetInv, GlobalRoom, OvershootBounded, TypeOK
<1>2. ASSUME BudgetInv PROVE TenantOvershootBounded
  <2>1. ASSUME NEW t \in Tenant
        PROVE  tenant_used[t] <= PerTenantLimit + MaxTokens * Cardinality(Thread)
    <3>1. AdmittedFor(t) \in SUBSET Thread
      BY DEF AdmittedFor
    <3>2. /\ MaxTokens * Cardinality(AdmittedFor(t)) \in Nat
          /\ MaxTokens * Cardinality(Thread) \in Nat
      BY <3>1, ThreadCard
    <3>3. QED
      BY <1>2, <3>2, BudgetAssumption DEF BudgetInv, TenantRoom, UsedBy, Absent, TypeOK
  <2>2. QED
    BY <2>1 DEF TenantOvershootBounded
<1>3. QED
  BY <1>1, <1>2, BudgetInvHolds, PTL

(* The counters are zeroed at most once in WindowSecs, however many        *)
(* threads find the window over at the same time.                          *)
THEOREM OneResetHolds == Spec => OneResetPerWindow
<1>1. BudgetInv /\ [Next]_vars
        => [\A i \in Thread : ResetGlobal(i) => now >= zeroed_at + WindowSecs]_vars
  <2> SUFFICES ASSUME BudgetInv, NEW i \in Thread, ResetGlobal(i)
               PROVE  now >= zeroed_at + WindowSecs
    OBVIOUS
  <2>1. holder = Nobody /\ now - window_start >= WindowSecs
    BY DEF ResetGlobal, MutexIsFree, WindowIsOver
  <2>2. QED
    BY <2>1, BudgetAssumption DEF BudgetInv, ResetInv, TypeOK
<1>2. QED
  BY <1>1, BudgetInvHolds, PTL DEF Spec, OneResetPerWindow

------------------------------------------------------------------------------
(* Sums.  The theorems on induction take an operator, this one a set: what *)
(* holds of a set when it holds of its proper subsets, holds of every      *)
(* finite set.                                                             *)

LEMMA SubsetInduction ==
    ASSUME NEW S, IsFiniteSet(S), NEW G,
           \A T \in SUBSET S : (\A V \in SUBSET T : V # T => V \in G) => T \in G
    PROVE  S \in G
<1> DEFINE B == {T \in SUBSET S : T \notin G}
<1>1. SUFFICES ASSUME B # {} PROVE FALSE
  BY <1>1
<1>2. IsWellFoundedOn(StrictSubsetOrdering(S), SUBSET S)
  BY FS_FiniteSubsetsOfFinite, FS_StrictSubsetOrderingWellFounded
<1>3. PICK U \in B : \A V \in B : <<V, U>> \notin StrictSubsetOrdering(S)
  <2>1. B \subseteq SUBSET S
    OBVIOUS
  <2> HIDE DEF B
  <2>2. QED
    BY <1>1, <1>2, <2>1, WFMin
<1>4. QED
  BY <1>3 DEF StrictSubsetOrdering

Pick(s) == CHOOSE x \in s : TRUE

LEMMA PickIn == ASSUME NEW s, s # {} PROVE Pick(s) \in s
  BY DEF Pick

LEMMA PickInduction ==
    ASSUME NEW S, IsFiniteSet(S), NEW G, {} \in G,
           \A T \in SUBSET S : T # {} /\ T \ {Pick(T)} \in G => T \in G
    PROVE  S \in G
<1>1. ASSUME NEW T \in SUBSET S, \A V \in SUBSET T : V # T => V \in G
      PROVE  T \in G
  BY <1>1, PickIn
<1>2. QED
  BY <1>1, SubsetInduction

(* The equation by which SumFunctionOnSet is defined. *)
SumAt(g, f, s) == IF s = {} THEN 0 ELSE f[Pick(s)] + g[s \ {Pick(s)}]

SumTable(g, f, S) == g = [s \in SUBSET S |-> SumAt(g, f, s)]

LEMMA SumUnfolds ==
    ASSUME NEW f, NEW S
    PROVE  SumFunctionOnSet(f, S) = (CHOOSE g : SumTable(g, f, S))[S]
  BY DEF SumFunctionOnSet, FoldFunctionOnSet, MapThenFoldSet, Pick, SumTable, SumAt

LEMMA SumTableUnique ==
    ASSUME NEW f, NEW T, IsFiniteSet(T), NEW g, SumTable(g, f, T),
           NEW U \in SUBSET T, NEW h, SumTable(h, f, U)
    PROVE  \A s \in SUBSET U : g[s] = h[s]
<1> DEFINE G == {t \in SUBSET U : g[t] = h[t]}
<1>1. ASSUME NEW s \in SUBSET U PROVE s \in G
  <2>1. IsFiniteSet(s)
    BY FS_Subset
  <2>2. {} \in G
    BY DEF SumTable, SumAt
  <2>3. ASSUME NEW t \in SUBSET s, t # {}, t \ {Pick(t)} \in G PROVE t \in G
    BY <2>3 DEF SumTable, SumAt
  <2> HIDE DEF G
  <2>4. QED
    BY <2>1, <2>2, <2>3, PickInduction
<1>2. QED
  BY <1>1

LEMMA SumTableExists ==
    ASSUME NEW f, NEW S, IsFiniteSet(S)
    PROVE  \E g : SumTable(g, f, S)
<1> DEFINE table(V) == CHOOSE g : SumTable(g, f, V)
           G == {T \in SUBSET S : SumTable(table(T), f, T)}
<1>1. ASSUME NEW T \in SUBSET S, \A V \in SUBSET T : V # T => V \in G
      PROVE  T \in G
  <2> DEFINE below == [V \in SUBSET T |-> table(V)[V]]
             g == [V \in SUBSET T |-> SumAt(below, f, V)]
  <2>1. ASSUME NEW V \in SUBSET T, V # T PROVE below[V] = g[V]
    <3>1. SumTable(table(V), f, V)
      BY <1>1, <2>1
    <3>2. table(V)[V] = SumAt(table(V), f, V)
      BY <3>1 DEF SumTable
    <3>3. CASE V = {}
      BY <3>2, <3>3 DEF SumAt
    <3>4. CASE V # {}
      <4> DEFINE W == V \ {Pick(V)}
      <4>1. W \in SUBSET V /\ W \in SUBSET T /\ W # T
        BY <3>4, PickIn
      <4>2. SumTable(table(W), f, W)
        BY <1>1, <4>1
      <4>3. table(V)[W] = table(W)[W]
        <5>1. IsFiniteSet(V)
          BY FS_Subset
        <5>2. W \in SUBSET W
          OBVIOUS
        <5> HIDE DEF table, W
        <5>3. QED
          BY <3>1, <4>1, <4>2, <5>1, <5>2, SumTableUnique
      <4>4. QED
        BY <3>2, <3>4, <4>1, <4>3 DEF SumAt
    <3>5. QED
      BY <3>3, <3>4
  <2> HIDE DEF below
  <2>2. ASSUME NEW V \in SUBSET T PROVE SumAt(below, f, V) = SumAt(g, f, V)
    <3>1. CASE V = {}
      BY <3>1 DEF SumAt
    <3>2. CASE V # {}
      <4>1. V \ {Pick(V)} \in SUBSET T /\ V \ {Pick(V)} # T
        BY <3>2, PickIn
      <4>2. below[V \ {Pick(V)}] = g[V \ {Pick(V)}]
        BY <2>1, <4>1
      <4>3. QED
        BY <3>2, <4>2 DEF SumAt
    <3>3. QED
      BY <3>1, <3>2
  <2>3. SumTable(g, f, T)
    BY <2>2 DEF SumTable
  <2>4. QED
    BY <2>3
<1> HIDE DEF G
<1>2. S \in G
  BY <1>1, SubsetInduction
<1>3. QED
  BY <1>2 DEF G

LEMMA SumStep ==
    ASSUME NEW f, NEW S, IsFiniteSet(S)
    PROVE  /\ S = {} => SumFunctionOnSet(f, S) = 0
           /\ S # {} => SumFunctionOnSet(f, S)
                           = f[Pick(S)] + SumFunctionOnSet(f, S \ {Pick(S)})
<1> DEFINE table(V) == CHOOSE g : SumTable(g, f, V)
<1>1. SumTable(table(S), f, S)
  BY SumTableExists
<1>2. SumFunctionOnSet(f, S) = SumAt(table(S), f, S)
  <2>1. table(S)[S] = SumAt(table(S), f, S)
    BY <1>1 DEF SumTable
  <2>2. QED
    BY <2>1, SumUnfolds
<1>3. CASE S = {}
  BY <1>2, <1>3 DEF SumAt
<1>4. CASE S # {}
  <2> DEFINE W == S \ {Pick(S)}
  <2>1. W \in SUBSET S /\ IsFiniteSet(W)
    BY FS_Subset
  <2>2. SumTable(table(W), f, W)
    BY <2>1, SumTableExists
  <2>3. SumFunctionOnSet(f, W) = table(W)[W]
    BY SumUnfolds
  <2>4. table(S)[W] = table(W)[W]
    <3>1. W \in SUBSET W
      OBVIOUS
    <3> HIDE DEF table, W
    <3>2. QED
      BY <1>1, <2>1, <2>2, <3>1, SumTableUnique
  <2>5. QED
    BY <1>2, <1>4, <2>3, <2>4 DEF SumAt
<1>5. QED
  BY <1>3, <1>4

LEMMA SumEmpty == ASSUME NEW f PROVE SumFunctionOnSet(f, {}) = 0
  BY SumStep, FS_EmptySet

LEMMA SumType ==
    ASSUME NEW f, NEW S, IsFiniteSet(S), NEW D \in {Nat, Int}, \A x \in S : f[x] \in D
    PROVE  SumFunctionOnSet(f, S) \in D
<1> DEFINE G == {T \in SUBSET S : SumFunctionOnSet(f, T) \in D}
<1>1. {} \in G
  BY SumEmpty
<1>2. ASSUME NEW T \in SUBSET S, T # {}, T \ {Pick(T)} \in G PROVE T \in G
  <2>1. IsFiniteSet(T) /\ Pick(T) \in S
    BY <1>2, PickIn, FS_Subset
  <2>2. QED
    BY <1>2, <2>1, SumStep
<1>3. S \in G
  <2> HIDE DEF G
  <2>1. QED
    BY <1>1, <1>2, PickInduction
<1>4. QED
  BY <1>3

(* A sum does not depend on the element that is taken first. *)
LEMMA SumRemove ==
    ASSUME NEW f, NEW S, IsFiniteSet(S), \A x \in S : f[x] \in Int, NEW x \in S
    PROVE  SumFunctionOnSet(f, S) = f[x] + SumFunctionOnSet(f, S \ {x})
<1> DEFINE Ok(T) == \A y \in T :
                       SumFunctionOnSet(f, T) = f[y] + SumFunctionOnSet(f, T \ {y})
           G == {T \in SUBSET S : Ok(T)}
<1>1. ASSUME NEW T \in SUBSET S, \A V \in SUBSET T : V # T => V \in G,
             NEW y \in T
      PROVE  SumFunctionOnSet(f, T) = f[y] + SumFunctionOnSet(f, T \ {y})
  <2> DEFINE p == Pick(T)
             rest == SumFunctionOnSet(f, T \ {p, y})
  <2>1. IsFiniteSet(T) /\ p \in T
    BY PickIn, FS_Subset
  <2>2. SumFunctionOnSet(f, T) = f[p] + SumFunctionOnSet(f, T \ {p})
    BY <2>1, SumStep
  <2>3. CASE p = y
    BY <2>2, <2>3
  <2>4. CASE p # y
    <3>1. Ok(T \ {p}) /\ Ok(T \ {y})
      <4>1. T \ {p} \in SUBSET T /\ T \ {y} \in SUBSET T /\ T \ {p} # T /\ T \ {y} # T
        BY <2>1
      <4> HIDE DEF p, Ok
      <4>2. QED
        BY <1>1, <4>1
    <3>2. /\ SumFunctionOnSet(f, T \ {p}) = f[y] + rest
          /\ SumFunctionOnSet(f, T \ {y}) = f[p] + rest
      <4>1. (T \ {p}) \ {y} = T \ {p, y} /\ (T \ {y}) \ {p} = T \ {p, y}
        OBVIOUS
      <4>2. y \in T \ {p} /\ p \in T \ {y}
        BY <2>1, <2>4
      <4> HIDE DEF p
      <4>3. QED
        BY <3>1, <4>1, <4>2
    <3>3. rest \in Int /\ f[p] \in Int /\ f[y] \in Int
      <4>1. IsFiniteSet(T \ {p, y}) /\ \A z \in T \ {p, y} : f[z] \in Int
        BY <2>1, FS_Subset
      <4>2. QED
        BY <2>1, <4>1, SumType
    <3> HIDE DEF p, rest
    <3>4. f[p] + (f[y] + rest) = f[y] + (f[p] + rest)
      BY <3>3
    <3>5. QED
      BY <2>2, <3>2, <3>4
  <2>5. QED
    BY <2>3, <2>4
<1>2. S \in G
  <2>1. \A T \in SUBSET S : (\A V \in SUBSET T : V # T => V \in G) => T \in G
    BY <1>1
  <2> HIDE DEF G
  <2>2. QED
    BY <2>1, SubsetInduction
<1>3. QED
  BY <1>2

LEMMA SumSame ==
    ASSUME NEW f, NEW g, NEW S, IsFiniteSet(S), \A x \in S : f[x] = g[x]
    PROVE  SumFunctionOnSet(f, S) = SumFunctionOnSet(g, S)
<1> DEFINE G == {T \in SUBSET S : SumFunctionOnSet(f, T) = SumFunctionOnSet(g, T)}
<1>1. {} \in G
  BY SumEmpty
<1>2. ASSUME NEW T \in SUBSET S, T # {}, T \ {Pick(T)} \in G PROVE T \in G
  <2>1. IsFiniteSet(T) /\ Pick(T) \in S
    BY <1>2, PickIn, FS_Subset
  <2>2. QED
    BY <1>2, <2>1, SumStep
<1>3. S \in G
  <2> HIDE DEF G
  <2>1. QED
    BY <1>1, <1>2, PickInduction
<1>4. QED
  BY <1>3

(* The sum of a function that was changed in one place. *)
LEMMA SumChanged ==
    ASSUME NEW f, NEW g, NEW S, IsFiniteSet(S), NEW x \in S,
           \A y \in S : f[y] \in Int, g[x] \in Int,
           \A y \in S \ {x} : g[y] = f[y]
    PROVE  SumFunctionOnSet(g, S) = SumFunctionOnSet(f, S) - f[x] + g[x]
<1>1. IsFiniteSet(S \ {x}) /\ \A y \in S : g[y] \in Int
  BY FS_Subset
<1>2. SumFunctionOnSet(f, S \ {x}) \in Int
  BY <1>1, SumType
<1>3. SumFunctionOnSet(g, S \ {x}) = SumFunctionOnSet(f, S \ {x})
  BY <1>1, SumSame
<1>4. SumFunctionOnSet(f, S) = f[x] + SumFunctionOnSet(f, S \ {x})
  BY SumRemove
<1>5. SumFunctionOnSet(g, S) = g[x] + SumFunctionOnSet(g, S \ {x})
  BY <1>1, SumRemove
<1>6. f[x] \in Int
  OBVIOUS
<1>7. QED
  BY <1>2, <1>3, <1>4, <1>5, <1>6

LEMMA SumBounds ==
    ASSUME NEW f, NEW S, IsFiniteSet(S), NEW m \in Nat, \A x \in S : f[x] \in 0 .. m
    PROVE  /\ SumFunctionOnSet(f, S) \in Nat
           /\ SumFunctionOnSet(f, S) <= m * Cardinality(S)
<1> DEFINE Ok(T) == /\ SumFunctionOnSet(f, T) \in Nat
                    /\ SumFunctionOnSet(f, T) <= m * Cardinality(T)
           G == {T \in SUBSET S : Ok(T)}
<1>1. {} \in G
  <2>1. SumFunctionOnSet(f, {}) = 0 /\ Cardinality({}) = 0
    BY SumEmpty, FS_EmptySet
  <2>2. QED
    BY <2>1
<1>2. ASSUME NEW T \in SUBSET S, T # {}, T \ {Pick(T)} \in G PROVE T \in G
  <2> DEFINE p == Pick(T)
             R == T \ {p}
  <2>1. IsFiniteSet(T) /\ p \in T /\ f[p] \in 0 .. m
    BY <1>2, PickIn, FS_Subset
  <2>2. SumFunctionOnSet(f, T) = f[p] + SumFunctionOnSet(f, R)
    BY <1>2, <2>1, SumStep
  <2>3. Cardinality(R) \in Nat /\ Cardinality(T) = Cardinality(R) + 1
    <3>1. IsFiniteSet(R) /\ Cardinality(R) = Cardinality(T) - 1
      BY <2>1, FS_RemoveElement
    <3>2. Cardinality(R) \in Nat /\ Cardinality(T) \in Nat
      BY <2>1, <3>1, FS_CardinalityType
    <3>3. QED
      BY <3>1, <3>2
  <2>4. m * Cardinality(T) = m * Cardinality(R) + m /\ m * Cardinality(R) \in Nat
    BY <2>3
  <2>5. Ok(R)
    BY <1>2
  <2>6. Ok(T)
    <3> HIDE DEF p, R
    <3>1. QED
      BY <2>1, <2>2, <2>4, <2>5
  <2>7. QED
    BY <2>6
<1>3. S \in G
  <2> HIDE DEF G
  <2>1. QED
    BY <1>1, <1>2, PickInduction
<1>4. QED
  BY <1>3

------------------------------------------------------------------------------
(* Drift *)

(* What an under-way reset leaves: the tenants it has listed and not yet    *)
(* visited are as good as empty.  A thread that has answered, or that      *)
(* waits for the mutex, adds no other response to the global counter       *)
(* before the reset is over.                                               *)
Counted == Tenant \ (listed \ visited)

CountedDrift ==
    global_used - SumFunctionOnSet(Used, Counted) - SumFunction(tokens)

Stalled == {i \in Thread : pc[i] \in {"idle", "lock", "record_tenant"}}

DriftInv ==
    /\ \A i \in Thread : pc[i] # "record_tenant" => tokens[i] = 0
    /\ \A i \in Thread : pc[i] = "reset" <=> holder = i
    /\ holder = Nobody => listed = {}
    /\ holder # Nobody => global_used <= MaxTokens * Cardinality(Stalled)
    /\ CountedDrift >= -(MaxTokens * Others)
    /\ holder = Nobody => CountedDrift <= MaxTokens * Others

(* The counters are naturals, and a thread that has nothing to record       *)
(* leaves room in what the others have.                                    *)
DriftTyped ==
    /\ global_used \in Nat
    /\ Used \in [Tenant -> Nat]
    /\ IsFiniteSet(Counted) /\ Counted \subseteq Tenant
    /\ SumFunctionOnSet(Used, Counted) \in Nat
    /\ SumFunction(tokens) = SumFunctionOnSet(tokens, Thread)
    /\ SumFunction(tokens) \in Nat
    /\ MaxTokens * Others \in Nat

LEMMA DriftTypes == TypeOK => DriftTyped
<1> SUFFICES ASSUME TypeOK PROVE DriftTyped
  OBVIOUS
<1>1. Used \in [Tenant -> Nat]
  BY UsedByType DEF Used
<1>2. IsFiniteSet(Counted) /\ Counted \subseteq Tenant
  BY BudgetAssumption, FS_Subset DEF Counted
<1>3. SumFunctionOnSet(Used, Counted) \in Nat
  BY <1>1, <1>2, SumType
<1>4. SumFunction(tokens) = SumFunctionOnSet(tokens, Thread)
  BY DEF SumFunction, TypeOK
<1>5. SumFunctionOnSet(tokens, Thread) \in Nat
  <2>1. \A i \in Thread : tokens[i] \in Nat
    BY BudgetAssumption DEF TypeOK
  <2>2. QED
    BY <2>1, BudgetAssumption, SumType
<1>6. MaxTokens * Others \in Nat
  <2>1. Cardinality(Thread) \in Nat /\ Cardinality(Thread) # 0
    BY BudgetAssumption, FS_CardinalityType, FS_EmptySet
  <2>2. Others \in Nat
    BY <2>1 DEF Others
  <2>3. QED
    BY <2>2, BudgetAssumption
<1>7. QED
  BY <1>1, <1>2, <1>3, <1>4, <1>5, <1>6 DEF TypeOK, DriftTyped

LEMMA DriftTypesNext == TypeOK' => DriftTyped'
  BY DriftTypes, PTL

LEMMA OthersCard ==
    ASSUME NEW h \in Thread
    PROVE  /\ IsFiniteSet(Thread \ {h})
           /\ MaxTokens * Cardinality(Thread \ {h}) = MaxTokens * Others
<1>1. IsFiniteSet(Thread \ {h}) /\ Cardinality(Thread \ {h}) = Others
  BY BudgetAssumption, FS_RemoveElement DEF Others
<1>2. QED
  BY <1>1

LEMMA TokensOfOthers ==
    ASSUME TypeOK, NEW h \in Thread, tokens[h] = 0
    PROVE  SumFunction(tokens) <= MaxTokens * Others
<1> USE DriftTypes, DriftTypesNext DEF DriftTyped
<1>1. \A i \in Thread : tokens[i] \in 0 .. MaxTokens /\ tokens[i] \in Int
  BY BudgetAssumption DEF TypeOK
<1>2. SumFunctionOnSet(tokens, Thread)
         = tokens[h] + SumFunctionOnSet(tokens, Thread \ {h})
  BY <1>1, BudgetAssumption, SumRemove
<1>3. /\ SumFunctionOnSet(tokens, Thread \ {h}) \in Nat
      /\ SumFunctionOnSet(tokens, Thread \ {h}) <= MaxTokens * Others
  BY <1>1, BudgetAssumption, OthersCard, SumBounds
<1>4. QED
  BY <1>2, <1>3, DriftTypes

LEMMA InitDrift == Init => DriftInv
<1> USE DriftTypes, DriftTypesNext DEF DriftTyped
<1> SUFFICES ASSUME Init PROVE DriftInv
  OBVIOUS
<1>1. TypeOK
  BY InitBudget DEF BudgetInv
<1>2. SumFunction(tokens) = 0
  <2>1. \A i \in Thread : tokens[i] \in 0 .. 0
    BY DEF Init
  <2>2. /\ SumFunctionOnSet(tokens, Thread) \in Nat
        /\ SumFunctionOnSet(tokens, Thread) <= 0 * Cardinality(Thread)
    BY <2>1, BudgetAssumption, SumBounds
  <2>3. QED
    BY <1>1, <2>2, DriftTypes, BudgetAssumption, FS_CardinalityType
<1>3. SumFunctionOnSet(Used, Counted) = 0
  <2>1. \A t \in Counted : Used[t] \in 0 .. 0
    BY DEF Init, Used, UsedBy, Counted
  <2>2. /\ SumFunctionOnSet(Used, Counted) \in Nat
        /\ SumFunctionOnSet(Used, Counted) <= 0 * Cardinality(Counted)
    BY <1>1, <2>1, DriftTypes, SumBounds
  <2>3. QED
    BY <1>1, <2>2, DriftTypes, FS_CardinalityType
<1>4. CountedDrift = 0
  BY <1>2, <1>3 DEF CountedDrift, Init
<1>5. QED
  BY <1>1, <1>4, DriftTypes, BudgetAssumption DEF DriftInv, Init

(* The steps that touch neither counters nor the walk over the tenants. *)
LEMMA DriftUntouched ==
    ASSUME TypeOK, TypeOK', DriftInv,
           UNCHANGED <<global_used, tenant_used, tokens, holder, listed, visited>>,
           \A i \in Thread : (pc[i] = "reset" <=> pc'[i] = "reset"),
           \A i \in Thread : pc[i] = "record_tenant" <=> pc'[i] = "record_tenant",
           holder # Nobody => Stalled \subseteq Stalled'
    PROVE  DriftInv'
<1>1. CountedDrift' = CountedDrift /\ Others' = Others
  BY DEF CountedDrift, Counted, Used, UsedBy, Others
<1>2. CASE holder # Nobody
  <2>1. Stalled' \in SUBSET Thread /\ Stalled \in SUBSET Stalled'
    BY <1>2 DEF Stalled
  <2>2. /\ MaxTokens * Cardinality(Stalled) <= MaxTokens * Cardinality(Stalled')
        /\ MaxTokens * Cardinality(Stalled) \in Nat
        /\ MaxTokens * Cardinality(Stalled') \in Nat
    BY <2>1, ShrinkThreads, ThreadCard
  <2>3. QED
    BY <1>1, <1>2, <2>2 DEF DriftInv, TypeOK
<1>3. CASE holder = Nobody
  BY <1>1, <1>3 DEF DriftInv
<1>4. QED
  BY <1>2, <1>3

LEMMA ResetGlobalDrift ==
    ASSUME TypeOK, TypeOK', DriftInv, NEW h \in Thread, ResetGlobal(h)
    PROVE  DriftInv'
<1> USE DriftTypes, DriftTypesNext DEF DriftTyped
<1> USE DEF ResetGlobal, MutexIsFree, Goto
<1>1. SumFunctionOnSet(Used, Counted)' = 0
  <2>1. \A t \in Counted' : Used'[t] \in 0 .. 0
    BY DEF Counted, Tenants, Used, UsedBy
  <2>2. /\ SumFunctionOnSet(Used', Counted') \in Nat
        /\ SumFunctionOnSet(Used', Counted') <= 0 * Cardinality(Counted')
    BY <2>1, DriftTypes, SumBounds
  <2>3. QED
    BY <2>2, DriftTypes, FS_CardinalityType
<1>2. SumFunction(tokens) <= MaxTokens * Others
  BY TokensOfOthers DEF DriftInv
<1>3. CountedDrift' >= -(MaxTokens * Others)
  BY <1>1, <1>2, DriftTypes DEF CountedDrift
<1>4. holder' = h /\ h # Nobody
  BY BudgetAssumption
<1>5. global_used' <= MaxTokens * Cardinality(Stalled')
  BY ThreadCard DEF Stalled
<1>6. /\ \A i \in Thread : pc'[i] # "record_tenant" => tokens'[i] = 0
      /\ \A i \in Thread : pc'[i] = "reset" <=> holder' = i
  BY <1>4, BudgetAssumption DEF DriftInv, TypeOK
<1>7. QED
  BY <1>3, <1>4, <1>5, <1>6 DEF DriftInv, Others

(* A tenant that is emptied takes away at most what was counted of it. *)
LEMMA ResetTenantDrift ==
    ASSUME TypeOK, TypeOK', DriftInv, NEW h \in Thread, ResetTenant(h)
    PROVE  DriftInv'
<1> USE DriftTypes, DriftTypesNext DEF DriftTyped
<1>1. PICK t \in Tenants \ visited :
         /\ tenant_used' = [tenant_used EXCEPT ![t] = 0]
         /\ visited' = visited \cup {t}
  BY DEF ResetTenant
<1>2. t \in Tenant /\ Used'[t] = 0 /\ \A u \in Tenant \ {t} : Used'[u] = Used[u]
  BY <1>1 DEF Tenants, TypeOK, Used, UsedBy, Absent
<1>3. t \in Counted' /\ Counted' \ {t} = Counted \ {t}
  BY <1>1, <1>2 DEF Counted, ResetTenant
<1> DEFINE rest == SumFunctionOnSet(Used, Counted \ {t})
<1>4. IsFiniteSet(Counted \ {t})
  BY DriftTypes, FS_Subset
<1>5. SumFunctionOnSet(Used, Counted)' = rest
  <2>1. \A u \in Counted' : Used'[u] \in Int
    BY DriftTypes
  <2>2. SumFunctionOnSet(Used', Counted')
           = Used'[t] + SumFunctionOnSet(Used', Counted' \ {t})
    BY <1>3, <2>1, DriftTypes, SumRemove
  <2>3. SumFunctionOnSet(Used', Counted \ {t}) = rest
    BY <1>2, <1>4, DriftTypes, SumSame
  <2>4. rest \in Nat
    BY <1>4, DriftTypes, SumType
  <2> HIDE DEF rest
  <2>5. SumFunctionOnSet(Used', Counted') = 0 + rest
    BY <1>2, <1>3, <2>2, <2>3
  <2>6. QED
    BY <2>4, <2>5
<1>6. rest <= SumFunctionOnSet(Used, Counted)
  <2>1. CASE t \in Counted
    <3>1. \A u \in Counted : Used[u] \in Int
      BY DriftTypes
    <3>2. SumFunctionOnSet(Used, Counted) = Used[t] + rest
      BY <2>1, <3>1, DriftTypes, SumRemove
    <3>3. rest \in Nat /\ Used[t] \in Nat
      BY <1>2, <1>4, DriftTypes, SumType
    <3> HIDE DEF rest
    <3>4. QED
      BY <3>2, <3>3
  <2>2. CASE t \notin Counted
    <3>1. Counted \ {t} = Counted
      BY <2>2
    <3>2. QED
      BY <3>1, DriftTypes
  <2>3. QED
    BY <2>1, <2>2
<1> HIDE DEF rest
<1>7. CountedDrift' >= CountedDrift
  BY <1>5, <1>6, DriftTypes DEF CountedDrift, ResetTenant
<1>8. holder' = h /\ holder = h /\ h # Nobody
  BY BudgetAssumption DEF ResetTenant, DriftInv
<1>9. Stalled' = Stalled /\ Others' = Others
  BY DEF Stalled, ResetTenant, Others
<1>10. CountedDrift' >= -(MaxTokens * Others)
  BY <1>5, <1>7, DriftTypes DEF DriftInv, CountedDrift
<1>11. QED
  BY <1>8, <1>9, <1>10 DEF DriftInv, ResetTenant

(* The walk is over when every tenant is counted. *)
LEMMA StartWindowDrift ==
    ASSUME TypeOK, TypeOK', DriftInv, NEW h \in Thread, StartWindow(h)
    PROVE  DriftInv'
<1> USE DriftTypes, DriftTypesNext DEF DriftTyped
<1>1. holder = h /\ h # Nobody /\ holder' = Nobody /\ listed' = {}
  BY BudgetAssumption DEF StartWindow, DriftInv
<1>2. Counted = Tenant /\ Counted' = Tenant
  BY DEF StartWindow, WalkIsOver, Counted
<1>3. CountedDrift' = CountedDrift /\ Others' = Others
  BY <1>2 DEF CountedDrift, StartWindow, Used, UsedBy, Others
<1>4. CountedDrift <= MaxTokens * Others
  <2>1. Stalled \in SUBSET (Thread \ {h})
    BY DEF Stalled, StartWindow
  <2>2. MaxTokens * Cardinality(Stalled) <= MaxTokens * Others
    <3>1. Thread \ {h} \in SUBSET Thread
      OBVIOUS
    <3>2. MaxTokens * Cardinality(Stalled) <= MaxTokens * Cardinality(Thread \ {h})
      BY <2>1, <3>1, ShrinkThreads
    <3>3. QED
      BY <3>2, OthersCard
  <2>3. global_used <= MaxTokens * Cardinality(Stalled)
    BY <1>1 DEF DriftInv
  <2>4. MaxTokens * Cardinality(Stalled) \in Nat
    BY <2>1, ThreadCard
  <2>5. QED
    BY <2>2, <2>3, <2>4 DEF CountedDrift
<1>5. /\ \A i \in Thread : pc'[i] # "record_tenant" => tokens'[i] = 0
      /\ \A i \in Thread : pc'[i] = "reset" <=> holder' = i
  BY <1>1, BudgetAssumption DEF DriftInv, TypeOK, StartWindow, Goto
<1>6. QED
  BY <1>1, <1>3, <1>4, <1>5 DEF DriftInv

(* What is added to the global counter is what the thread has yet to       *)
(* record for its tenant.                                                  *)
LEMMA RecordGlobalDrift ==
    ASSUME TypeOK, TypeOK', DriftInv, NEW i \in Thread, RecordGlobal(i)
    PROVE  DriftInv'
<1> USE DriftTypes, DriftTypesNext DEF DriftTyped
<1>1. PICK n \in 0 .. MaxTokens :
         /\ global_used' = global_used + n
         /\ tokens' = [tokens EXCEPT ![i] = n]
  BY DEF RecordGlobal
<1>2. n \in Nat /\ tokens[i] = 0 /\ tokens'[i] = n /\ n <= MaxTokens
  BY <1>1, BudgetAssumption DEF DriftInv, RecordGlobal, TypeOK
<1>3. SumFunction(tokens)' = SumFunction(tokens) + n
  <2>1. \A j \in Thread : tokens[j] \in Int
    BY BudgetAssumption DEF TypeOK
  <2>2. \A j \in Thread \ {i} : tokens'[j] = tokens[j]
    BY <1>1 DEF TypeOK
  <2>3. SumFunctionOnSet(tokens', Thread)
           = SumFunctionOnSet(tokens, Thread) - tokens[i] + tokens'[i]
    BY <1>2, <2>1, <2>2, BudgetAssumption, SumChanged
  <2>4. QED
    BY <1>2, <2>3, DriftTypes
<1>4. SumFunctionOnSet(Used, Counted)' = SumFunctionOnSet(Used, Counted)
  BY DEF RecordGlobal, Used, UsedBy, Counted
<1>5. CountedDrift' = CountedDrift /\ Others' = Others
  BY <1>1, <1>2, <1>3, <1>4, DriftTypes DEF CountedDrift, Others
<1>6. global_used' <= MaxTokens * Cardinality(Stalled') \/ holder' = Nobody
  <2>1. i \in Stalled' /\ Stalled' \in SUBSET Thread /\ Stalled = Stalled' \ {i}
    BY DEF Stalled, RecordGlobal, Goto, TypeOK
  <2>2. MaxTokens * Cardinality(Stalled) + MaxTokens = MaxTokens * Cardinality(Stalled')
    BY <2>1, RemoveThread
  <2>3. MaxTokens * Cardinality(Stalled) \in Nat /\ MaxTokens * Cardinality(Stalled') \in Nat
    BY <2>1, ThreadCard
  <2>4. holder' = holder
    BY DEF RecordGlobal
  <2>5. QED
    BY <1>1, <1>2, <2>2, <2>3, <2>4, BudgetAssumption DEF DriftInv, TypeOK
<1>7. /\ \A j \in Thread : pc'[j] # "record_tenant" => tokens'[j] = 0
      /\ \A j \in Thread : pc'[j] = "reset" <=> holder' = j
  BY <1>1 DEF DriftInv, TypeOK, RecordGlobal, Goto
<1>8. QED
  BY <1>5, <1>6, <1>7 DEF DriftInv, RecordGlobal

(* What is recorded for a tenant that the reset has yet to visit is lost to *)
(* the tenant only.                                                        *)
LEMMA RecordTenantDrift ==
    ASSUME TypeOK, TypeOK', DriftInv, NEW i \in Thread, RecordTenant(i)
    PROVE  DriftInv'
<1> USE DriftTypes, DriftTypesNext DEF DriftTyped
<1>0. PICK t \in Tenant, n \in Nat : t = tenant[i] /\ n = tokens[i]
  BY BudgetAssumption DEF TypeOK
<1>1. n \in Nat /\ t \in Tenant /\ tokens'[i] = 0
  BY BudgetAssumption DEF RecordTenant, TypeOK
<1>2. SumFunction(tokens)' = SumFunction(tokens) - n
  <2>1. \A j \in Thread : tokens[j] \in Int
    BY BudgetAssumption DEF TypeOK
  <2>2. \A j \in Thread \ {i} : tokens'[j] = tokens[j]
    BY DEF TypeOK, RecordTenant
  <2>3. SumFunctionOnSet(tokens', Thread)
           = SumFunctionOnSet(tokens, Thread) - n + tokens'[i]
    BY <1>0, <1>1, <2>1, <2>2, BudgetAssumption, SumChanged
  <2>4. QED
    BY <1>1, <2>3, DriftTypes
<1>3. Used'[t] = Used[t] + n /\ \A u \in Tenant \ {t} : Used'[u] = Used[u]
  <2>1. tenant_used'[t] = UsedBy(t) + n /\ UsedBy(t) \in Nat
    BY <1>0, <1>1, UsedByType DEF RecordTenant, TypeOK
  <2>2. \A u \in Tenant \ {t} : tenant_used'[u] = tenant_used[u]
    BY <1>0 DEF RecordTenant, TypeOK
  <2>3. UsedBy(t)' = UsedBy(t) + n
    BY <1>1, <2>1 DEF UsedBy, Absent
  <2>4. QED
    BY <1>1, <2>2, <2>3 DEF Used, UsedBy
<1>4. Counted' = Counted /\ Others' = Others
  BY DEF Counted, RecordTenant, Others
<1>5. /\ t \in Counted => CountedDrift' = CountedDrift
      /\ t \notin Counted => CountedDrift' = CountedDrift + n
  <2>1. CASE t \in Counted
    <3>1. \A u \in Counted : Used[u] \in Int
      BY DriftTypes
    <3>2. Used'[t] \in Int /\ Used[t] \in Nat
      BY <1>1, DriftTypes
    <3>3. SumFunctionOnSet(Used', Counted)
             = SumFunctionOnSet(Used, Counted) - Used[t] + Used'[t]
      BY <1>3, <2>1, <3>1, <3>2, DriftTypes, SumChanged
    <3>4. SumFunctionOnSet(Used, Counted)' = SumFunctionOnSet(Used, Counted) + n
      BY <1>1, <1>3, <1>4, <3>2, <3>3, DriftTypes
    <3>5. QED
      BY <1>1, <1>2, <2>1, <3>4, DriftTypes DEF CountedDrift, RecordTenant
  <2>2. CASE t \notin Counted
    <3>1. SumFunctionOnSet(Used', Counted) = SumFunctionOnSet(Used, Counted)
      BY <1>3, <2>2, DriftTypes, SumSame
    <3>2. QED
      BY <1>1, <1>2, <1>4, <2>2, <3>1, DriftTypes DEF CountedDrift, RecordTenant
  <2>3. QED
    BY <2>1, <2>2
<1>6. holder = Nobody => t \in Counted
  BY <1>1 DEF DriftInv, Counted
<1>7. CountedDrift' >= -(MaxTokens * Others) /\ CountedDrift \in Int
  BY <1>1, <1>5, DriftTypes DEF DriftInv, CountedDrift
<1>8. holder # Nobody => global_used' <= MaxTokens * Cardinality(Stalled')
  <2>1. Stalled' \in SUBSET Thread /\ Stalled' = Stalled
    BY DEF Stalled, RecordTenant, Goto, TypeOK
  <2>2. QED
    BY <2>1 DEF DriftInv, RecordTenant
<1>9. /\ \A j \in Thread : pc'[j] # "record_tenant" => tokens'[j] = 0
      /\ \A j \in Thread : pc'[j] = "reset" <=> holder' = j
  BY DEF DriftInv, TypeOK, RecordTenant, Goto
<1>10. QED
  BY <1>4, <1>5, <1>6, <1>7, <1>8, <1>9 DEF DriftInv, RecordTenant

LEMMA NextDrift ==
    ASSUME TypeOK, TypeOK', DriftInv, [Next]_vars
    PROVE  DriftInv'
<1> USE DEF Goto, Stalled, TypeOK
<1>1. ASSUME NEW i \in Thread, Ask(i) \/ WindowStillOpen(i) \/ CheckGlobal(i)
                               \/ CheckTenant(i) \/ CallFails(i)
      PROVE  DriftInv'
  <2>1. CASE Ask(i)
    BY <2>1, DriftUntouched DEF Ask
  <2>2. CASE WindowStillOpen(i)
    BY <2>2, DriftUntouched DEF WindowStillOpen, MutexIsFree
  <2>3. CASE CheckGlobal(i)
    BY <2>3, DriftUntouched DEF CheckGlobal
  <2>4. CASE CheckTenant(i)
    BY <2>4, DriftUntouched DEF CheckTenant
  <2>5. CASE CallFails(i)
    BY <2>5, DriftUntouched DEF CallFails
  <2>6. QED
    BY <1>1, <2>1, <2>2, <2>3, <2>4, <2>5
<1>2. CASE Tick
  BY <1>2, DriftUntouched DEF Tick
<1>3. CASE UNCHANGED vars
  BY <1>3, DriftUntouched DEF vars
<1>4. QED
  BY <1>1, <1>2, <1>3, ResetGlobalDrift, ResetTenantDrift, StartWindowDrift,
     RecordGlobalDrift, RecordTenantDrift
  DEF Next, HasCapacity, RecordUsage

(* The global counter and the sum of the tenants' are apart by at most one  *)
(* response of every other thread once a reset is over, after any number   *)
(* of windows, and for any number of tenants (budget.rs:47-53, 69-72).     *)
THEOREM DriftHolds == Spec => []DriftBounded
<1>1. BudgetInv => TypeOK
  BY DEF BudgetInv
<1>2. Spec => []DriftInv
  <2>1. TypeOK /\ TypeOK' /\ DriftInv /\ [Next]_vars => DriftInv'
    BY NextDrift
  <2>2. QED
    BY <1>1, <2>1, InitDrift, BudgetInvHolds, PTL DEF Spec
<1>3. ASSUME TypeOK, DriftInv PROVE DriftBounded
  <2> SUFFICES ASSUME holder = Nobody
               PROVE  Drift \in (-MaxTokens * Others) .. (MaxTokens * Others)
    BY DEF DriftBounded
  <2>1. Counted = Tenant
    BY <1>3 DEF DriftInv, Counted
  <2>2. Drift = CountedDrift
    BY <2>1 DEF Drift, CountedDrift, SumFunction, Used
  <2>3. CountedDrift \in Int /\ MaxTokens * Others \in Nat
    BY <1>3, DriftTypes DEF CountedDrift, DriftTyped
  <2>4. /\ CountedDrift >= -(MaxTokens * Others)
        /\ CountedDrift <= MaxTokens * Others
    BY <1>3 DEF DriftInv
  <2>5. -MaxTokens * Others = -(MaxTokens * Others)
    <3>1. Others \in Int
      BY BudgetAssumption, FS_CardinalityType DEF Others
    <3>2. QED
      BY <3>1, BudgetAssumption
  <2>6. QED
    BY <2>2, <2>3, <2>4, <2>5
<1>4. QED
  BY <1>1, <1>2, <1>3, BudgetInvHolds, PTL
==============================================================================
