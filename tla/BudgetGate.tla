----------------------------- MODULE BudgetGate ------------------------------
(***************************************************************************)
(* ClaudeBudgetGate (crates/af-inference-client/src/budget.rs): a counter  *)
(* of tokens used in the current window, one such counter per tenant, and  *)
(* a mutex over the start of the window.  Threads ask has_capacity, call   *)
(* Claude when it says yes, and record_usage what the response cost.       *)
(*                                                                         *)
(* Every atomic access is a step; a reset, which is many, happens under    *)
(* the mutex, but has_capacity's checks and record_usage do not take it.   *)
(* Accesses are Relaxed, each to a single counter: they are modelled in    *)
(* one total order.                                                        *)
(*                                                                         *)
(* External: the callers, which no crate contains.  They are taken to ask, *)
(* call once, and record, as the doc comments of the two methods say.      *)
(***************************************************************************)
EXTENDS Integers, FiniteSets, Functions

CONSTANTS
    Thread,           \* the callers
    Nobody,           \* no thread
    Tenant,
    GlobalLimit,      \* global_limit
    PerTenantLimit,   \* per_tenant_limit
    WindowSecs,       \* window_duration_secs
    MaxTokens,        \* the most one response costs
    MaxNow            \* bound of the model: the clock

ASSUME BudgetAssumption ==
    /\ IsFiniteSet(Thread) /\ Thread # {} /\ Nobody \notin Thread
    /\ IsFiniteSet(Tenant)
    /\ GlobalLimit \in Nat
    /\ PerTenantLimit \in Nat
    /\ WindowSecs \in Nat
    /\ MaxTokens \in Nat
    /\ MaxNow \in Nat

VARIABLES
    now,
    global_used,
    tenant_used,      \* Absent until the tenant's first usage
    window_start,
    holder,           \* who holds the mutex across steps, if anyone
    listed, visited,  \* the resetter's walk over the tenants
    pc,
    tenant,           \* tenant[i]: whom thread i asks for
    tokens,           \* tokens[i]: what thread i's response cost
    zeroed_at         \* history: when the last reset began

vars == <<now, global_used, tenant_used, window_start, holder, listed, visited, pc,
          tenant, tokens, zeroed_at>>

Absent == -1

Phase == {"idle", "lock", "reset", "check_global", "check_tenant", "calling",
          "record_tenant"}

TypeOK ==
    /\ now \in 0 .. MaxNow
    /\ global_used \in Nat
    /\ tenant_used \in [Tenant -> Nat \cup {Absent}]
    /\ window_start \in 0 .. MaxNow
    /\ holder \in Thread \cup {Nobody}
    /\ listed \subseteq Tenant
    /\ visited \subseteq Tenant
    /\ pc \in [Thread -> Phase]
    /\ tenant \in [Thread -> Tenant]
    /\ tokens \in [Thread -> 0 .. MaxTokens]
    /\ zeroed_at \in Int

Init ==
    /\ now = 0
    /\ global_used = 0
    /\ tenant_used = [t \in Tenant |-> Absent]
    /\ window_start = 0
    /\ holder = Nobody
    /\ listed = {}
    /\ visited = {}
    /\ pc = [i \in Thread |-> "idle"]
    /\ tenant \in [Thread -> Tenant]
    /\ tokens = [i \in Thread |-> 0]
    /\ zeroed_at = -WindowSecs

Goto(i, phase) == pc' = [pc EXCEPT ![i] = phase]

Tenants == {t \in Tenant : tenant_used[t] # Absent}

------------------------------------------------------------------------------
(* has_capacity *)

Ask(i) ==
    /\ pc[i] = "idle"
    /\ \E t \in Tenant : tenant' = [tenant EXCEPT ![i] = t]
    /\ Goto(i, "lock")
    /\ UNCHANGED <<now, global_used, tenant_used, window_start, holder, listed, visited,
                   tokens, zeroed_at>>

MutexIgnored == TRUE

MutexIsFree == holder = Nobody

(* Instant::now() is read when the counters are zero. *)
WindowEnd == now + WindowSecs

NewWindowStart == now

WindowIsOver == now - window_start >= WindowSecs

WindowStillOpen(i) ==
    /\ pc[i] = "lock"
    /\ MutexIsFree
    /\ ~WindowIsOver
    /\ Goto(i, "check_global")
    /\ UNCHANGED <<now, global_used, tenant_used, window_start, holder, listed, visited,
                   tenant, tokens, zeroed_at>>

ResetGlobal(i) ==
    /\ pc[i] = "lock"
    /\ MutexIsFree
    /\ WindowIsOver
    /\ holder' = i
    /\ global_used' = 0
    /\ listed' = Tenants
    /\ visited' = {}
    /\ zeroed_at' = now
    /\ Goto(i, "reset")
    /\ UNCHANGED <<now, tenant_used, window_start, tenant, tokens>>

(* DashMap::iter goes through the map shard by shard: a tenant that is     *)
(* inserted meanwhile may be met or missed.                                *)
ResetTenant(i) ==
    /\ pc[i] = "reset"
    /\ \E t \in Tenants \ visited :
          /\ tenant_used' = [tenant_used EXCEPT ![t] = 0]
          /\ visited' = visited \cup {t}
    /\ UNCHANGED <<now, global_used, window_start, holder, listed, pc, tenant, tokens,
                   zeroed_at>>

WalkSkipped == TRUE

WalkIsOver == listed \subseteq visited

StartWindow(i) ==
    /\ pc[i] = "reset"
    /\ WalkIsOver
    /\ window_start' = NewWindowStart
    /\ holder' = Nobody
    /\ listed' = {}
    /\ visited' = {}
    /\ Goto(i, "check_global")
    /\ UNCHANGED <<now, global_used, tenant_used, tenant, tokens, zeroed_at>>

GlobalOffByOne == global_used <= GlobalLimit

GlobalHasRoom == global_used < GlobalLimit

CheckGlobal(i) ==
    /\ pc[i] = "check_global"
    /\ Goto(i, IF GlobalHasRoom THEN "check_tenant" ELSE "idle")
    /\ UNCHANGED <<now, global_used, tenant_used, window_start, holder, listed, visited,
                   tenant, tokens, zeroed_at>>

TenantUnchecked(i) == TRUE

(* None => true: no usage recorded yet. *)
TenantHasRoom(i) ==
    \/ tenant_used[tenant[i]] = Absent
    \/ tenant_used[tenant[i]] < PerTenantLimit

CheckTenant(i) ==
    /\ pc[i] = "check_tenant"
    /\ Goto(i, IF TenantHasRoom(i) THEN "calling" ELSE "idle")
    /\ UNCHANGED <<now, global_used, tenant_used, window_start, holder, listed, visited,
                   tenant, tokens, zeroed_at>>

------------------------------------------------------------------------------
(* The call, and record_usage *)

CallFails(i) ==
    /\ pc[i] = "calling"
    /\ Goto(i, "idle")
    /\ UNCHANGED <<now, global_used, tenant_used, window_start, holder, listed, visited,
                   tenant, tokens, zeroed_at>>

RecordGlobal(i) ==
    /\ pc[i] = "calling"
    /\ \E n \in 0 .. MaxTokens :
          /\ global_used' = global_used + n
          /\ tokens' = [tokens EXCEPT ![i] = n]
    /\ Goto(i, "record_tenant")
    /\ UNCHANGED <<now, tenant_used, window_start, holder, listed, visited, tenant,
                   zeroed_at>>

UsedBy(t) == IF tenant_used[t] = Absent THEN 0 ELSE tenant_used[t]

RecordTenant(i) ==
    /\ pc[i] = "record_tenant"
    /\ tenant_used' = [tenant_used EXCEPT ![tenant[i]] = UsedBy(tenant[i]) + tokens[i]]
    /\ tokens' = [tokens EXCEPT ![i] = 0]
    /\ Goto(i, "idle")
    /\ UNCHANGED <<now, global_used, window_start, holder, listed, visited, tenant,
                   zeroed_at>>

Tick ==
    /\ now < MaxNow
    /\ now' = now + 1
    /\ UNCHANGED <<global_used, tenant_used, window_start, holder, listed, visited, pc,
                   tenant, tokens, zeroed_at>>

HasCapacity(i) ==
    \/ Ask(i)
    \/ WindowStillOpen(i)
    \/ ResetGlobal(i)
    \/ ResetTenant(i)
    \/ StartWindow(i)
    \/ CheckGlobal(i)
    \/ CheckTenant(i)

RecordUsage(i) == RecordGlobal(i) \/ RecordTenant(i)

Next ==
    \/ \E i \in Thread : HasCapacity(i) \/ CallFails(i) \/ RecordUsage(i)
    \/ Tick

Spec == Init /\ [][Next]_vars

------------------------------------------------------------------------------

(* The check and the two additions are not atomic, yet a window is never   *)
(* overspent by more than one response per thread, however resets race     *)
(* with the responses (budget.rs:41-53).                                   *)
OvershootBounded ==
    global_used > 0 => global_used < GlobalLimit + MaxTokens * Cardinality(Thread)

(* The same for each tenant; one that has no usage is admitted whatever    *)
(* its limit (budget.rs:59-64).                                            *)
TenantOvershootBounded ==
    \A t \in Tenant :
        tenant_used[t] <= PerTenantLimit + MaxTokens * Cardinality(Thread)

(* The global counter and the tenants' drift apart only while a reset      *)
(* races with responses, and then by at most one response of every other   *)
(* thread: drift does not pile up from window to window (budget.rs:47-53    *)
(* against 69-72).                                                         *)
Used == [t \in Tenant |-> UsedBy(t)]

Drift == global_used - SumFunction(Used) - SumFunction(tokens)

Others == Cardinality(Thread) - 1

DriftBounded ==
    holder = Nobody =>
        Drift \in (-MaxTokens * Others) .. (MaxTokens * Others)

(* Whatever the callers do, counters are zeroed at most once per window:   *)
(* the length is checked under the mutex that the new start is set under   *)
(* (budget.rs:66-75).                                                      *)
OneResetPerWindow ==
    [][\A i \in Thread : ResetGlobal(i) => now >= zeroed_at + WindowSecs]_vars
==============================================================================
