---------------------------- MODULE FreezeHydrate ----------------------------
(***************************************************************************)
(* The freeze and hydrate protocol of one agent: several runtime hosts     *)
(* share a Dapr state store in which the agent is an AgentStateRecord, a   *)
(* WorkingMemoryRecord with a TTL, and a set of checkpoints.               *)
(*                                                                         *)
(*   AgentHydrationManager::hydrate  reads the state, then the memory      *)
(*                                    (crates/af-swarm-state/src/hydrate.rs) *)
(*   AgentFreezeManager::freeze      writes the memory, then the state,    *)
(*                                    then a checkpoint (src/freeze.rs)    *)
(*                                                                         *)
(* Every store call is a step of its own, so the calls of different hosts  *)
(* interleave, a host may die between two of them, and a call may fail     *)
(* with or without having been applied.                                    *)
(*                                                                         *)
(* External, modelled from what src/ requires of it: the store (the bodies *)
(* of DaprStateStore are todo!(); its contract is in their comments), and  *)
(* the actor runtime that owns a hydrated agent, runs its tasks and calls  *)
(* freeze (only its types are in the repository).                          *)
(*                                                                         *)
(* Data: what a record holds of the agent's life is the set of task turns  *)
(* it reflects; a turn is a number given out once.                         *)
(***************************************************************************)
EXTENDS Integers

CONSTANTS
    Host,            \* runtime processes that can activate the agent
    Skew,            \* Skew[h]: how far h's system clock is ahead of the store's
    MaxSkew,         \* no clock is ahead by more
    StaleThreshold,  \* stale_active_threshold_secs
    MemTtl,          \* TTL of the working memory, in seconds
    MarkChoices,     \* whether the runtime records an activation (TRUE) or not
    RefreshesETags,  \* whether the runtime may read newer ETags before a freeze
    Faults,          \* what may go wrong, a set of members of FaultKinds
    MaxNow, MaxCalls, MaxTurns   \* bounds of the model: clock, calls and turns

FaultKinds == {"crash",     \* a host dies between two store calls
               "error",     \* a store call fails and was not applied
               "lost_ack"}  \* a store call is applied and reported as failed

ASSUME ConstantsAssumption ==
    /\ MaxSkew \in Nat
    /\ Skew \in [Host -> 0 .. MaxSkew]
    /\ StaleThreshold \in Nat \ {0}
    /\ MemTtl \in Nat
    /\ MarkChoices \subseteq BOOLEAN
    /\ RefreshesETags \in BOOLEAN
    /\ Faults \subseteq FaultKinds
    /\ MaxNow \in Nat /\ MaxCalls \in Nat /\ MaxTurns \in Nat

VARIABLES
    now,     \* seconds on the store's clock
    state,   \* the AgentStateRecord and its ETag
    mem,     \* the WorkingMemoryRecord and its ETag; not live once expired
    ckpts,   \* the CheckpointRecords, one per key
    pc,      \* pc[h]: where host h is with the agent
    actor,   \* actor[h]: h's copy of the agent and the ETags it will write with
    turn,    \* the last turn given out
    calls    \* hydrate and freeze calls so far

vars == <<now, state, mem, ckpts, pc, actor, turn, calls>>

Phase == {"idle",          \* no copy of the agent
          "read_mem",      \* in hydrate, between the two reads
          "hydrated",      \* hydrate returned Ok
          "active",        \* running tasks; may freeze
          "write_state",   \* in freeze, memory written
          "write_ckpt",    \* in freeze, memory and state written
          "panicked"}      \* hydrate ran into the todo!() of the recovery

Turn == 1 .. MaxTurns

StateRecord == [etag: Nat, status: {"FROZEN", "ACTIVE"}, last_hydrated_at: Nat,
                working_memory_version: Nat, turns: SUBSET Turn]

MemRecord == [live: BOOLEAN, etag: Nat, version: Nat, expires_at: Nat,
              turns: SUBSET Turn]

Checkpoint == [seq: Nat, version: Nat, state_turns: SUBSET Turn,
               mem_turns: SUBSET Turn]

Actor == [state_etag: Nat, memory_etag: Nat, working_memory_version: Nat,
          version: Nat, last_hydrated_at: Nat, state_turns: SUBSET Turn,
          mem_turns: SUBSET Turn]

NoActor == [state_etag |-> 0, memory_etag |-> 0, working_memory_version |-> 0,
            version |-> 0, last_hydrated_at |-> 0, state_turns |-> {},
            mem_turns |-> {}]

TypeOK ==
    /\ now \in 0 .. MaxNow
    /\ state \in StateRecord
    /\ mem \in MemRecord
    /\ ckpts \subseteq Checkpoint
    /\ pc \in [Host -> Phase]
    /\ actor \in [Host -> Actor]
    /\ turn \in 0 .. MaxTurns
    /\ calls \in 0 .. MaxCalls

(* A new agent: both records written once, nothing in them, not running.   *)
Init ==
    /\ now = 0
    /\ state = [etag |-> 1, status |-> "FROZEN", last_hydrated_at |-> 0,
                working_memory_version |-> 0, turns |-> {}]
    /\ mem = [live |-> TRUE, etag |-> 1, version |-> 0, expires_at |-> MemTtl,
              turns |-> {}]
    /\ ckpts = {}
    /\ pc = [h \in Host |-> "idle"]
    /\ actor = [h \in Host |-> NoActor]
    /\ turn = 0
    /\ calls = 0

------------------------------------------------------------------------------
(* The store and the clocks *)

(* SystemTime::now() on h, in seconds since the epoch *)
Clock(h) == now + Skew[h]

(* A guarded set is applied iff the record still has the writer's ETag.    *)
StateETagIgnored(h) == TRUE
StateETagMatches(h) == actor[h].state_etag = state.etag
MemETagIgnored(h) == TRUE
MemETagMatches(h) == mem.live /\ actor[h].memory_etag = mem.etag

BeginCall ==
    /\ calls < MaxCalls
    /\ calls' = calls + 1

Goto(h, phase) == pc' = [pc EXCEPT ![h] = phase]

(* h has no copy of the agent any more. *)
Release(h) ==
    /\ Goto(h, "idle")
    /\ actor' = [actor EXCEPT ![h] = NoActor]

------------------------------------------------------------------------------
(* hydrate *)

AgeWrapped(h) == IF Clock(h) >= state.last_hydrated_at
                 THEN Clock(h) - state.last_hydrated_at
                 ELSE 2147483647

(* now_secs.saturating_sub(last_hydrated_secs) *)
Age(h) == IF Clock(h) > state.last_hydrated_at
          THEN Clock(h) - state.last_hydrated_at
          ELSE 0

BusyForEver(h) == state.status = "ACTIVE"

(* The stale ACTIVE guard: the agent counts as running elsewhere. *)
IsBusy(h) == state.status = "ACTIVE" /\ Age(h) < StaleThreshold

(* The consistency check of the two records. *)
TornUnchecked(h) == FALSE
IsTorn(h) == mem.version # actor[h].working_memory_version

HydrateRefused(h) ==
    /\ pc[h] = "idle"
    /\ IsBusy(h) \/ "error" \in Faults
    /\ BeginCall
    /\ UNCHANGED <<now, state, mem, ckpts, pc, actor, turn>>

HydrateReadState(h) ==
    /\ pc[h] = "idle"
    /\ ~IsBusy(h)
    /\ BeginCall
    /\ Goto(h, "read_mem")
    /\ actor' = [actor EXCEPT ![h] =
                    [NoActor EXCEPT
                        !.state_etag = state.etag,
                        !.working_memory_version = state.working_memory_version,
                        !.last_hydrated_at = state.last_hydrated_at,
                        !.state_turns = state.turns]]
    /\ UNCHANGED <<now, state, mem, ckpts, turn>>

HydrateReadMem(h) ==
    /\ pc[h] = "read_mem"
    /\ mem.live
    /\ ~IsTorn(h)
    /\ Goto(h, "hydrated")
    /\ actor' = [actor EXCEPT ![h] =
                    [actor[h] EXCEPT !.memory_etag = mem.etag,
                                     !.version = mem.version,
                                     !.mem_turns = mem.turns]]
    /\ UNCHANGED <<now, state, mem, ckpts, turn, calls>>

(* A missing or inconsistent memory goes to recover_from_checkpoint, whose *)
(* body is todo!().                                                        *)
HydrateRecover(h) ==
    /\ pc[h] = "read_mem"
    /\ ~mem.live \/ IsTorn(h)
    /\ Goto(h, "panicked")
    /\ UNCHANGED <<now, state, mem, ckpts, actor, turn, calls>>

HydrateReadMemFailed(h) ==
    /\ pc[h] = "read_mem"
    /\ "error" \in Faults
    /\ Release(h)
    /\ UNCHANGED <<now, state, mem, ckpts, turn, calls>>

------------------------------------------------------------------------------
(* The runtime that owns the copy *)

(* The panic ends the task that called hydrate. *)
Unwind(h) ==
    /\ pc[h] = "panicked"
    /\ Release(h)
    /\ UNCHANGED <<now, state, mem, ckpts, turn, calls>>

(* The stale ACTIVE guard reads a status and a time that hydrate does not  *)
(* write: a runtime that wants the guard to protect it writes them here.   *)
MarkActive(h) ==
    /\ pc[h] = "hydrated"
    /\ TRUE \in MarkChoices
    /\ StateETagMatches(h)
    /\ state' = [etag |-> state.etag + 1,
                 status |-> "ACTIVE",
                 last_hydrated_at |-> Clock(h),
                 working_memory_version |-> actor[h].working_memory_version,
                 turns |-> actor[h].state_turns]
    /\ actor' = [actor EXCEPT ![h] =
                    [actor[h] EXCEPT !.state_etag = state.etag + 1,
                                     !.last_hydrated_at = Clock(h)]]
    /\ Goto(h, "active")
    /\ UNCHANGED <<now, mem, ckpts, turn, calls>>

MarkActiveRejected(h) ==
    /\ pc[h] = "hydrated"
    /\ TRUE \in MarkChoices
    /\ ~StateETagMatches(h) \/ "error" \in Faults
    /\ Release(h)
    /\ UNCHANGED <<now, state, mem, ckpts, turn, calls>>

StartUnmarked(h) ==
    /\ pc[h] = "hydrated"
    /\ FALSE \in MarkChoices
    /\ Goto(h, "active")
    /\ UNCHANGED <<now, state, mem, ckpts, actor, turn, calls>>

(* HydrationResult carries no ETags, so the runtime has to read them with  *)
(* a get of its own.  With RefreshesETags it may do so after hydration.    *)
RefreshETags(h) ==
    /\ RefreshesETags
    /\ pc[h] \in {"hydrated", "active"}
    /\ actor' = [actor EXCEPT ![h] =
                    [actor[h] EXCEPT !.state_etag = state.etag,
                                     !.memory_etag = mem.etag]]
    /\ UNCHANGED <<now, state, mem, ckpts, pc, turn, calls>>

RunTask(h) ==
    /\ pc[h] = "active"
    /\ turn < MaxTurns
    /\ turn' = turn + 1
    /\ actor' = [actor EXCEPT ![h] =
                    [actor[h] EXCEPT !.state_turns = @ \cup {turn + 1},
                                     !.mem_turns = @ \cup {turn + 1}]]
    /\ UNCHANGED <<now, state, mem, ckpts, pc, calls>>

------------------------------------------------------------------------------
(* freeze *)

VersionKept(h) == actor[h].version
VersionDecremented(h) == actor[h].version - 1

(* Step 1 *)
NewMemVersion(h) == actor[h].version + 1

MemoryToWrite(h) ==
    [live |-> TRUE, etag |-> mem.etag + 1, version |-> NewMemVersion(h),
     expires_at |-> now + MemTtl, turns |-> actor[h].mem_turns]

(* Steps 3 and 4 *)
StateWithOldVersion(h) ==
    [etag |-> state.etag + 1, status |-> "FROZEN",
     last_hydrated_at |-> actor[h].last_hydrated_at,
     working_memory_version |-> actor[h].working_memory_version,
     turns |-> actor[h].state_turns]

StateToWrite(h) ==
    [etag |-> state.etag + 1, status |-> "FROZEN",
     last_hydrated_at |-> actor[h].last_hydrated_at,
     working_memory_version |-> NewMemVersion(h),
     turns |-> actor[h].state_turns]

CheckpointToWrite(h) ==
    [seq |-> Clock(h), version |-> NewMemVersion(h),
     state_turns |-> actor[h].state_turns, mem_turns |-> actor[h].mem_turns]

(* Step 2.  The ETag that set returns is not kept, so a caller that tries  *)
(* again still writes with the one it hydrated with.                       *)
FreezeWriteMemory(h) ==
    /\ pc[h] = "active"
    /\ BeginCall
    /\ MemETagMatches(h)
    /\ mem' = MemoryToWrite(h)
    /\ \/ Goto(h, "write_state")
       \/ "lost_ack" \in Faults /\ UNCHANGED pc
    /\ UNCHANGED <<now, state, ckpts, actor, turn>>

FreezeMemoryRejected(h) ==
    /\ pc[h] = "active"
    /\ BeginCall
    /\ ~MemETagMatches(h) \/ "error" \in Faults
    /\ UNCHANGED <<now, state, mem, ckpts, pc, actor, turn>>

(* Step 5 *)
FreezeWriteState(h) ==
    /\ pc[h] = "write_state"
    /\ StateETagMatches(h)
    /\ state' = StateToWrite(h)
    /\ \/ Goto(h, "write_ckpt")
       \/ "lost_ack" \in Faults /\ Goto(h, "active")
    /\ UNCHANGED <<now, mem, ckpts, actor, turn, calls>>

FreezeStateErrorIgnored(h) ==
    /\ pc[h] = "write_state"
    /\ ~StateETagMatches(h) \/ "error" \in Faults
    /\ Goto(h, "write_ckpt")
    /\ UNCHANGED <<now, state, mem, ckpts, actor, turn, calls>>

FreezeStateRejected(h) ==
    /\ pc[h] = "write_state"
    /\ ~StateETagMatches(h) \/ "error" \in Faults
    /\ Goto(h, "active")
    /\ UNCHANGED <<now, state, mem, ckpts, actor, turn, calls>>

(* Step 6: unconditional, under a key made of the second it is written in; *)
(* a failure is logged and freeze still returns Ok.                        *)
FreezeWriteCheckpoint(h) ==
    /\ pc[h] = "write_ckpt"
    /\ ckpts' = {c \in ckpts : c.seq # Clock(h)} \cup {CheckpointToWrite(h)}
    /\ Release(h)
    /\ UNCHANGED <<now, state, mem, turn, calls>>

FreezeCheckpointFailed(h) ==
    /\ pc[h] = "write_ckpt"
    /\ "error" \in Faults
    /\ Release(h)
    /\ UNCHANGED <<now, state, mem, ckpts, turn, calls>>

------------------------------------------------------------------------------
(* The environment *)

Crash(h) ==
    /\ "crash" \in Faults
    /\ pc[h] # "idle"
    /\ Release(h)
    /\ UNCHANGED <<now, state, mem, ckpts, turn, calls>>

Tick ==
    /\ now < MaxNow
    /\ now' = now + 1
    /\ UNCHANGED <<state, mem, ckpts, pc, actor, turn, calls>>

(* The store drops the memory at its expiry or, with the GC job that       *)
(* PostgreSQL needs for that, some time later.                             *)
ExpireMem ==
    /\ mem.live
    /\ now >= mem.expires_at
    /\ mem' = [mem EXCEPT !.live = FALSE]
    /\ UNCHANGED <<now, state, ckpts, pc, actor, turn, calls>>

Hydrate(h) ==
    \/ HydrateRefused(h)
    \/ HydrateReadState(h)
    \/ HydrateReadMem(h)
    \/ HydrateRecover(h)
    \/ HydrateReadMemFailed(h)

Own(h) ==
    \/ Unwind(h)
    \/ MarkActive(h)
    \/ MarkActiveRejected(h)
    \/ StartUnmarked(h)
    \/ RefreshETags(h)
    \/ RunTask(h)

Freeze(h) ==
    \/ FreezeWriteMemory(h)
    \/ FreezeMemoryRejected(h)
    \/ FreezeWriteState(h)
    \/ FreezeStateRejected(h)
    \/ FreezeWriteCheckpoint(h)
    \/ FreezeCheckpointFailed(h)

Next ==
    \/ \E h \in Host : Hydrate(h) \/ Own(h) \/ Freeze(h) \/ Crash(h)
    \/ Tick
    \/ ExpireMem

Spec == Init /\ [][Next]_vars

------------------------------------------------------------------------------
(* Safety *)

(* The consistency check is sound: whenever the two durable records carry  *)
(* the same version they were written by the same freeze, whoever wrote,   *)
(* died, failed or took over in between (hydrate.rs:117-136 relies on it). *)
DurablePairMatches ==
    mem.version = state.working_memory_version => mem.turns = state.turns

(* The write order of freeze leaves the memory at most one freeze ahead of *)
(* the state and never behind it, so a torn pair is always a memory whose  *)
(* state was not written (freeze.rs:51-60).                                *)
MemoryNeverBehind ==
    mem.version \in {state.working_memory_version,
                     state.working_memory_version + 1}

Loaded == {"hydrated", "active", "write_state", "write_ckpt"}

(* What hydrate returns, and everything a host later builds on it, joins a *)
(* state and a memory of one freeze, although hydrate reads them with two  *)
(* calls between which other hosts may write.                              *)
SnapshotFromOneFreeze ==
    \A h \in Host : pc[h] \in Loaded =>
        /\ actor[h].state_turns = actor[h].mem_turns
        /\ actor[h].version = actor[h].working_memory_version

(* A checkpoint holds nothing that is not durably in the state record: one *)
(* restored after a crash never resurrects a freeze that failed.           *)
CheckpointsAreCommitted ==
    \A c \in ckpts :
        /\ c.version <= state.working_memory_version
        /\ c.state_turns = c.mem_turns
        /\ c.state_turns \subseteq state.turns

(* No write to the state record drops a turn that an earlier write put     *)
(* there: a host that was taken over, or retries, cannot overwrite its     *)
(* successor (the ETag guards of freeze.rs:76 and 93).                     *)
NoLostUpdate == [][state.turns \subseteq state'.turns]_vars

(* Freeze keeps the optimistic promise of VersionedRecord: the copy a host *)
(* took in hydrate is installed by step 5 iff no other freeze came first.  *)
Holds(h) == pc[h] \in {"read_mem", "hydrated", "active", "write_state"}

CopiedVersion ==
    [h \in Host |-> IF Holds(h) THEN actor[h].working_memory_version ELSE -1]

CopiedTurns == [h \in Host |-> IF Holds(h) THEN actor[h].state_turns ELSE {}]

Abstract == INSTANCE VersionedRecord WITH
    Client <- Host,
    Edits <- Turn,
    version <- state.working_memory_version,
    value <- state.turns,
    base <- CopiedVersion,
    draft <- CopiedTurns

FirstCommitterWins == Abstract!Spec

(* When every activation is recorded, and a failed write was not applied,  *)
(* two hosts run the agent at once only if they were activated at least    *)
(* StaleThreshold apart, less the difference of their clocks: the stale    *)
(* ACTIVE guard (hydrate.rs:74-103) is a lease.                            *)
Running(h) == pc[h] \in {"active", "write_state"}

ActivatedAt(h) == actor[h].last_hydrated_at - Skew[h]

LeaseExclusion ==
    \A g, h \in Host : g # h /\ Running(g) /\ Running(h) =>
        \/ ActivatedAt(g) + StaleThreshold <= ActivatedAt(h) + MaxSkew
        \/ ActivatedAt(h) + StaleThreshold <= ActivatedAt(g) + MaxSkew

------------------------------------------------------------------------------
(* Progress *)

(* A pair that no freeze can complete: the memory has expired, or its      *)
(* state record is missing and the host that would write it died, failed,  *)
(* or had its ETag outdated by a successor's activation.                   *)
AwaitsState(h) == pc[h] = "write_state" /\ StateETagMatches(h)

Lost ==
    \/ ~mem.live
    \/ /\ mem.version # state.working_memory_version
       /\ \A h \in Host : ~AwaitsState(h)

(* Such a pair stays lost and is never hydrated, whatever any host does:   *)
(* no host holds ETags with which it could freeze over it (freeze.rs:76    *)
(* and 93), and recovery is not written (hydrate.rs:165).                  *)
LostForGood ==
    [][Lost => /\ Lost'
               /\ \A h \in Host : pc[h] = "read_mem" => pc'[h] # "hydrated"]_vars

(* The store's clock advances, a host that wants the agent asks for it     *)
(* again, and a call that is under way goes on; that a call succeeds, or   *)
(* that a host lives, is not assumed.                                      *)
Fairness ==
    /\ WF_vars(Tick)
    /\ \A h \in Host : /\ WF_vars(HydrateReadState(h))
                       /\ WF_vars(HydrateReadMem(h) \/ HydrateRecover(h))
                       /\ WF_vars(Unwind(h))

FairSpec == Spec /\ Fairness

(* No host has the agent, the pair is whole, and an ACTIVE record that a   *)
(* dead host left becomes stale within the bound of the clock.             *)
CanThaw ==
    /\ \A h \in Host : pc[h] = "idle"
    /\ mem.live /\ mem.version = state.working_memory_version
    /\ state.status = "ACTIVE" => state.last_hydrated_at + StaleThreshold <= MaxNow

(* Then some host gets it: neither the stale ACTIVE guard nor the          *)
(* consistency check keeps a whole agent out for ever (hydrate.rs:74-150). *)
(* Calls that fail use up the bound on calls.                              *)
Thaws ==
    CanThaw ~> \/ \E h \in Host : pc[h] \in Loaded
               \/ ~mem.live \/ calls = MaxCalls

------------------------------------------------------------------------------
(* Claims of the repository's comments that the code does not keep *)

(* gc.rs:83-84: the working memory of an agent that has long been frozen   *)
(* may go, for the next hydration re-creates it.                           *)
ExpiredMemoryIsRecreated ==
    [][\A h \in Host :
          (/\ pc[h] = "read_mem" /\ ~mem.live
           /\ state.status = "FROZEN" /\ state.working_memory_version > 0)
          => pc'[h] # "panicked"]_vars

(* checkpoint.proto:30-31 and freeze.rs:57: the checkpoint with the highest *)
(* sequence number is the latest, and no checkpoint overwrites another.    *)
(* Where nothing fails, it holds the committed version once all hosts are  *)
(* done.                                                                   *)
LatestCheckpointIsFound ==
    state.working_memory_version > 0 /\ (\A h \in Host : pc[h] = "idle")
        => \E c \in ckpts : /\ c.version = state.working_memory_version
                           /\ \A d \in ckpts : d.seq <= c.seq
==============================================================================
