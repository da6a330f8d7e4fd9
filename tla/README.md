# Verification of swarm-runtime

TLA+ models of the state, runtime and budget logic of `swarm-runtime`, the TLC runs that
check them on small instances, and proofs of the main results for every value of
the constants. Paths are relative to the repository root; `state/` stands for
`crates/af-swarm-state/src/`, `inference/` for `crates/af-inference-client/src/`, and
`agent.rs` for `crates/af-swarm-runtime/src/agent.rs`.

## 1. The system

An agent of a tenant lives in one process at a time. Between activations it
exists only in a state store: a Kubernetes pod that is woken by KEDA
*hydrates* it, runs its tasks, and *freezes* it again. The repository is a Rust
workspace of four crates plus design documents and deployment manifests. The
crates are libraries: traits and managers. The pod's main loop, the callers of
`hydrate`, `freeze` and `has_capacity`, and the body of every `DaprStateStore`
method are not in the repository (the latter are `todo!()`, with their contract
in comments). Models take those parts from how the code uses them and say so.

### Components

| Component | State it keeps | Operations | Hard behaviour | What makes it correct |
|---|---|---|---|---|
| Freeze, `state/freeze.rs` | none; writes three records of the store | `freeze`: memory (guarded), state (guarded), checkpoint (best effort) | crash or rejection between writes, lost acknowledgements, concurrent writers | no committed turn is lost; a torn pair is recognisable; checkpoints hold only committed data |
| Hydrate, `state/hydrate.rs` | none; reads two records | `hydrate`: stale ACTIVE guard, read state, read memory, consistency check, recovery (`todo!()`) | another host writes between the two reads; clocks differ; TTL; takeover of a host that is slow and not dead | a snapshot never joins two freezes; at most one live owner per lease |
| Store client, `state/store.rs` | the store's records, external | `get`, `set_with_etag`, `set`, ... (bodies `todo!()`), `validate_id` | ETag conflicts, errors after effect | contract only |
| Keys, `state/lib.rs:77-100`, `store.rs:66-78`, `inference/namespace.rs` | none | key builders, id validation | two different ids, one key; a prefix that matches more than it should; numbers that sort as strings | distinct records of valid ids have distinct keys; a scan by prefix finds an agent's records, in order; cached blocks stay with their tenant |
| Migrations, `state/migrations.rs` | the registry's chain | `register`, `apply_to_latest` | a chain with a gap, or a migration that does not advance | ends, at the latest version, or reports an error |
| Encryption, `state/encryption.rs` | the provider's keys | `encrypt`, `decrypt`, `get_key`, `current_key_id`, `rotate_key` | a rotation between the choice of the key, the sealing and the write; dispatch on scheme and kind of key | what was stored can be opened; a rotation is not undone; readers see no difference |
| GC, `state/gc.rs` | none | `sweep` (does nothing), `erase_tenant` (`todo!()`), loop | none yet | — |
| Synapse vectors, `state/lance_schema.rs` | none | mean of the seed vectors | seeds of different lengths | — |
| Budget gate, `inference/budget.rs` | global and per-tenant counters (atomics), start of the window (mutex) | `has_capacity`, `record_usage`, reset | check-then-act without a lock; a reset that races with recordings | bounded overspending; one reset per window; the ledgers agree |
| Inference client, `inference/client.rs`, `lib.rs` | the circuit's state, which nothing reads | `infer` (passes the call through), `deadline_for_task` | none yet: deadlines, circuit breaker and retries are TODOs | — |
| Metrics, `inference/metrics.rs` | counters of Prometheus | observe | none | — |
| Runtime types, `agent.rs` | the agents' snapshots (external), the published backpressure status | the lifecycle (`Hydrate`, `Freeze`, `MessageHandler`, commands), guarded snapshot writes, `should_throttle`, `is_critical` | two actors of one agent, crashes and timeouts with tasks queued, dispatch on a stale status, thresholds in `f32` | a task is lost only with an actor that fails; a freeze after a drain keeps the pending tasks; critical pressure throttles |
| Manifests and design documents | — | — | — | not a program |

### How they interact

`hydrate` and `freeze` meet only in the store. The two records of an agent are
tied by a version number: freeze writes `memory.version + 1` into the memory and
then the same number into `state.working_memory_version`; hydrate compares them.
Writes are guarded by the ETags which the caller hands to freeze. Exclusion
between hosts is by convention: hydrate refuses an agent whose status is ACTIVE
and whose `last_hydrated_at` is less than `stale_active_threshold_secs` ago, and
nothing in the repository writes ACTIVE. Two hosts can run the same agent when
the threshold passes, when an activation is not recorded, or when the actor
placement is split (`docs/architecture/design/rust-runtime-internals.md:99` and 328
describe that case and rely on the ETags). The budget gate is shared by all
threads of a process and calls nothing else. `agent.rs` describes the same
agents once more, from the side of the runtime: one `AgentSnapshot` with one
ETag instead of the two records (the two crates do not use each other), and the
tasks that `freeze.rs` knows nothing of. `encryption.rs` is called by neither.

The behaviours a test would hardly reach, each at its line, are listed under
`hazards` in `PROJECT.json`.

## 2. Modules

| Module | Role |
|---|---|
| `VersionedRecord` | abstract specification: copies of a versioned record; the first committer wins |
| `VersionedRecordProofs` | `NothingLostHolds`: no commit removes an earlier commit's edit |
| `FreezeHydrate` | freeze and hydrate of one agent by several hosts, one action per store call |
| `FreezeHydrateProofs` | the inductive invariants `SafetyInv` and, for one owner, `SoleOwnerInv`; the safety theorems, the refinement of `VersionedRecord` |
| `LeaseProofs` | the stale ACTIVE guard as a lease: `LeaseInv`, `LeaseHolds` |
| `MCFreezeHydrate` | hosts and clocks for TLC |
| `BudgetGate` | the Claude budget gate, one action per atomic access |
| `BudgetGateProofs` | bounded overspending, bounded drift of the ledgers, one reset per window |
| `MCBudgetGate` | threads and tenants for TLC |
| `StateKeys` | the keys of all records of all agents, as strings, and the scan by prefix |
| `StateKeysProofs` | keys of valid ids without a trailing bar are unambiguous, padded numbers sort as numbers, tenants without ":" never share a namespace |
| `NamespaceKeys` | the namespaces of the shared prefix cache, as strings |
| `MCStateKeys` | symbols, ids, tenants and agent types for TLC |
| `SchemaMigration` | the migration registry and the loop that walks it |
| `SchemaMigrationProofs` | what the walk returns and refuses, for every registry, and for one without a gap |
| `MCSchemaMigration` | versions for TLC |
| `RecordEncryption` | encryption at rest of a record, key rotation, both key providers |
| `RecordEncryptionProofs` | every record opens, no rotation is undone, the refinement of `VersionedRecord` |
| `MCRecordEncryption` | writers and edits for TLC |
| `Backpressure` | the published status and the two levels of pressure, with the `f32` products; operators only |
| `AgentRuntime` | the life of agents and tasks: dispatch, hydrate, drain, freeze, quarantine, recover |
| `AgentRuntimeProofs` | only failures lose tasks, a drained freeze keeps the pending tasks, critical pressure throttles |
| `MCAgentRuntime` | symmetry for TLC |

`FreezeHydrateProofs` extends `FreezeHydrate`, `LeaseProofs` extends
`FreezeHydrateProofs`, and `MCFreezeHydrate` extends `LeaseProofs`, so TLC
evaluates the very assumptions and invariants the proofs use. `MCSchemaMigration` and
`MCRecordEncryption` extend the proof modules of their components in the same way.
`MCStateKeys` and `StateKeysProofs` extend `NamespaceKeys`, which extends `StateKeys`;
`AgentRuntime` extends `Backpressure`, and `MCAgentRuntime` and `AgentRuntimeProofs` extend it. `VersionedRecord` is implemented twice: by
`FreezeHydrate` (a turn is an edit) and by `RecordEncryption` (what decrypts is the value).

### FreezeHydrate and the code

| Code | Model |
|---|---|
| `AgentStateRecord` and its ETag | `state`; status, `last_hydrated_at`, `working_memory_version` and the turns it reflects |
| `WorkingMemoryRecord`, its ETag and TTL | `mem`; `live` is FALSE once the store dropped it |
| `CheckpointRecord`s by key | `ckpts`; a write replaces the record with the same `seq` |
| a host's copy, and the ETags its caller will pass to freeze | `actor[h]` |
| where a host is in hydrate or freeze | `pc[h]` |
| hydrate.rs:58-103 | `HydrateRefused`, `HydrateReadState`, with `IsBusy` and `Age` |
| hydrate.rs:105-136 | `HydrateReadMem`, `HydrateReadMemFailed`, `HydrateRecover` |
| hydrate.rs:157-165, the `todo!()` | phase `panicked`, then `Unwind` |
| freeze.rs:64-78 | `FreezeWriteMemory`, `FreezeMemoryRejected` |
| freeze.rs:80-96 | `FreezeWriteState`, `FreezeStateRejected` |
| freeze.rs:98-119 | `FreezeWriteCheckpoint`, `FreezeCheckpointFailed` |
| the owner of the copy (external) | `MarkActive`, `StartUnmarked`, `RefreshETags`, `RunTask`, `Crash` |
| the store (external) | the ETag guards, `ExpireMem`, and the outcomes in `Faults` |

Payloads are abstracted to the set of task turns a record reflects: each
`RunTask` gives out a fresh number and adds it to the host's copy, so a lost
update is a number that disappears. A call that fails without effect is
`"error"`, one that took effect and is reported as failed is `"lost_ack"`, and a
host that dies is `"crash"`. A caller may retry freeze after any of them.
A freeze writes with the ETags of the hydration (and of a recorded activation)
unless `RefreshesETags` says the runtime reads them again.

`MarkChoices` is the set of things the runtime may do on an activation: record it
(ACTIVE and the time) or not. The code shows only the reader of that status.

`Lost` is a pair that no freeze can complete: the memory has expired, or its
state record is missing and no host is left whose step 5 would still pass the
ETag guard. `CanThaw` is the opposite: a whole pair that nobody has in memory.

### BudgetGate and the code

`has_capacity` is `Ask`, `WindowStillOpen` or `ResetGlobal`, `ResetTenant`*,
`StartWindow`, then `CheckGlobal` and `CheckTenant`; `record_usage` is
`RecordGlobal` then `RecordTenant`. The mutex is `holder`: it is held across the
steps of a reset and, in the branch that resets nothing, only within a step. The
walk of `DashMap::iter` meets every tenant present at its start; one inserted
during the walk may be met or missed. The accesses are `Relaxed`; the model puts
them in one total order. What that leaves out is small: every `has_capacity`
takes the mutex first, so its two loads can miss only additions that are
concurrent with it, which the model has as additions that come later.
`zeroed_at` is a history variable.

### StateKeys and the code

A string is a sequence of symbols. Only "|" is told apart from other characters;
the words and digits of a key are symbols, so an id can contain them. `KindKey`
joins two ids and a word by `KEY_SEP`, and `Suffix` adds the number of a
checkpoint, a conversation or a tool log: the five builders of `state/lib.rs:77-100`.
`Put` takes any record, as `DaprStateStore::set` takes any key: `validate_id` (`store.rs:66-78`) is private and
has no caller in the repository. What the comments promise of keys they promise to ids that it accepts
(`state/lib.rs:112-114`). Even for those it does not hold: tenant `a|` with agent `a` and tenant `a` with agent `|a`
are both accepted and get one key, since half of a separator at the end of one id completes itself with
the separator that follows. The properties are about records of ids that are accepted and do not end with
"|" (`IsSafe`), in a store that holds others too. What is stored under a key is the identity of the record (agent, kind,
number), so that a collision is a record that was replaced by another.

### SchemaMigration and the code

`register` is `Register`, possible between calls only since it takes `&mut self`.
`apply_to_latest` is `ApplyRefused`, `ApplyCurrent` or `ApplyOlder`, then one
`Step` for each turn of the loop, ended by `StepMissing`, `StepFailed` or
`Finish`. Records are abstracted to their version, migrations to the versions they
read and produce. Any pair of versions may be registered, as in the code: the interesting
registries are those that no review has straightened. The registry of the
repository is empty and the latest version is 1; the model is about the registry that
its comments prepare for. Nothing in the repository calls `apply_to_latest`.

### RecordEncryption and the code

| Code | Model |
|---|---|
| `EncryptionEnvelope` in a stored record, and the record's ETag | `record`; a cipher text is the plaintext with the key that made it (`sealed_by`) |
| `InMemoryKeyProvider`, and the managed provider its trait is for | `provider`; `IsKnown`, `KeyOf`, `CurrentId`, `Rotate` |
| `encrypt`, `decrypt` | `CanEncrypt`, `Encrypt`, `CanDecrypt`, `Opens` |
| the caller that reads, opens, edits, chooses a key, seals, fills in the id and stores (external) | `Read`, `Open`, `Change`, `ChooseKey`, `Seal`, `FilledIn`, `Store`, `GiveUp` |

Each await of the caller is a step, so a rotation may fall between any two. The rotation
job is a worker that changes nothing. Plaintext records from before encryption
was switched on are the initial state. FHE keys seal nothing, as in the
code: under the managed provider a RESTRICTED record stays as it is.

### AgentRuntime and the code

| Code | Model |
|---|---|
| `AgentSnapshot` with the ETag of `read_agent_snapshot` | `snapshot[a]`: ETag and pending tasks |
| an actor: `AgentLifecycleState`, agent, ETag, and its tasks: in the inbox, pending, running | `actor[s]`, in one of the places `Slot` |
| `BackpressureStatus` as last published (by `SwarmSupervisor`, external) | `status`, `Publish` |
| the orchestrator's poll and dispatch (external) | `DispatchToFrozen`, `Dispatch`, guarded by `ShouldThrottle` |
| `Hydrate::hydrate`, `HydrationError`, the timeout | `Hydrate` (pending tasks go into the inbox), `HydrateFails`, `HydrationTimesOut` |
| `handle_message` with a task | `HandleTask`: `Ok(Some(result))` or `Err(AgentError)` ends it (`End`), `Ok(None)` leaves it queued by the agent or running |
| a queued or running task goes on | `RunPending`, `FinishTask` |
| `LifecycleCommand` | `Drain`, `StartFreeze`, `Quarantine`, `Recover` |
| `Freeze::freeze`, `write_agent_snapshot`, `FreezeError` | `Freeze` (with a lost acknowledgement), `WriteSnapshot` (the pending tasks, and nothing else), `FreezeConflicts` |
| `emergency_freeze` | `Quarantine`: written without a drain, or the last snapshot stays |
| a process that dies | `Crash` |

The traits have no implementation in the repository, so the order of calls is
the one their comments state. An agent may have two
actors, the split placement that the ETags are for. A snapshot holds the pending tasks only: the inbox, a
channel, is not serialized (`agent.rs:450`), nor is what is running (`agent.rs:327`). What saves
the inbox is the drain that precedes a freeze (`agent.rs:86-87`, 228), which `StartFreeze` waits for; an emergency
freeze has none. A task whose handler returned an error, a caught
panic for example, has no `TaskResult` (`failed`): the actor lives on without it and nothing in the repository
reports it. The tasks of an actor that crashed, timed out, failed to hydrate, was quarantined or lost its agent to
another actor are gone too, unless a snapshot or another actor has them; `LostOnlyInFailure` says that
there is no other way for a task to go.

### Backpressure and the code

A threshold is `(limit as f32 * ratio) as usize`. `Product` computes it exactly: the ratios are the numbers of 24
significant bits nearest to 0.80 and 0.95, `Rounded` rounds the product to 24 bits (ties to even) and `\div` cuts it.
Fill levels are whole per cent, which `f32` compares with 0.85 and 0.95 as the decimal numbers compare.

### NamespaceKeys and the code

`namespace_key_to_prefix` renders tenant, level, agent type and digest. The tenants are those
of the records in the state store of `StateKeys`. The digest is any of a
set of strings of one length, so prompts may collide. Names of tenants and agent types have any form, with
":" as well, since nothing in the code checks them. `TenantsAreApart` is about the tenants whose ids have none, as ids
are meant to be: UUIDs (`proto/af-swarm/common.proto:37`) or slugs (`inference-cluster.md:841`); agent types may have any form there. Without
that condition it is false (run `colon_tenants`). `NamespaceAssumption` says that names and digests are strings
and digests have one length. The note at `namespace.rs:59-61` puts the level
before the tenant; the code, and the test at line 85, put the tenant first.

## 3. Runs

| Run | Instance | What it shows |
|---|---|---|
| `freeze_hydrate` | 2 hosts, all faults, recorded and unrecorded activations, threshold 1, TTL 2, clock to 2, 5 calls, 2 turns | the safety invariants, no lost update, that the protocol implements `VersionedRecord`, that a lost pair stays lost, and that a whole one can be hydrated |
| `lease` | 3 hosts, one clock a second ahead, every activation recorded, crashes and unapplied errors, threshold 2, clock to 3, 4 calls | overlapping activations are the threshold apart, less the skew |
| `budget_gate` | 2 threads, 2 tenants, windows of 2 seconds, clock to 5 | bounded overspending per window and per tenant, bounded drift of the ledgers, one reset per window |
| `single_owner` | 1 host that may read the ETags again before any freeze; crashes and unapplied errors, 5 calls, clock to 3, 3 turns | re-reading the ETags is harmless while the agent has one owner |
| `state_keys` | 6 ids, of which 2 are refused, one is accepted and ends with "\|", one contains a level's label; numbers of one and two digits, 2 records; 4 agent types, 2 digests, a known level and an unknown one | no record of safe ids replaces another; a scan finds an agent's checkpoints, in order; no cached block is served to another tenant or level |
| `schema_migration` | versions 0 to 3 of which 2 is the latest, every registry over them, in every order of registration | what is returned is at the latest version, only a record without a chain is refused, the walk ends when migrations advance |
| `record_encryption` | 2 workers, 2 edits, 3 keys, 4 writes, both providers and tiers | every record opens, a rotation is not undone, the refinement of `VersionedRecord` |
| `agent_runtime` | 2 agents, 2 places for actors, 2 tasks, limit 1, buffer at 0 or 90 per cent, 3 ETags; ten limits for the thresholds, the default of 100 among them | only failures lose tasks, a freeze after a drain keeps the pending tasks; critical pressure throttles; the `f32` products cut to the exact quotients |
| `checkpoint_order` | violation | the checkpoint with the highest number is not the latest, or the latest was replaced |
| `refreshed_etags` | violation | re-reading ETags before a retry loses an update |
| `expired_memory` | violation | an agent whose memory has expired is never hydrated again |
| `colon_tenants` | violation | two tenants with one namespace |

**Properties of the core.** `DurablePairMatches` (equal versions imply one
freeze wrote both records), `MemoryNeverBehind` (a memory is at most one freeze
ahead of the state), `SnapshotFromOneFreeze` (what hydrate returns), `NoLostUpdate`,
`CheckpointsAreCommitted`, `FirstCommitterWins` (refinement) and `LeaseExclusion`.
Each has a mutant of the code's operators that TLC finds to break it: ETag
guards ignored, the version not advanced, the check skipped, an error ignored, a
subtraction that wraps.

**Bounds.** The interesting histories of the core need two hosts (a host and its
successor), two freezes, one expiry and one takeover: five calls to hydrate or
freeze are hydrate, hydrate, freeze, hydrate or retry, freeze; two turns are one
for each host; a clock of 2 lets a threshold of 1 pass and a TTL of 2 expire.
Versions and ETags are bounded by the calls. The lease run has three hosts so that a third
can take over while two others overlap. The clock of the budget run lets two windows end.
The run with one owner needs a crash between the two writes, a second hydration
and a freeze, with the memory expired or not. Two records let two agents'
checkpoints, or checkpoints of different lengths, or a record of refused ids and one of accepted ids, be in the store at once: each
property of the keys is about two records, and that of the namespaces about two tenants that have one.
Four versions give chains that skip, stay, go back in a cycle, are cut by a
replacement, or pass the latest version.
Three keys let two rotations fall into one write of the record; four ETags let a
writer, the rotation job and a third write race. Two actors are of one agent or of
two; with a limit of 1, dispatch is throttled from one active agent on; three ETags let a freeze
follow another's freeze; two tasks can be one pending and one new. The limits of the thresholds are those where
the product with a ratio is an integer, so that a ratio that `f32` holds too low would cost an agent, and their
neighbours, as far as TLC's 32-bit integers hold the product.
The theorems below remove the bounds: `MaxNow`, `MaxCalls` and `MaxTurns` are
constants there, of any value, as are the hosts.

**One owner.** In `single_owner` the acknowledgement of a write is never lost, and
`SoleOwner`, the hypothesis of the theorems about it, says the same. If it may be, `DurablePairMatches` fails there as well: a host whose state write was applied
but reported as failed goes on, runs a turn, reads the new ETags and freezes again from the version
it started with; the memory is then written under the version that both records already
have, and a crash at this point leaves two different contents with equal
versions, which no check tells from a whole pair. That is the overwrite of `refreshed_etags`
by the host's own retry.

**Deadlock** is not checked in the `FreezeHydrate` runs: the model stops when
its clock, calls and turns are used up. It is checked in `budget_gate`, whose
threads can always go on (the mutex cannot lock all threads out), and in the runs of
`StateKeys` and `NamespaceKeys`, `SchemaMigration`, `RecordEncryption` (a worker can always give up and
read again) and `AgentRuntime` (the supervisor can always publish).

**Fairness.** `SchemaMigration` assumes weak fairness of the steps of a call: a task that
is polled goes on, and a migration's await ends; no failure is owed. `FreezeHydrate` has
`FairSpec` for `Thaws`: the clock advances, a host that wants the agent asks for it
again, a call of hydrate that is under way goes on, and one that panicked unwinds. The hosts
are pods under a Tokio executor and clients of a store that answers or fails; that a
call succeeds, that a host lives, or that a freeze is ever begun is not assumed. `Thaws` says: when
nobody has the agent and its pair is whole, some host gets it, unless the memory
expires first or the calls run out (which calls that fail use up). It
fails when the guard takes ACTIVE for busy without looking at the age.
The other specifications have safety properties only and assume none.

**What the findings mean.** The four violation runs each contradict a comment or a document
that `findings` quotes. Recovery is not written yet (`todo!()`, `hydrate.rs:165`), so a torn pair
ends in a panic which does not become the `StateError` the signature promises, where `freeze.rs:59-60` has it
recovered automatically. A freeze of another host that falls between the two reads of hydrate looks the
same to it, and panics too, although nothing was torn; the next attempt may succeed (`Thaws`),
while that of a torn pair never does (`LostForGood`). `LostForGood` holds of an
expired memory as well, and `expired_memory` shows the way there with no fault at all: an agent is frozen, its
memory's day passes, and its next hydration takes the missing memory for a torn write and panics, where
`gc.rs:84` has "working_memory is re-created on next hydration".
`checkpoint_order` comes from drawing the sequence number from a clock in seconds
at the time of the checkpoint's write. `refreshed_etags` shows that the retry
described in the design document, re-read the ETag and write again, is a
last-writer-wins overwrite of a whole record and does lose data (lines 328 and 496 of the document merge
before the retry, for which the repository has no code); and that it is
easy to do by accident since `HydrationResult` does not carry the ETags.
`colon_tenants`: nothing refuses ":" in a name, and the id of one
tenant may hold another's id, a level and an agent type.

Other disagreements need no trace. `agent.rs:502` says that 80 of 100 agents trigger the throttle; the code compares
with `>`, so 81 do (the threshold is 80, `ThresholdsAreExact`). An emergency freeze waits for no drain, so it may overwrite
a snapshot whose pending tasks hydrate has moved into the inbox (`agent.rs:431`, 450), where
`rust-runtime-internals.md:287` has them survive: `PendingIsKept` excepts it. The active limit, which line 175 of that document
says the runtime enforces, is looked at by a poll of an older status only; nothing in `src/` evicts or queues, and the model exceeds it.

## 4. Proofs

Everything below is checked by TLAPS, for every set of hosts, threads and
tenants and all values of the bounds.

| Theorem | Module | Statement |
|---|---|---|
| `TypeCorrect` | FreezeHydrateProofs | `Spec => []TypeOK` |
| `SafetyInvHolds` | FreezeHydrateProofs | `Spec => []SafetyInv` |
| `DurablePairHolds`, `SnapshotHolds`, `CheckpointsHold` | FreezeHydrateProofs | the safety invariants of the run |
| `NoLostUpdateHolds`, `LostForGoodHolds` | FreezeHydrateProofs | the action properties |
| `Refinement` | FreezeHydrateProofs | `Spec => FirstCommitterWins` |
| `SoleOwnerHolds`, `SoleOwnerRefines` | FreezeHydrateProofs | the safety invariants, `NoLostUpdate` and the refinement again, for an agent with one host that may read its ETags again |
| `LeaseInvHolds`, `LeaseHolds` | LeaseProofs | `Spec => []LeaseInv`, `Spec => []LeaseExclusion` |
| `NothingLostHolds` | VersionedRecordProofs | of the abstract specification |
| `TypeCorrect`, `OvershootHolds`, `DriftHolds`, `OneResetHolds` | BudgetGateProofs | of the budget gate, in total and per tenant |
| `TypeCorrect`, `ResultIsLatestHolds`, `RefusedOnlyWithoutChainHolds` | SchemaMigrationProofs | of the migration registry, for every registry |
| `NoGapServesAllHolds` | SchemaMigrationProofs | a registry without a gap refuses newer records only, and returns exactly the latest version |
| `NoneReplacedHolds`, `ScanIsExactHolds`, `ScanIsInOrderHolds` | StateKeysProofs | of the keys, for records of valid ids that do not end with "\|", whatever else is in the store, and every width of the padding |
| `TenantsAreApartHolds` | StateKeysProofs | of the prefix cache, for tenants without ":" in their ids and agent types of any form |
| `TypeCorrect`, `EveryRecordOpensHolds`, `RotationIsNotUndoneHolds`, `TransparentHolds` | RecordEncryptionProofs | of the sealed record; the last is `Spec => Transparent`, the refinement of `VersionedRecord` |
| `TypeCorrect`, `LostOnlyInFailureHolds`, `PendingIsKeptHolds` | AgentRuntimeProofs | of the agents' lives, for any numbers of agents, tasks and actors |
| `CriticalIsThrottledHolds` | AgentRuntimeProofs | for every limit that `f32` holds exactly |

**Assumptions.** `ConstantsAssumption` and `BudgetAssumption` give the constants
their types; the latter also says that there is a thread and that threads and tenants are
finitely many, which the sums of `DriftBounded` need. The theorems on freeze and
hydrate, except `TypeCorrect`, assume `~RefreshesETags`, and those whose names begin with
`SoleOwner` assume `SoleOwner` in its place: one host, and no write that is applied and
reported as failed. Run `refreshed_etags` shows that one of the two is needed, and section 3
(one owner) why the second half of `SoleOwner` is.
`LeaseAssumption` adds to the first that every activation is recorded and that a write
reported as failed was not applied. Both are needed: an unrecorded activation is invisible to the
guard, and a freeze whose state write was applied but not acknowledged leaves a
FROZEN record and a host that still runs. `KeysAssumption` gives the types of the constants of
`StateKeys` and says that the numbers fit the width of the padding: `u64::MAX` has the twenty digits of
`{:020}`; the condition on ids is in the properties (`IsSafe`). `NamespaceAssumption` gives types and one length to digests; the
condition on tenants is in `TenantsAreApart` itself. `SchemaAssumption`, `EncryptionAssumption` and
`RuntimeAssumption` give types; the last also makes the places for actors finite. `BackpressureAssumption` has limits less than 2^24, below which
every limit is an `f32`, and fills in per cent, zero among them.

**The argument for the core.** The safety invariants are not inductive: an
invariant about the two records says nothing of a host about to write them.
`SafetyInv` adds what the ETags stand for. A copy of the state whose ETag is
current is a copy of the current version, and a copy of the current version
contains every committed turn (`StateCopy`). A host that may still write the
memory, and whose memory ETag is current, read it when no freeze was pending:
memory, state and copy have one version (`MemCopy`). At most one host is in
`write_state`; the memory is the one it wrote, one version ahead of the state
(`Pending`, `OnePending`). With these, the write of the memory
moves it exactly one ahead, the write of the state closes the gap or is rejected,
and the refinement mapping takes the successful state write to the abstract
`Commit`, every step that makes a copy to `Begin`, and every step that gives one
up to `Abort`. That a lost pair stays lost needs the same invariant: by `MemCopy` nobody has the ETag
of a memory whose state is missing, and by `StateCopy` no host that still
reads has a copy new enough to match it.
What the growth of the state and the refinement use of all this is `GuardedWrites`: what a host holds
whose write the state's ETag would let pass.

**The argument for one owner.** Once ETags may be read again, they stand for nothing: a copy may be old and its
ETag current. `SoleOwnerInv` therefore compares the copy with the record
itself: the host that holds a copy holds every committed turn, under the version of the state, and
while it is between the two writes the memory is the one it wrote. That is inductive for
one host that always learns whether a write took effect, and it implies `GuardedWrites`, so
that no lost update and the refinement follow by the same lemmas.

**The argument for the lease.** `LeaseInv` says that at most one running host has the current state ETag, that
the record names that host's activation and is ACTIVE, and that every other running
host was activated at least the threshold (less the skew) ago. A host that has read
an ACTIVE record, and whose ETag is still current, passed the guard on its own
clock: when its activation is recorded the one it replaces is that old. Hence
the skew in `LeaseExclusion`.

**The argument for the gate.** A counter that has been checked may be exceeded
only by threads that had passed the check: `BudgetInv` bounds the used tokens
by the limit plus one response for each thread that is past the check, and a
thread that records its response moves from the second term to the first. For
the resets: while no thread holds the mutex, the window starts no earlier than the
last zeroing, and the next reset begins a window's length after that start.

For the drift, a sum over tenants, the difficulty is a reset under way: the global counter is zero
and the tenants' counters are not yet. `CountedDrift` leaves out of the sum the tenants that the walk has listed
and has still to visit, since it will zero them. Of the responses that are
recorded in the global counter only, or in a tenant's only, each thread but the one that
resets contributes one at most: it cannot answer twice without
the mutex in between (`Stalled`). When the walk is over nothing is left out, and the bound is that of
`DriftBounded`. The walk that may miss a tenant inserted meanwhile is covered: that
tenant is not listed, hence counted.

**The argument for the keys.** The invariant is that a record is stored under its own key, so that two records of which one
replaces the other have one key. An accepted id does not contain the separator and
does not end with half of it, so the first separator in a key is the one after the
tenant: were the id shorter than another that starts the same string, the other
would contain a separator or end with a bar (`NoShorterId`). What remains after it
is cancelled, the same holds for the agent, and the word and the number follow
(`KindKeyUnique`). A scan by prefix is the same lemma with an arbitrary rest.

**The argument for the order of a scan.** Two padded numbers have one length. Take the first place where
the quotients of the two numbers by its power of ten differ: the smaller number has the smaller quotient, and
since the quotients one place earlier agree, the smaller digit; all earlier digits
agree (`PaddedOrder`). So padding keeps the order, and gives two numbers two strings
(`PaddedUnique`). The powers of ten are a recursive function;
`TenUnfolds` obtains its equations from tables of finite length (`TenTable`), whose existence is shown by taking
the least length without one.

**The argument for the namespaces.** No tenant contains ":", so the first colon of a prefix ends its tenant, in
both of two prefixes of which one begins the other; the symbol after it is the level.
Nothing is needed of agent types, or of `validate_id`.

**The argument for the migrations.** `Trail` says that the versions a walk has left, with the one it
has reached, are closed under the registry but for that one. When its migration is missing they
are closed altogether and do not contain the latest version, so no chain leads there.
No history is kept for this: the set is under an existential quantifier of the invariant.
For a registry without a gap (`NoGap`), a set of versions that is closed under it and avoids the latest
version would have a member nearest to the latest, whose migration leads nearer still.

**The argument for the encryption.** That the stored envelope opens is preserved by a write only if
what the writer holds opens: `SealedByChosen` says that the chosen id is known, not
newer than the current one, and that the envelope was sealed with the key it stands for.
Earlier keys stay known, so a rotation disturbs nothing. `CopyIsCurrent` says that a copy whose ETag is current
is a copy of the record, hence chose a key that is not older than the record's,
which makes rotation irreversible and the successful write an abstract `Commit`.

**The argument for the tasks.** `CopyInv` ties an actor to the snapshot it was hydrated from: as
long as its ETag is current, every task that the snapshot still promises is with it (in its inbox, pending or running) or
has ended. It also says that an actor that is freezing has drained. So a freeze, which needs the current ETag, finds every
promised task among its pending tasks or ended, and writes it again; the emergency freeze
lacks the second half, which is why `PendingIsKept` excepts it. An actor
whose acknowledgement was lost has an old ETag and can never write again; its tasks are lost with it when it finds out,
unless the snapshot it wrote has them.

**The argument for the thresholds.** Rounding moves a product by one part in 2^24 at most (`RoundedBound`), and the ratios are much
further apart, so the rounded products are in the order of the ratios, and cutting keeps it.

**Only model-checked.** `WalkEnds` and `Thaws`, since liveness and `ENABLED` are beyond the prover, `ThresholdsAreExact`,
which is checked at the limits of the run, and
the violation runs, which are counterexamples. That the recursive function for powers
of ten has its values, and that a walk over a registry without a gap can arrive are inductions; the theorems of the library
that take the induction formula as a parameter are out of the prover's reach, so
these go by the least counterexample (`WFMin` of `WellFoundedInduction`), and the sums by a set of all subsets
for which the formula holds.

## 5. Not modelled, and why

- Metrics, manifests, documents: output or configuration.
- Ciphers: library code. `sweep` and `erase_tenant`: empty or `todo!()`; the loop that
  calls `sweep` changes nothing. Vectors of the synapse store: float arithmetic.
- The inference client: `infer` passes the call through (its failure is `CallFails` of
  `BudgetGate`); deadlines, the circuit breaker and retries are TODOs, and nothing
  calls `deadline_for_task`.
- Of `agent.rs`: direct messages and broadcasts (no state), the active registry and
  the lifecycle state outside the snapshot (trait methods that nothing calls), the idle TTL
  (`Drain` may come at any time), `memory_pressure` (no threshold reads it), snapshot migrations (the shape of
  `SchemaMigration`). What wakes a frozen agent with pending tasks is not in the repository.
- Limits of 2^24 agents and more, which the conversion to `f32` rounds before the product.
- The "no state record" return of hydrate: nothing deletes a state record.
- Recovery from a checkpoint: its body is `todo!()`. It is modelled as the panic it
  is; `CheckpointsAreCommitted` says what a recovery could rely on.
- `FreezeHydrate` has one agent. Agents share no record as long as their keys
  differ, which `StateKeys` is about; the store's guarantees are per key.
- The composition of `agent.rs` with `freeze.rs`: the crates do not use each other, and
  one keeps in a single record what the other keeps in two.

## 6. Plan

Every safety property that a passing run checks, except `ThresholdsAreExact`, is also a theorem. What is left waits for code that is not written
yet, in this order:

1. *Takeover*: the comment at `hydrate.rs:102-103` promises an update of the status after the memory is
   loaded, and none follows; when it does, `MarkActive` becomes a step of hydrate.
2. *Rollout*: hosts with different binaries, `SchemaMigration` composed with freeze, which stamps
   the latest version on what hydrate did not migrate, once there is a second version.
3. *Recovery*: a body for `recover_from_checkpoint`, checked against `ExpiredMemoryIsRecreated`, its like for torn pairs and
   `LostForGood`; it will need a key for checkpoints that keeps `LatestCheckpointIsFound`.

## 7. Running

    tlc -config MCFreezeHydrate.cfg MCFreezeHydrate.tla
    tlapm FreezeHydrateProofs.tla

The other configurations are named after the runs' subjects (`MCLease.cfg`,
`MCBudgetGate.cfg`, `MCExpiredMemory.cfg`, ...); `PROJECT.json` lists them with the
properties of each, the lines every definition models and the mutants that show each
property can fail. `MCFreezeHydrate` is explored in little more than a minute,
the others in less, the proofs in a few minutes.
