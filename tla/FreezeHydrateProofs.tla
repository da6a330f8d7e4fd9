------------------------- MODULE FreezeHydrateProofs -------------------------
(***************************************************************************)
(* The inductive invariant behind the safety properties of FreezeHydrate,  *)
(* and the proofs.  SafetyInv needs that ETags are not refreshed (~        *)
(* RefreshesETags); it needs nothing of Faults, MarkChoices or Skew.       *)
(* SoleOwnerInv takes its place where they are: it needs that the agent    *)
(* has one host, and that the store never fails a write it has applied.    *)
(***************************************************************************)
EXTENDS FreezeHydrate, TLAPS

(* How a copy of the state record relates to the record.  A copy whose     *)
(* ETag is current is a copy of the current version, and a copy of the     *)
(* current version holds whatever the record holds.                        *)
StateCopy(h) ==
    Holds(h) =>
        /\ actor[h].state_etag <= state.etag
        /\ actor[h].working_memory_version <= state.working_memory_version
        /\ actor[h].state_etag = state.etag =>
              actor[h].working_memory_version = state.working_memory_version
        /\ actor[h].working_memory_version = state.working_memory_version =>
              state.turns \subseteq actor[h].state_turns

(* Until it runs a task it holds nothing else.                             *)
StateCopyUnedited(h) ==
    /\ pc[h] \in {"read_mem", "hydrated"}
    /\ actor[h].working_memory_version = state.working_memory_version
    => actor[h].state_turns = state.turns

Snapshot(h) ==
    pc[h] \in Loaded =>
        /\ actor[h].state_turns = actor[h].mem_turns
        /\ actor[h].version = actor[h].working_memory_version

(* A host that can still write the memory read it when no freeze was       *)
(* pending.                                                                *)
MemCopy(h) ==
    pc[h] \in {"hydrated", "active"} =>
        /\ actor[h].memory_etag <= mem.etag
        /\ actor[h].memory_etag = mem.etag =>
              /\ mem.version = actor[h].version
              /\ state.working_memory_version = actor[h].version

(* Between steps 2 and 5 of freeze the memory is that freeze's, one        *)
(* version ahead of the state, and its writer can no longer write it.      *)
Pending(h) ==
    pc[h] = "write_state" =>
        /\ actor[h].memory_etag < mem.etag
        /\ mem.version = actor[h].version + 1
        /\ state.working_memory_version = actor[h].version
        /\ mem.turns = actor[h].mem_turns

OnePending ==
    \A g, h \in Host : pc[g] = "write_state" /\ pc[h] = "write_state" => g = h

(* Between steps 5 and 6 the checkpoint is already committed.              *)
Committed(h) ==
    pc[h] = "write_ckpt" =>
        /\ actor[h].version + 1 <= state.working_memory_version
        /\ actor[h].state_turns \subseteq state.turns

HostInv(h) ==
    /\ StateCopy(h)
    /\ StateCopyUnedited(h)
    /\ Snapshot(h)
    /\ MemCopy(h)
    /\ Pending(h)
    /\ Committed(h)

SafetyInv ==
    /\ TypeOK
    /\ DurablePairMatches
    /\ MemoryNeverBehind
    /\ CheckpointsAreCommitted
    /\ OnePending
    /\ \A h \in Host : HostInv(h)

(* With one host and no lost acknowledgement the host may read the ETags   *)
(* again: nobody else writes, and it knows of every write whether it took  *)
(* effect.                                                                 *)
SoleOwner ==
    /\ \E h \in Host : Host = {h}
    /\ "lost_ack" \notin Faults

OwnerInv(h) ==
    /\ Snapshot(h)
    /\ Committed(h)
    /\ Holds(h) => /\ actor[h].working_memory_version = state.working_memory_version
                   /\ state.turns \subseteq actor[h].state_turns
    /\ pc[h] \in {"read_mem", "hydrated"} => actor[h].state_turns = state.turns
    /\ pc[h] = "write_state" => /\ mem.version = actor[h].version + 1
                                /\ mem.turns = actor[h].mem_turns

SoleOwnerInv ==
    /\ TypeOK
    /\ DurablePairMatches
    /\ MemoryNeverBehind
    /\ CheckpointsAreCommitted
    /\ \A h \in Host : OwnerInv(h)

(* What either invariant says of the writes that the state's ETag lets     *)
(* pass: no lost update and the refinement follow from this.               *)
GuardedWrites ==
    /\ TypeOK
    /\ \A h \in Host : StateETagMatches(h) =>
          /\ pc[h] = "hydrated" =>
                /\ actor[h].working_memory_version = state.working_memory_version
                /\ actor[h].state_turns = state.turns
          /\ pc[h] = "write_state" =>
                /\ actor[h].working_memory_version = state.working_memory_version
                /\ actor[h].version = state.working_memory_version
                /\ state.turns \subseteq actor[h].state_turns

------------------------------------------------------------------------------
(* Type correctness *)

LEMMA NoActorType == NoActor \in Actor
  BY DEF NoActor, Actor

LEMMA InitType == Init => TypeOK
<1> SUFFICES ASSUME Init PROVE TypeOK
  OBVIOUS
<1>1. actor \in [Host -> Actor]
  BY NoActorType DEF Init
<1>2. QED
  BY <1>1, ConstantsAssumption
  DEF Init, TypeOK, StateRecord, MemRecord, Phase

LEMMA HydrateType ==
    ASSUME TypeOK, NEW h \in Host, Hydrate(h)
    PROVE  TypeOK'
<1> USE DEF TypeOK, BeginCall, Goto, Phase
<1>1. CASE HydrateRefused(h)
  BY <1>1, ConstantsAssumption DEF HydrateRefused
<1>2. CASE HydrateReadState(h)
  <2>1. actor' \in [Host -> Actor]
    BY <1>2, NoActorType DEF HydrateReadState, Actor, StateRecord
  <2>2. QED
    BY <1>2, <2>1, ConstantsAssumption DEF HydrateReadState
<1>3. CASE HydrateReadMem(h)
  <2>1. actor' \in [Host -> Actor]
    BY <1>3 DEF HydrateReadMem, Actor, MemRecord
  <2>2. QED
    BY <1>3, <2>1 DEF HydrateReadMem
<1>4. CASE HydrateRecover(h)
  BY <1>4 DEF HydrateRecover
<1>5. CASE HydrateReadMemFailed(h)
  BY <1>5, NoActorType DEF HydrateReadMemFailed, Release
<1>6. QED
  BY <1>1, <1>2, <1>3, <1>4, <1>5 DEF Hydrate

LEMMA OwnType ==
    ASSUME TypeOK, NEW h \in Host, Own(h)
    PROVE  TypeOK'
<1> USE DEF TypeOK, Goto, Phase
<1>1. CASE Unwind(h)
  BY <1>1, NoActorType DEF Unwind, Release
<1>2. CASE MarkActive(h)
  <2>1. Clock(h) \in Nat
    BY ConstantsAssumption DEF Clock
  <2> DEFINE marked == [actor[h] EXCEPT !.state_etag = state.etag + 1,
                                        !.last_hydrated_at = Clock(h)]
  <2>2. actor[h] \in Actor /\ state.etag + 1 \in Nat
    BY DEF StateRecord
  <2>3. marked \in Actor
    BY <2>1, <2>2 DEF Actor
  <2>4. actor' = [actor EXCEPT ![h] = marked]
    BY <1>2 DEF MarkActive
  <2>5. state' \in StateRecord
    BY <1>2, <2>1, <2>2 DEF MarkActive, Actor, StateRecord
  <2>6. QED
    BY <1>2, <2>3, <2>4, <2>5 DEF MarkActive
<1>3. CASE MarkActiveRejected(h)
  BY <1>3, NoActorType DEF MarkActiveRejected, Release
<1>4. CASE StartUnmarked(h)
  BY <1>4 DEF StartUnmarked
<1>5. CASE RefreshETags(h)
  <2>1. actor' \in [Host -> Actor]
    BY <1>5 DEF RefreshETags, Actor, StateRecord, MemRecord
  <2>2. QED
    BY <1>5, <2>1 DEF RefreshETags
<1>6. CASE RunTask(h)
  <2>1. turn + 1 \in Turn /\ turn + 1 \in 0 .. MaxTurns
    BY <1>6, ConstantsAssumption DEF RunTask, Turn
  <2> DEFINE ran == [actor[h] EXCEPT !.state_turns = @ \cup {turn + 1},
                                     !.mem_turns = @ \cup {turn + 1}]
  <2>2. ran \in Actor
    BY <2>1 DEF Actor
  <2>3. actor' = [actor EXCEPT ![h] = ran]
    BY <1>6 DEF RunTask
  <2>4. QED
    BY <1>6, <2>1, <2>2, <2>3 DEF RunTask
<1>7. QED
  BY <1>1, <1>2, <1>3, <1>4, <1>5, <1>6 DEF Own

LEMMA FreezeType ==
    ASSUME TypeOK, NEW h \in Host, Freeze(h)
    PROVE  TypeOK'
<1> USE DEF TypeOK, Goto, Phase
<1>1. CASE FreezeWriteMemory(h)
  <2>1. mem' \in MemRecord
    BY <1>1, ConstantsAssumption
    DEF FreezeWriteMemory, MemoryToWrite, NewMemVersion, MemRecord, Actor
  <2>2. QED
    BY <1>1, <2>1, ConstantsAssumption DEF FreezeWriteMemory, BeginCall
<1>2. CASE FreezeMemoryRejected(h)
  BY <1>2, ConstantsAssumption DEF FreezeMemoryRejected, BeginCall
<1>3. CASE FreezeWriteState(h)
  <2>1. state' \in StateRecord
    BY <1>3 DEF FreezeWriteState, StateToWrite, NewMemVersion, StateRecord, Actor
  <2>2. QED
    BY <1>3, <2>1 DEF FreezeWriteState
<1>4. CASE FreezeStateRejected(h)
  BY <1>4 DEF FreezeStateRejected
<1>5. CASE FreezeWriteCheckpoint(h)
  <2>1. CheckpointToWrite(h) \in Checkpoint
    BY ConstantsAssumption
    DEF CheckpointToWrite, NewMemVersion, Clock, Checkpoint, Actor
  <2>2. QED
    BY <1>5, <2>1, NoActorType DEF FreezeWriteCheckpoint, Release
<1>6. CASE FreezeCheckpointFailed(h)
  BY <1>6, NoActorType DEF FreezeCheckpointFailed, Release
<1>7. QED
  BY <1>1, <1>2, <1>3, <1>4, <1>5, <1>6 DEF Freeze

LEMMA EnvironmentType ==
    ASSUME TypeOK, \/ \E h \in Host : Crash(h)
                   \/ Tick
                   \/ ExpireMem
    PROVE  TypeOK'
<1> USE DEF TypeOK
<1>1. CASE \E h \in Host : Crash(h)
  BY <1>1, NoActorType DEF Crash, Release, Goto, Phase
<1>2. CASE Tick
  BY <1>2, ConstantsAssumption DEF Tick
<1>3. CASE ExpireMem
  BY <1>3 DEF ExpireMem, MemRecord
<1>4. QED
  BY <1>1, <1>2, <1>3

LEMMA NextType == TypeOK /\ [Next]_vars => TypeOK'
<1>1. ASSUME TypeOK, UNCHANGED vars PROVE TypeOK'
  BY <1>1 DEF TypeOK, vars
<1>2. QED
  BY <1>1, HydrateType, OwnType, FreezeType, EnvironmentType DEF Next

(* Every variable stays in its type: in particular versions and ETags are  *)
(* natural numbers and a host has a copy only of turns that were given out. *)
THEOREM TypeCorrect == Spec => []TypeOK
  BY InitType, NextType, PTL DEF Spec
------------------------------------------------------------------------------
(* Safety *)

LEMMA InitSafety == Init => SafetyInv
<1> SUFFICES ASSUME Init PROVE SafetyInv
  OBVIOUS
<1>1. TypeOK
  BY InitType
<1>2. DurablePairMatches /\ MemoryNeverBehind /\ CheckpointsAreCommitted
  BY DEF Init, DurablePairMatches, MemoryNeverBehind, CheckpointsAreCommitted
<1>3. OnePending
  BY DEF Init, OnePending
<1>4. \A h \in Host : HostInv(h)
  BY DEF Init, HostInv, StateCopy, StateCopyUnedited, Snapshot, MemCopy, Pending,
         Committed, Holds, Loaded
<1>5. QED
  BY <1>1, <1>2, <1>3, <1>4 DEF SafetyInv

(* What a host knows of the records stays true while neither it nor they   *)
(* change.                                                                 *)
LEMMA HostFrame ==
    ASSUME NEW g \in Host, HostInv(g), UNCHANGED <<state, mem>>,
           pc'[g] = pc[g], actor'[g] = actor[g]
    PROVE  HostInv(g)'
  BY DEF HostInv, StateCopy, StateCopyUnedited, Snapshot, MemCopy, Pending, Committed,
         Holds

(* A step that writes nothing to the store has only its own host to answer *)
(* for.                                                                    *)
LEMMA NoWrite ==
    ASSUME SafetyInv, TypeOK', NEW h \in Host,
           UNCHANGED <<state, mem, ckpts>>,
           \A g \in Host \ {h} : pc'[g] = pc[g] /\ actor'[g] = actor[g],
           pc'[h] = "write_state" => pc[h] = "write_state",
           HostInv(h)'
    PROVE  SafetyInv'
<1>1. (DurablePairMatches /\ MemoryNeverBehind /\ CheckpointsAreCommitted)'
  BY DEF SafetyInv, DurablePairMatches, MemoryNeverBehind, CheckpointsAreCommitted
<1>2. OnePending'
  BY DEF SafetyInv, OnePending
<1>3. \A g \in Host : HostInv(g)'
  BY HostFrame DEF SafetyInv
<1>4. QED
  BY <1>1, <1>2, <1>3 DEF SafetyInv

(* A host that lets go of its copy, or panics, has nothing to answer for.  *)
LEMMA LetGo ==
    ASSUME SafetyInv, TypeOK', NEW h \in Host,
           UNCHANGED <<state, mem, ckpts>>,
           \A g \in Host \ {h} : pc'[g] = pc[g] /\ actor'[g] = actor[g],
           pc'[h] \in {"idle", "panicked"}
    PROVE  SafetyInv'
<1>1. HostInv(h)'
  BY DEF HostInv, StateCopy, StateCopyUnedited, Snapshot, MemCopy, Pending,
         Committed, Holds, Loaded
<1>2. QED
  BY <1>1, NoWrite

LEMMA ReleaseFrame ==
    ASSUME TypeOK, NEW h \in Host, Release(h)
    PROVE  /\ pc'[h] = "idle"
           /\ \A g \in Host \ {h} : pc'[g] = pc[g] /\ actor'[g] = actor[g]
  BY DEF TypeOK, Release, Goto

LEMMA HydrateSafety ==
    ASSUME SafetyInv, NEW h \in Host, Hydrate(h)
    PROVE  SafetyInv'
<1> TypeOK /\ TypeOK'
  BY HydrateType DEF SafetyInv
<1>1. CASE HydrateRefused(h)
  BY <1>1, NoWrite, HostFrame DEF SafetyInv, HydrateRefused
<1>2. CASE HydrateReadState(h)
  <2>1. /\ pc'[h] = "read_mem"
        /\ \A g \in Host \ {h} : pc'[g] = pc[g] /\ actor'[g] = actor[g]
        /\ UNCHANGED <<state, mem, ckpts>>
    BY <1>2 DEF TypeOK, HydrateReadState, Goto
  <2>2. /\ actor'[h].state_etag = state.etag
        /\ actor'[h].working_memory_version = state.working_memory_version
        /\ actor'[h].state_turns = state.turns
    BY <1>2 DEF TypeOK, HydrateReadState, NoActor
  <2>3. HostInv(h)'
    BY <2>1, <2>2
    DEF HostInv, StateCopy, StateCopyUnedited, Snapshot, MemCopy, Pending,
        Committed, Holds, Loaded, TypeOK, StateRecord
  <2>4. QED
    BY <2>1, <2>3, NoWrite
<1>3. CASE HydrateReadMem(h)
  <2>1. /\ pc[h] = "read_mem" /\ pc'[h] = "hydrated"
        /\ \A g \in Host \ {h} : pc'[g] = pc[g] /\ actor'[g] = actor[g]
        /\ UNCHANGED <<state, mem, ckpts>>
    BY <1>3 DEF TypeOK, HydrateReadMem, Goto
  <2>2. /\ actor'[h].memory_etag = mem.etag
        /\ actor'[h].version = mem.version
        /\ actor'[h].mem_turns = mem.turns
        /\ actor'[h].state_etag = actor[h].state_etag
        /\ actor'[h].working_memory_version = actor[h].working_memory_version
        /\ actor'[h].state_turns = actor[h].state_turns
    BY <1>3 DEF TypeOK, HydrateReadMem, Actor
  <2>3. HostInv(h)
    BY DEF SafetyInv
  <2>4. mem.version = actor[h].working_memory_version
    BY <1>3 DEF HydrateReadMem, IsTorn
  (* The memory is never behind the state and the copy never ahead of it,  *)
  (* so all three have one version.                                        *)
  <2>5. state.working_memory_version = mem.version
    BY <2>1, <2>3, <2>4
    DEF SafetyInv, MemoryNeverBehind, HostInv, StateCopy, Holds, TypeOK,
        StateRecord, MemRecord, Actor
  <2>6. actor[h].state_turns = mem.turns
    BY <2>1, <2>3, <2>4, <2>5
    DEF SafetyInv, DurablePairMatches, HostInv, StateCopyUnedited
  <2>7. StateCopy(h)' /\ StateCopyUnedited(h)'
    BY <2>1, <2>2, <2>3 DEF HostInv, StateCopy, StateCopyUnedited, Holds
  <2>8. Snapshot(h)' /\ MemCopy(h)' /\ Pending(h)' /\ Committed(h)'
    BY <2>1, <2>2, <2>4, <2>5, <2>6
    DEF Snapshot, MemCopy, Pending, Committed, TypeOK, MemRecord
  <2>9. QED
    BY <2>1, <2>7, <2>8, NoWrite DEF HostInv
<1>4. CASE HydrateRecover(h)
  BY <1>4, LetGo DEF TypeOK, HydrateRecover, Goto
<1>5. CASE HydrateReadMemFailed(h)
  BY <1>5, LetGo, ReleaseFrame DEF HydrateReadMemFailed
<1>6. QED
  BY <1>1, <1>2, <1>3, <1>4, <1>5 DEF Hydrate

(* An activation that is recorded writes back what was read: nobody else's *)
(* copy is affected but for its ETag, which is no longer current.          *)
LEMMA MarkActiveSafety ==
    ASSUME SafetyInv, TypeOK', NEW h \in Host, MarkActive(h)
    PROVE  SafetyInv'
<1> USE DEF SafetyInv, TypeOK
<1>1. /\ pc[h] = "hydrated" /\ pc'[h] = "active"
      /\ \A g \in Host \ {h} : pc'[g] = pc[g] /\ actor'[g] = actor[g]
      /\ UNCHANGED <<mem, ckpts>>
  BY DEF MarkActive, Goto
<1>2. /\ actor[h].state_etag = state.etag
      /\ state'.etag = state.etag + 1
      /\ state'.working_memory_version = actor[h].working_memory_version
      /\ state'.turns = actor[h].state_turns
  BY DEF MarkActive, StateETagMatches
<1>3. /\ actor'[h].state_etag = state.etag + 1
      /\ actor'[h].memory_etag = actor[h].memory_etag
      /\ actor'[h].working_memory_version = actor[h].working_memory_version
      /\ actor'[h].version = actor[h].version
      /\ actor'[h].state_turns = actor[h].state_turns
      /\ actor'[h].mem_turns = actor[h].mem_turns
  BY DEF MarkActive, Actor
<1>4. HostInv(h)
  OBVIOUS
<1>5. /\ state'.working_memory_version = state.working_memory_version
      /\ state'.turns = state.turns
  BY <1>1, <1>2, <1>4 DEF HostInv, StateCopy, StateCopyUnedited, Holds
<1>6. (DurablePairMatches /\ MemoryNeverBehind /\ CheckpointsAreCommitted)'
  BY <1>1, <1>5
  DEF DurablePairMatches, MemoryNeverBehind, CheckpointsAreCommitted
<1>7. OnePending'
  BY <1>1 DEF OnePending
<1>8. ASSUME NEW g \in Host \ {h} PROVE HostInv(g)'
  <2>1. HostInv(g) /\ pc'[g] = pc[g] /\ actor'[g] = actor[g]
    BY <1>1
  <2>2. StateCopy(g)'
    BY <2>1, <1>2, <1>5 DEF HostInv, StateCopy, Holds, StateRecord, Actor
  <2>3. (StateCopyUnedited(g) /\ Snapshot(g) /\ MemCopy(g) /\ Pending(g)
          /\ Committed(g))'
    BY <2>1, <1>1, <1>5
    DEF HostInv, StateCopyUnedited, Snapshot, MemCopy, Pending, Committed
  <2>4. QED
    BY <2>2, <2>3 DEF HostInv
<1>9. HostInv(h)'
  <2>1. StateCopy(h)' /\ StateCopyUnedited(h)'
    BY <1>1, <1>2, <1>3, <1>5
    DEF StateCopy, StateCopyUnedited, StateRecord, Actor
  <2>2. Snapshot(h)' /\ MemCopy(h)'
    BY <1>1, <1>3, <1>4, <1>5 DEF HostInv, Snapshot, MemCopy, Loaded
  <2>3. Pending(h)' /\ Committed(h)'
    BY <1>1 DEF Pending, Committed
  <2>4. QED
    BY <2>1, <2>2, <2>3 DEF HostInv
<1>10. QED
  BY <1>6, <1>7, <1>8, <1>9

LEMMA OwnSafety ==
    ASSUME ~RefreshesETags, SafetyInv, NEW h \in Host, Own(h)
    PROVE  SafetyInv'
<1> TypeOK /\ TypeOK'
  BY OwnType DEF SafetyInv
<1>1. CASE Unwind(h)
  BY <1>1, LetGo, ReleaseFrame DEF Unwind
<1>2. CASE MarkActive(h)
  BY <1>2, MarkActiveSafety
<1>3. CASE MarkActiveRejected(h)
  BY <1>3, LetGo, ReleaseFrame DEF MarkActiveRejected
<1>4. CASE StartUnmarked(h)
  <2>1. /\ pc[h] = "hydrated" /\ pc'[h] = "active"
        /\ \A g \in Host \ {h} : pc'[g] = pc[g]
        /\ UNCHANGED <<state, mem, ckpts, actor>>
    BY <1>4 DEF TypeOK, StartUnmarked, Goto
  <2>2. HostInv(h)'
    BY <2>1
    DEF SafetyInv, HostInv, StateCopy, StateCopyUnedited, Snapshot, MemCopy, Pending,
        Committed, Holds, Loaded
  <2>3. QED
    BY <2>1, <2>2, NoWrite
<1>5. CASE RefreshETags(h)
  BY <1>5 DEF RefreshETags
<1>6. CASE RunTask(h)
  <2>1. /\ pc[h] = "active" /\ pc' = pc
        /\ \A g \in Host \ {h} : actor'[g] = actor[g]
        /\ UNCHANGED <<state, mem, ckpts>>
    BY <1>6 DEF TypeOK, RunTask
  <2>2. /\ actor'[h].state_etag = actor[h].state_etag
        /\ actor'[h].memory_etag = actor[h].memory_etag
        /\ actor'[h].working_memory_version = actor[h].working_memory_version
        /\ actor'[h].version = actor[h].version
        /\ actor'[h].state_turns = actor[h].state_turns \cup {turn + 1}
        /\ actor'[h].mem_turns = actor[h].mem_turns \cup {turn + 1}
    BY <1>6 DEF TypeOK, RunTask, Actor
  <2>3. HostInv(h)'
    BY <2>1, <2>2
    DEF SafetyInv, HostInv, StateCopy, StateCopyUnedited, Snapshot, MemCopy, Pending,
        Committed, Holds, Loaded
  <2>4. QED
    BY <2>1, <2>3, NoWrite
<1>7. QED
  BY <1>1, <1>2, <1>3, <1>4, <1>5, <1>6 DEF Own

(* Step 2 of freeze.  The writer's memory ETag was current, so no freeze   *)
(* was pending and this one becomes the only one; every other copy of the  *)
(* memory is out of date from here on.                                     *)
LEMMA FreezeWriteMemorySafety ==
    ASSUME SafetyInv, TypeOK', NEW h \in Host, FreezeWriteMemory(h)
    PROVE  SafetyInv'
<1> USE DEF SafetyInv, TypeOK
<1>1. /\ pc[h] = "active"
      /\ pc'[h] \in {"write_state", "active"}
      /\ \A g \in Host \ {h} : pc'[g] = pc[g]
      /\ UNCHANGED <<state, ckpts, actor>>
  BY DEF FreezeWriteMemory, Goto
<1>2. /\ actor[h].memory_etag = mem.etag
      /\ mem'.etag = mem.etag + 1
      /\ mem'.version = actor[h].version + 1
      /\ mem'.turns = actor[h].mem_turns
  BY DEF FreezeWriteMemory, MemETagMatches, MemoryToWrite, NewMemVersion
<1>3. HostInv(h)
  OBVIOUS
<1>4. mem.version = actor[h].version /\ state.working_memory_version = actor[h].version
  BY <1>1, <1>2, <1>3 DEF HostInv, MemCopy
<1>5. actor[h].version \in Nat
  BY DEF Actor
<1>6. \A g \in Host : pc[g] # "write_state"
  BY <1>4, <1>5 DEF HostInv, Pending
<1>7. (DurablePairMatches /\ MemoryNeverBehind /\ CheckpointsAreCommitted)'
  BY <1>1, <1>2, <1>4, <1>5
  DEF DurablePairMatches, MemoryNeverBehind, CheckpointsAreCommitted
<1>8. OnePending'
  BY <1>1, <1>6 DEF OnePending
<1>9. ASSUME NEW g \in Host PROVE HostInv(g)'
  <2>1. HostInv(g) /\ actor'[g] = actor[g]
    BY <1>1
  <2>2. (StateCopy(g) /\ StateCopyUnedited(g) /\ Snapshot(g) /\ Committed(g))'
    BY <2>1, <1>1
    DEF HostInv, StateCopy, StateCopyUnedited, Snapshot, Committed, Holds, Loaded
  <2>3. MemCopy(g)'
    BY <2>1, <1>1, <1>2 DEF HostInv, MemCopy, MemRecord, Actor
  <2>4. Pending(g)'
    BY <2>1, <1>1, <1>2, <1>4, <1>6 DEF Pending, MemRecord
  <2>5. QED
    BY <2>2, <2>3, <2>4 DEF HostInv
<1>10. QED
  BY <1>7, <1>8, <1>9

(* Step 5 of freeze.  The memory is the writer's, so the pair matches; no  *)
(* other freeze is pending, and no other copy is of the new version.       *)
LEMMA FreezeWriteStateSafety ==
    ASSUME SafetyInv, TypeOK', NEW h \in Host, FreezeWriteState(h)
    PROVE  SafetyInv'
<1> USE DEF SafetyInv, TypeOK
<1>1. /\ pc[h] = "write_state"
      /\ pc'[h] \in {"write_ckpt", "active"}
      /\ \A g \in Host \ {h} : pc'[g] = pc[g]
      /\ UNCHANGED <<mem, ckpts, actor>>
  BY DEF FreezeWriteState, Goto
<1>2. /\ actor[h].state_etag = state.etag
      /\ state'.etag = state.etag + 1
      /\ state'.working_memory_version = actor[h].version + 1
      /\ state'.turns = actor[h].state_turns
  BY DEF FreezeWriteState, StateETagMatches, StateToWrite, NewMemVersion
<1>3. HostInv(h)
  OBVIOUS
<1>4. /\ mem.version = actor[h].version + 1
      /\ state.working_memory_version = actor[h].version
      /\ mem.turns = actor[h].mem_turns
      /\ actor[h].state_turns = actor[h].mem_turns
      /\ actor[h].working_memory_version = actor[h].version
  BY <1>1, <1>3 DEF HostInv, Pending, Snapshot, Loaded
<1>5. state.turns \subseteq actor[h].state_turns
  BY <1>1, <1>3, <1>4 DEF HostInv, StateCopy, Holds
<1>6. actor[h].version \in Nat /\ state.etag \in Nat
  BY DEF Actor, StateRecord
<1>7. \A g \in Host \ {h} : pc[g] # "write_state"
  BY <1>1 DEF OnePending
<1>8. (DurablePairMatches /\ MemoryNeverBehind)'
  BY <1>1, <1>2, <1>4, <1>6 DEF DurablePairMatches, MemoryNeverBehind
<1>9. CheckpointsAreCommitted'
  BY <1>1, <1>2, <1>4, <1>5, <1>6 DEF CheckpointsAreCommitted, Checkpoint
<1>10. OnePending'
  BY <1>1, <1>7 DEF OnePending
<1>11. ASSUME NEW g \in Host PROVE HostInv(g)'
  <2>1. HostInv(g) /\ actor'[g] = actor[g]
    BY <1>1
  <2>2. /\ actor[g].state_etag \in Nat
        /\ actor[g].working_memory_version \in Nat
        /\ actor[g].version \in Nat
    BY DEF Actor
  <2>3. Holds(g)' => Holds(g)
    BY <1>1 DEF Holds
  <2>4. StateCopy(g)' /\ StateCopyUnedited(g)'
    BY <2>1, <2>2, <2>3, <1>1, <1>2, <1>4, <1>6
    DEF HostInv, StateCopy, StateCopyUnedited, Holds
  <2>5. Snapshot(g)'
    BY <2>1, <1>1 DEF HostInv, Snapshot, Loaded
  (* A current memory ETag belongs to a copy made when no freeze was       *)
  (* pending: there is none.                                               *)
  <2>6. MemCopy(g)'
    <3>1. CASE g # h
      BY <3>1, <2>1, <2>2, <1>1, <1>4, <1>6 DEF HostInv, MemCopy
    <3>2. CASE g = h
      BY <3>2, <2>1, <1>1 DEF HostInv, Pending, MemCopy, Actor, MemRecord
    <3>3. QED
      BY <3>1, <3>2
  <2>7. Pending(g)'
    BY <1>1, <1>7 DEF Pending
  <2>8. Committed(g)'
    BY <2>1, <2>2, <1>1, <1>2, <1>4, <1>5, <1>6 DEF HostInv, Committed
  <2>9. QED
    BY <2>4, <2>5, <2>6, <2>7, <2>8 DEF HostInv
<1>12. QED
  BY <1>8, <1>9, <1>10, <1>11

LEMMA FreezeSafety ==
    ASSUME SafetyInv, NEW h \in Host, Freeze(h)
    PROVE  SafetyInv'
<1> TypeOK /\ TypeOK'
  BY FreezeType DEF SafetyInv
<1>1. CASE FreezeWriteMemory(h)
  BY <1>1, FreezeWriteMemorySafety
<1>2. CASE FreezeMemoryRejected(h)
  BY <1>2, NoWrite, HostFrame DEF SafetyInv, FreezeMemoryRejected
<1>3. CASE FreezeWriteState(h)
  BY <1>3, FreezeWriteStateSafety
<1>4. CASE FreezeStateRejected(h)
  <2>1. /\ pc[h] = "write_state" /\ pc'[h] = "active"
        /\ \A g \in Host \ {h} : pc'[g] = pc[g]
        /\ UNCHANGED <<state, mem, ckpts, actor>>
    BY <1>4 DEF TypeOK, FreezeStateRejected, Goto
  <2>2. HostInv(h)
    BY DEF SafetyInv
  <2>3. (StateCopy(h) /\ StateCopyUnedited(h) /\ Snapshot(h) /\ Pending(h)
          /\ Committed(h))'
    BY <2>1, <2>2
    DEF HostInv, StateCopy, StateCopyUnedited, Snapshot, Pending, Committed,
        Holds, Loaded
  <2>4. MemCopy(h)'
    BY <2>1, <2>2 DEF HostInv, Pending, MemCopy, TypeOK, Actor, MemRecord
  <2>5. QED
    BY <2>1, <2>3, <2>4, NoWrite DEF HostInv
<1>5. CASE FreezeWriteCheckpoint(h)
  <2>1. /\ pc[h] = "write_ckpt" /\ pc'[h] = "idle"
        /\ \A g \in Host \ {h} : pc'[g] = pc[g] /\ actor'[g] = actor[g]
        /\ UNCHANGED <<state, mem>>
        /\ \A c \in ckpts' : c \in ckpts \/ c = CheckpointToWrite(h)
    BY <1>5, ReleaseFrame DEF FreezeWriteCheckpoint
  <2>2. /\ CheckpointToWrite(h).version = actor[h].version + 1
        /\ CheckpointToWrite(h).state_turns = actor[h].state_turns
        /\ CheckpointToWrite(h).mem_turns = actor[h].mem_turns
    BY DEF CheckpointToWrite, NewMemVersion
  <2>3. CheckpointsAreCommitted'
    BY <2>1, <2>2
    DEF SafetyInv, CheckpointsAreCommitted, HostInv, Committed, Snapshot, Loaded
  <2>4. (DurablePairMatches /\ MemoryNeverBehind /\ OnePending)'
    BY <2>1 DEF SafetyInv, DurablePairMatches, MemoryNeverBehind, OnePending
  <2>5. HostInv(h)'
    BY <2>1 DEF HostInv, StateCopy, StateCopyUnedited, Snapshot, MemCopy, Pending,
                Committed, Holds, Loaded
  <2>6. \A g \in Host : HostInv(g)'
    BY <2>1, <2>5, HostFrame DEF SafetyInv
  <2>7. QED
    BY <2>3, <2>4, <2>6 DEF SafetyInv
<1>6. CASE FreezeCheckpointFailed(h)
  BY <1>6, LetGo, ReleaseFrame DEF FreezeCheckpointFailed
<1>7. QED
  BY <1>1, <1>2, <1>3, <1>4, <1>5, <1>6 DEF Freeze

LEMMA EnvironmentSafety ==
    ASSUME SafetyInv, \/ \E h \in Host : Crash(h)
                      \/ Tick
                      \/ ExpireMem
    PROVE  SafetyInv'
<1> TypeOK /\ TypeOK'
  BY EnvironmentType DEF SafetyInv
<1>1. CASE \E h \in Host : Crash(h)
  BY <1>1, LetGo, ReleaseFrame DEF Crash
<1>2. CASE Tick
  BY <1>2, HostFrame
  DEF Tick, SafetyInv, DurablePairMatches, MemoryNeverBehind,
      CheckpointsAreCommitted, OnePending
<1>3. CASE ExpireMem
  <2>1. /\ UNCHANGED <<state, ckpts, pc, actor>>
        /\ mem'.etag = mem.etag
        /\ mem'.version = mem.version
        /\ mem'.turns = mem.turns
    BY <1>3 DEF ExpireMem, TypeOK, MemRecord
  <2>2. QED
    BY <2>1
    DEF SafetyInv, DurablePairMatches, MemoryNeverBehind, CheckpointsAreCommitted,
        OnePending, HostInv, StateCopy, StateCopyUnedited, Snapshot, MemCopy, Pending,
        Committed, Holds
<1>4. QED
  BY <1>1, <1>2, <1>3

LEMMA NextSafety ==
    ASSUME ~RefreshesETags
    PROVE  SafetyInv /\ [Next]_vars => SafetyInv'
<1>1. ASSUME SafetyInv, UNCHANGED vars PROVE SafetyInv'
  <2>1. TypeOK'
    BY <1>1, NextType DEF SafetyInv
  <2>2. QED
    BY <1>1, <2>1, HostFrame
    DEF vars, SafetyInv, DurablePairMatches, MemoryNeverBehind,
        CheckpointsAreCommitted, OnePending
<1>2. QED
  BY <1>1, HydrateSafety, OwnSafety, FreezeSafety, EnvironmentSafety DEF Next

(* With the ETags of the hydration, the inductive invariant holds under    *)
(* every fault: crashes, failed calls, lost acknowledgements, expiry.      *)
THEOREM SafetyInvHolds ==
    ASSUME ~RefreshesETags
    PROVE  Spec => []SafetyInv
  BY InitSafety, NextSafety, PTL DEF Spec

(* A matching pair of versions is a pair written by one freeze, and what   *)
(* hydrate returns was written by one freeze: the check in hydrate.rs:118  *)
(* is sound.                                                               *)
THEOREM DurablePairHolds ==
    ASSUME ~RefreshesETags
    PROVE  Spec => [](DurablePairMatches /\ MemoryNeverBehind)
<1>1. SafetyInv => DurablePairMatches /\ MemoryNeverBehind
  BY DEF SafetyInv
<1>2. QED
  BY <1>1, SafetyInvHolds, PTL

THEOREM SnapshotHolds ==
    ASSUME ~RefreshesETags
    PROVE  Spec => []SnapshotFromOneFreeze
<1>1. SafetyInv => SnapshotFromOneFreeze
  BY DEF SafetyInv, HostInv, Snapshot, SnapshotFromOneFreeze
<1>2. QED
  BY <1>1, SafetyInvHolds, PTL

(* Whatever a checkpoint holds is durably in the state record.             *)
THEOREM CheckpointsHold ==
    ASSUME ~RefreshesETags
    PROVE  Spec => []CheckpointsAreCommitted
<1>1. SafetyInv => CheckpointsAreCommitted
  BY DEF SafetyInv
<1>2. QED
  BY <1>1, SafetyInvHolds, PTL
------------------------------------------------------------------------------
(* No lost update, and the refinement of VersionedRecord *)

LEMMA SafetyGuardsWrites == SafetyInv => GuardedWrites
  BY DEF SafetyInv, GuardedWrites, HostInv, StateCopy, StateCopyUnedited, Pending,
         StateETagMatches, Holds

LEMMA StateOnlyGrows ==
    ASSUME GuardedWrites, Next
    PROVE  state.turns \subseteq state'.turns
<1>1. ASSUME NEW h \in Host, MarkActive(h)
      PROVE  state.turns \subseteq state'.turns
  BY <1>1 DEF GuardedWrites, MarkActive
<1>2. ASSUME NEW h \in Host, FreezeWriteState(h)
      PROVE  state.turns \subseteq state'.turns
  BY <1>2 DEF GuardedWrites, FreezeWriteState, StateToWrite
<1>3. CASE UNCHANGED state
  BY <1>3
<1>4. QED
  BY <1>1, <1>2, <1>3
  DEF Next, Hydrate, Own, Freeze, HydrateRefused, HydrateReadState, HydrateReadMem,
      HydrateRecover, HydrateReadMemFailed, Unwind, MarkActiveRejected, StartUnmarked,
      RefreshETags, RunTask, FreezeWriteMemory, FreezeMemoryRejected,
      FreezeStateRejected, FreezeWriteCheckpoint, FreezeCheckpointFailed, Crash, Tick,
      ExpireMem

(* No write to the state record drops a turn it held, whatever the         *)
(* interleaving and the faults, as long as the ETags are the hydration's.  *)
THEOREM NoLostUpdateHolds ==
    ASSUME ~RefreshesETags
    PROVE  Spec => NoLostUpdate
<1>1. SafetyInv /\ [Next]_vars => [state.turns \subseteq state'.turns]_vars
  BY StateOnlyGrows, SafetyGuardsWrites
<1>2. QED
  BY <1>1, SafetyInvHolds, PTL DEF Spec, NoLostUpdate

------------------------------------------------------------------------------
(* What is lost stays lost *)

LEMMA LostStaysLost ==
    ASSUME SafetyInv, ~RefreshesETags, Lost, Next
    PROVE  /\ Lost'
           /\ \A h \in Host : pc[h] = "read_mem" => pc'[h] # "hydrated"
<1> USE DEF SafetyInv, HostInv
<1>t. TypeOK
  OBVIOUS
<1>1. ASSUME NEW h \in Host, FreezeWriteMemory(h) PROVE FALSE
  <2>1. mem.live /\ mem.version = state.working_memory_version
    BY <1>1 DEF FreezeWriteMemory, MemETagMatches, MemCopy
  <2>2. QED
    BY <2>1 DEF Lost
<1>2. ASSUME NEW h \in Host, HydrateReadMem(h) PROVE FALSE
  <2>1. mem.live /\ mem.version = actor[h].working_memory_version
    BY <1>2 DEF HydrateReadMem, IsTorn
  <2>2. actor[h].working_memory_version <= state.working_memory_version
    BY <1>2 DEF HydrateReadMem, StateCopy, Holds
  <2>3. mem.version = state.working_memory_version + 1
    BY <2>1 DEF Lost, MemoryNeverBehind
  <2>4. state.working_memory_version \in Nat
    BY <1>t DEF TypeOK, StateRecord
  <2>5. QED
    BY <2>1, <2>2, <2>3, <2>4
<1>3. ASSUME NEW h \in Host, FreezeWriteState(h)
      PROVE  Lost' /\ \A g \in Host : pc[g] = "read_mem" => pc'[g] # "hydrated"
  <2>1. AwaitsState(h) /\ UNCHANGED mem
    BY <1>3 DEF FreezeWriteState, AwaitsState
  <2>2. QED
    BY <1>3, <1>t, <2>1 DEF Lost, FreezeWriteState, Goto, TypeOK
<1>4. ASSUME NEW h \in Host, MarkActive(h)
      PROVE  Lost' /\ \A g \in Host : pc[g] = "read_mem" => pc'[g] # "hydrated"
  <2>1. /\ UNCHANGED mem
        /\ state'.working_memory_version = state.working_memory_version
        /\ state'.etag = state.etag + 1
    BY <1>4 DEF MarkActive, StateETagMatches, StateCopy, Holds
  <2>2. ASSUME NEW g \in Host, AwaitsState(g)' PROVE FALSE
    <3>1. g # h /\ pc[g] = "write_state" /\ actor'[g] = actor[g]
      BY <1>4, <1>t, <2>2 DEF MarkActive, Goto, AwaitsState, TypeOK
    <3>2. actor[g].state_etag <= state.etag
      BY <3>1 DEF StateCopy, Holds
    <3>3. actor[g].state_etag = state.etag + 1
      BY <2>1, <2>2, <3>1 DEF AwaitsState, StateETagMatches
    <3>4. state.etag \in Nat
      BY <1>t DEF TypeOK, StateRecord
    <3>5. QED
      BY <3>2, <3>3, <3>4
  <2>3. QED
    BY <1>4, <1>t, <2>1, <2>2 DEF Lost, MarkActive, Goto, TypeOK
<1>5. ASSUME UNCHANGED state, UNCHANGED <<mem.version>>, mem'.live => mem.live,
             \A g \in Host : /\ pc'[g] = "write_state" =>
                                   pc[g] = "write_state" /\ actor'[g] = actor[g]
                             /\ pc[g] = "read_mem" => pc'[g] # "hydrated"
      PROVE  Lost' /\ \A g \in Host : pc[g] = "read_mem" => pc'[g] # "hydrated"
  BY <1>5 DEF Lost, AwaitsState, StateETagMatches
<1> USE <1>t DEF TypeOK, Goto, Release
<1>6. ASSUME NEW h \in Host, Hydrate(h)
      PROVE  Lost' /\ \A g \in Host : pc[g] = "read_mem" => pc'[g] # "hydrated"
  BY <1>2, <1>5, <1>6
  DEF Hydrate, HydrateRefused, HydrateReadState, HydrateRecover, HydrateReadMemFailed
<1>7. ASSUME NEW h \in Host, Own(h)
      PROVE  Lost' /\ \A g \in Host : pc[g] = "read_mem" => pc'[g] # "hydrated"
  BY <1>4, <1>5, <1>7
  DEF Own, Unwind, MarkActiveRejected, StartUnmarked, RefreshETags, RunTask
<1>8. ASSUME NEW h \in Host, Freeze(h)
      PROVE  Lost' /\ \A g \in Host : pc[g] = "read_mem" => pc'[g] # "hydrated"
  BY <1>1, <1>3, <1>5, <1>8
  DEF Freeze, FreezeMemoryRejected, FreezeStateRejected, FreezeWriteCheckpoint,
      FreezeCheckpointFailed
<1>9. ASSUME NEW h \in Host, Crash(h)
      PROVE  Lost' /\ \A g \in Host : pc[g] = "read_mem" => pc'[g] # "hydrated"
  BY <1>5, <1>9 DEF Crash
<1>10. ASSUME Tick
      PROVE  Lost' /\ \A g \in Host : pc[g] = "read_mem" => pc'[g] # "hydrated"
  BY <1>5, <1>10 DEF Tick
<1>11. ASSUME ExpireMem
      PROVE  Lost' /\ \A g \in Host : pc[g] = "read_mem" => pc'[g] # "hydrated"
  <2>1. mem'.version = mem.version /\ ~mem'.live
    BY <1>11, <1>t DEF ExpireMem, MemRecord
  <2>2. QED
    BY <1>5, <1>11, <2>1 DEF ExpireMem
<1>12. QED
  BY <1>6, <1>7, <1>8, <1>9, <1>10, <1>11 DEF Next

(* A torn pair without a writer, or an expired memory, is never completed, *)
(* replaced or hydrated, by any number of hosts, while freezes use the     *)
(* ETags of their hydration.                                               *)
THEOREM LostForGoodHolds ==
    ASSUME ~RefreshesETags
    PROVE  Spec => LostForGood
<1>1. SafetyInv /\ [Next]_vars
        => [Lost => /\ Lost'
                    /\ \A h \in Host : pc[h] = "read_mem" => pc'[h] # "hydrated"]_vars
  BY LostStaysLost
<1>2. QED
  BY <1>1, SafetyInvHolds, PTL DEF Spec, LostForGood

LEMMA InitRefines == Init => Abstract!Init
  BY DEF Init, Abstract!Init, Abstract!NoBase, CopiedVersion, CopiedTurns, Holds

(* A step that leaves the content of the state and every copy of it alone  *)
(* is invisible.                                                           *)
LEMMA Invisible ==
    ASSUME state'.working_memory_version = state.working_memory_version,
           state'.turns = state.turns,
           \A g \in Host : /\ Holds(g)' <=> Holds(g)
                           /\ Holds(g) =>
                                 /\ actor'[g].working_memory_version
                                      = actor[g].working_memory_version
                                 /\ actor'[g].state_turns = actor[g].state_turns
    PROVE  UNCHANGED Abstract!vars
  BY DEF Abstract!vars, CopiedVersion, CopiedTurns

(* Whoever loses its copy without having written the state aborts.         *)
LEMMA LosingCopyAborts ==
    ASSUME TypeOK, NEW h \in Host, UNCHANGED state, ~Holds(h)',
           \A g \in Host \ {h} : pc'[g] = pc[g] /\ actor'[g] = actor[g]
    PROVE  Abstract!Abort(h) \/ UNCHANGED Abstract!vars
<1>1. \A g \in Host \ {h} : Holds(g)' <=> Holds(g)
  BY DEF Holds
<1>2. CASE ~Holds(h)
  BY <1>1, <1>2, Invisible
<1>3. CASE Holds(h)
  <2>1. CopiedVersion[h] # -1
    BY <1>3 DEF CopiedVersion, TypeOK, Actor
  <2>2. CopiedVersion' = [CopiedVersion EXCEPT ![h] = -1]
    BY <1>1 DEF CopiedVersion
  <2>3. CopiedTurns' = [CopiedTurns EXCEPT ![h] = {}]
    BY <1>1 DEF CopiedTurns
  <2>4. QED
    BY <2>1, <2>2, <2>3 DEF Abstract!Abort, Abstract!Drop, Abstract!NoBase
<1>4. QED
  BY <1>2, <1>3

LEMMA HydrateRefines ==
    ASSUME GuardedWrites, NEW h \in Host, Hydrate(h)
    PROVE  Abstract!Next \/ UNCHANGED Abstract!vars
<1> USE DEF GuardedWrites, TypeOK
<1>1. CASE HydrateRefused(h)
  BY <1>1, Invisible DEF HydrateRefused, Holds
<1>2. CASE HydrateReadState(h)
  <2>1. /\ pc[h] = "idle" /\ pc'[h] = "read_mem"
        /\ \A g \in Host \ {h} : pc'[g] = pc[g] /\ actor'[g] = actor[g]
        /\ state' = state
        /\ actor'[h].working_memory_version = state.working_memory_version
        /\ actor'[h].state_turns = state.turns
    BY <1>2 DEF HydrateReadState, Goto, NoActor
  <2>2. /\ ~Holds(h) /\ Holds(h)'
        /\ \A g \in Host \ {h} : Holds(g)' <=> Holds(g)
    BY <2>1 DEF Holds
  <2>3. CopiedVersion[h] = -1
    BY <2>2 DEF CopiedVersion
  <2>4. CopiedVersion' = [CopiedVersion EXCEPT ![h] = state.working_memory_version]
    BY <2>1, <2>2 DEF CopiedVersion
  <2>5. CopiedTurns' = [CopiedTurns EXCEPT ![h] = state.turns]
    BY <2>1, <2>2 DEF CopiedTurns
  <2>6. Abstract!Begin(h)
    BY <2>1, <2>3, <2>4, <2>5 DEF Abstract!Begin, Abstract!NoBase
  <2>7. QED
    BY <2>6 DEF Abstract!Next
<1>3. CASE HydrateReadMem(h)
  <2>1. /\ pc[h] = "read_mem" /\ pc'[h] = "hydrated"
        /\ \A g \in Host \ {h} : pc'[g] = pc[g] /\ actor'[g] = actor[g]
        /\ state' = state
        /\ actor'[h].working_memory_version = actor[h].working_memory_version
        /\ actor'[h].state_turns = actor[h].state_turns
    BY <1>3 DEF HydrateReadMem, Goto, Actor
  <2>2. QED
    BY <2>1, Invisible DEF Holds
<1>4. CASE HydrateRecover(h)
  <2>1. /\ pc'[h] = "panicked" /\ state' = state
        /\ \A g \in Host \ {h} : pc'[g] = pc[g] /\ actor'[g] = actor[g]
    BY <1>4 DEF HydrateRecover, Goto
  <2>2. QED
    BY <2>1, LosingCopyAborts DEF Abstract!Next, Holds
<1>5. CASE HydrateReadMemFailed(h)
  BY <1>5, ReleaseFrame, LosingCopyAborts DEF HydrateReadMemFailed, Abstract!Next, Holds
<1>6. QED
  BY <1>1, <1>2, <1>3, <1>4, <1>5 DEF Hydrate

LEMMA OwnRefines ==
    ASSUME GuardedWrites, NEW h \in Host, Own(h)
    PROVE  Abstract!Next \/ UNCHANGED Abstract!vars
<1> USE DEF GuardedWrites, TypeOK
<1>1. CASE Unwind(h)
  BY <1>1, ReleaseFrame, LosingCopyAborts DEF Unwind, Abstract!Next, Holds
(* Recording an activation rewrites what the record already holds.         *)
<1>2. CASE MarkActive(h)
  <2>1. /\ pc[h] = "hydrated" /\ pc'[h] = "active"
        /\ \A g \in Host \ {h} : pc'[g] = pc[g] /\ actor'[g] = actor[g]
        /\ actor[h].state_etag = state.etag
        /\ state'.working_memory_version = actor[h].working_memory_version
        /\ state'.turns = actor[h].state_turns
        /\ actor'[h].working_memory_version = actor[h].working_memory_version
        /\ actor'[h].state_turns = actor[h].state_turns
    BY <1>2 DEF MarkActive, Goto, StateETagMatches, Actor
  <2>2. /\ state'.working_memory_version = state.working_memory_version
        /\ state'.turns = state.turns
    BY <2>1 DEF StateETagMatches
  <2>3. QED
    BY <2>1, <2>2, Invisible DEF Holds
<1>3. CASE MarkActiveRejected(h)
  BY <1>3, ReleaseFrame, LosingCopyAborts DEF MarkActiveRejected, Abstract!Next, Holds
<1>4. CASE StartUnmarked(h)
  <2>1. /\ pc[h] = "hydrated" /\ pc'[h] = "active"
        /\ \A g \in Host \ {h} : pc'[g] = pc[g]
        /\ state' = state /\ actor' = actor
    BY <1>4 DEF StartUnmarked, Goto
  <2>2. QED
    BY <2>1, Invisible DEF Holds
<1>5. CASE RefreshETags(h)
  <2>1. /\ pc' = pc /\ state' = state
        /\ \A g \in Host \ {h} : actor'[g] = actor[g]
        /\ actor'[h].working_memory_version = actor[h].working_memory_version
        /\ actor'[h].state_turns = actor[h].state_turns
    BY <1>5 DEF RefreshETags, Actor
  <2>2. QED
    BY <2>1, Invisible DEF Holds
<1>6. CASE RunTask(h)
  <2>1. /\ pc[h] = "active" /\ pc' = pc /\ state' = state
        /\ \A g \in Host \ {h} : actor'[g] = actor[g]
        /\ actor'[h].working_memory_version = actor[h].working_memory_version
        /\ actor'[h].state_turns = actor[h].state_turns \cup {turn + 1}
    BY <1>6 DEF RunTask, Actor
  <2>2. Holds(h) /\ \A g \in Host : Holds(g)' <=> Holds(g)
    BY <2>1 DEF Holds
  <2>3. CopiedVersion[h] # -1 /\ CopiedVersion' = CopiedVersion
    BY <2>1, <2>2 DEF CopiedVersion, Actor
  <2>4. CopiedTurns' = [CopiedTurns EXCEPT ![h] = @ \cup {turn + 1}]
    BY <2>1, <2>2 DEF CopiedTurns
  <2>5. turn + 1 \in Turn
    BY <1>6, ConstantsAssumption DEF RunTask, Turn
  <2>6. Abstract!Edit(h)
    BY <2>1, <2>3, <2>4, <2>5 DEF Abstract!Edit, Abstract!NoBase
  <2>7. QED
    BY <2>6 DEF Abstract!Next
<1>7. QED
  BY <1>1, <1>2, <1>3, <1>4, <1>5, <1>6 DEF Own

LEMMA FreezeRefines ==
    ASSUME GuardedWrites, NEW h \in Host, Freeze(h)
    PROVE  Abstract!Next \/ UNCHANGED Abstract!vars
<1> USE DEF GuardedWrites, TypeOK
<1>1. CASE FreezeWriteMemory(h)
  BY <1>1, Invisible DEF FreezeWriteMemory, Goto, Holds
<1>2. CASE FreezeMemoryRejected(h)
  BY <1>2, Invisible DEF FreezeMemoryRejected, Holds
(* The commit.  A lost acknowledgement leaves the writer with its copy.    *)
<1>3. CASE FreezeWriteState(h)
  <2>1. /\ pc[h] = "write_state"
        /\ pc'[h] \in {"write_ckpt", "active"}
        /\ \A g \in Host \ {h} : pc'[g] = pc[g]
        /\ actor' = actor
        /\ actor[h].state_etag = state.etag
        /\ state'.working_memory_version = actor[h].version + 1
        /\ state'.turns = actor[h].state_turns
    BY <1>3 DEF FreezeWriteState, Goto, StateETagMatches, StateToWrite, NewMemVersion
  <2>2. Holds(h) /\ \A g \in Host \ {h} : Holds(g)' <=> Holds(g)
    BY <2>1 DEF Holds
  <2>3. /\ actor[h].version = state.working_memory_version
        /\ actor[h].working_memory_version = state.working_memory_version
    BY <2>1 DEF StateETagMatches
  <2>4. /\ CopiedVersion[h] = state.working_memory_version
        /\ CopiedTurns[h] = actor[h].state_turns
    BY <2>2, <2>3 DEF CopiedVersion, CopiedTurns
  <2>5. CASE pc'[h] = "write_ckpt"
    <3>1. ~Holds(h)'
      BY <2>5 DEF Holds
    <3>2. CopiedVersion' = [CopiedVersion EXCEPT ![h] = -1]
      BY <2>1, <2>2, <3>1 DEF CopiedVersion
    <3>3. CopiedTurns' = [CopiedTurns EXCEPT ![h] = {}]
      BY <2>1, <2>2, <3>1 DEF CopiedTurns
    <3>4. QED
      BY <2>1, <2>3, <2>4, <3>2, <3>3
      DEF Abstract!Next, Abstract!Commit, Abstract!Drop, Abstract!NoBase
  <2>6. CASE pc'[h] = "active"
    <3>1. Holds(h)'
      BY <2>6 DEF Holds
    <3>2. CopiedVersion' = CopiedVersion /\ CopiedTurns' = CopiedTurns
      BY <2>1, <2>2, <3>1 DEF CopiedVersion, CopiedTurns
    <3>3. QED
      BY <2>1, <2>3, <2>4, <3>2 DEF Abstract!Next, Abstract!Commit
  <2>7. QED
    BY <2>1, <2>5, <2>6
<1>4. CASE FreezeStateRejected(h)
  BY <1>4, Invisible DEF FreezeStateRejected, Goto, Holds
<1>5. CASE FreezeWriteCheckpoint(h)
  BY <1>5, ReleaseFrame, LosingCopyAborts
  DEF FreezeWriteCheckpoint, Abstract!Next, Holds
<1>6. CASE FreezeCheckpointFailed(h)
  BY <1>6, ReleaseFrame, LosingCopyAborts
  DEF FreezeCheckpointFailed, Abstract!Next, Holds
<1>7. QED
  BY <1>1, <1>2, <1>3, <1>4, <1>5, <1>6 DEF Freeze

LEMMA NextRefines ==
    GuardedWrites /\ [Next]_vars => [Abstract!Next]_(Abstract!vars)
<1>1. ASSUME GuardedWrites, NEW h \in Host, Crash(h)
      PROVE  Abstract!Next \/ UNCHANGED Abstract!vars
  BY <1>1, ReleaseFrame, LosingCopyAborts DEF GuardedWrites, Crash, Abstract!Next, Holds
<1>2. ASSUME Tick \/ ExpireMem \/ UNCHANGED vars
      PROVE  UNCHANGED Abstract!vars
  BY <1>2, Invisible DEF Tick, ExpireMem, vars, Holds
<1>3. QED
  BY <1>1, <1>2, HydrateRefines, OwnRefines, FreezeRefines DEF Next

(* Freeze and hydrate implement optimistic concurrency on the agent: with  *)
(* the ETags of the hydration, step 5 of freeze installs a copy only if no *)
(* freeze was installed since the copy was taken.                          *)
THEOREM Refinement ==
    ASSUME ~RefreshesETags
    PROVE  Spec => FirstCommitterWins
<1>1. SafetyInv /\ [Next]_vars => [Abstract!Next]_(Abstract!vars)
  BY NextRefines, SafetyGuardsWrites
<1>2. QED
  BY <1>1, InitRefines, SafetyInvHolds, PTL
  DEF Spec, FirstCommitterWins, Abstract!Spec

------------------------------------------------------------------------------
(* One owner *)

LEMMA InitSole == Init => SoleOwnerInv
<1> SUFFICES ASSUME Init PROVE SoleOwnerInv
  OBVIOUS
<1>1. TypeOK
  BY InitType
<1>2. DurablePairMatches /\ MemoryNeverBehind /\ CheckpointsAreCommitted
  BY DEF Init, DurablePairMatches, MemoryNeverBehind, CheckpointsAreCommitted
<1>3. \A h \in Host : OwnerInv(h)
  BY DEF Init, OwnerInv, Snapshot, Committed, Holds, Loaded
<1>4. QED
  BY <1>1, <1>2, <1>3 DEF SoleOwnerInv

(* A step that writes nothing to the store.                                *)
LEMMA SoleNoWrite ==
    ASSUME SoleOwnerInv, TypeOK', NEW h \in Host, Host = {h},
           UNCHANGED <<state, mem, ckpts>>, OwnerInv(h)'
    PROVE  SoleOwnerInv'
<1>1. (DurablePairMatches /\ MemoryNeverBehind /\ CheckpointsAreCommitted)'
  BY DEF SoleOwnerInv, DurablePairMatches, MemoryNeverBehind, CheckpointsAreCommitted
<1>2. QED
  BY <1>1 DEF SoleOwnerInv

LEMMA SoleLetGo ==
    ASSUME SoleOwnerInv, TypeOK', NEW h \in Host, Host = {h},
           UNCHANGED <<state, mem, ckpts>>, pc'[h] \in {"idle", "panicked"}
    PROVE  SoleOwnerInv'
<1>1. OwnerInv(h)'
  BY DEF OwnerInv, Snapshot, Committed, Holds, Loaded
<1>2. QED
  BY <1>1, SoleNoWrite

LEMMA HydrateSole ==
    ASSUME SoleOwnerInv, NEW h \in Host, Host = {h}, Hydrate(h)
    PROVE  SoleOwnerInv'
<1> TypeOK /\ TypeOK' /\ OwnerInv(h)
  BY HydrateType DEF SoleOwnerInv
<1> USE DEF OwnerInv, Snapshot, Committed, Holds, Loaded, TypeOK, Goto
<1>1. CASE HydrateRefused(h)
  BY <1>1, SoleNoWrite DEF HydrateRefused
<1>2. CASE HydrateReadState(h)
  <2>1. /\ pc'[h] = "read_mem"
        /\ actor'[h].working_memory_version = state.working_memory_version
        /\ actor'[h].state_turns = state.turns
        /\ UNCHANGED <<state, mem, ckpts>>
    BY <1>2 DEF HydrateReadState, NoActor
  <2>2. QED
    BY <2>1, SoleNoWrite
<1>3. CASE HydrateReadMem(h)
  <2>1. /\ pc[h] = "read_mem" /\ pc'[h] = "hydrated"
        /\ UNCHANGED <<state, mem, ckpts>>
        /\ mem.version = actor[h].working_memory_version
        /\ actor'[h].version = mem.version
        /\ actor'[h].mem_turns = mem.turns
        /\ actor'[h].working_memory_version = actor[h].working_memory_version
        /\ actor'[h].state_turns = actor[h].state_turns
    BY <1>3 DEF HydrateReadMem, IsTorn, Actor
  <2>2. mem.turns = state.turns
    BY <2>1 DEF SoleOwnerInv, DurablePairMatches
  <2>3. QED
    BY <2>1, <2>2, SoleNoWrite
<1>4. CASE HydrateRecover(h)
  BY <1>4, SoleLetGo DEF HydrateRecover
<1>5. CASE HydrateReadMemFailed(h)
  BY <1>5, SoleLetGo, ReleaseFrame DEF HydrateReadMemFailed
<1>6. QED
  BY <1>1, <1>2, <1>3, <1>4, <1>5 DEF Hydrate

LEMMA OwnSole ==
    ASSUME SoleOwnerInv, NEW h \in Host, Host = {h}, Own(h)
    PROVE  SoleOwnerInv'
<1> TypeOK /\ TypeOK' /\ OwnerInv(h)
  BY OwnType DEF SoleOwnerInv
<1> USE DEF OwnerInv, Snapshot, Committed, Holds, Loaded, TypeOK, Goto
<1>1. CASE Unwind(h)
  BY <1>1, SoleLetGo, ReleaseFrame DEF Unwind
(* The record is rewritten as it was read.                                 *)
<1>2. CASE MarkActive(h)
  <2>1. /\ pc[h] = "hydrated" /\ pc'[h] = "active"
        /\ UNCHANGED <<mem, ckpts>>
        /\ state'.working_memory_version = state.working_memory_version
        /\ state'.turns = state.turns
        /\ actor'[h].version = actor[h].version
        /\ actor'[h].mem_turns = actor[h].mem_turns
        /\ actor'[h].working_memory_version = actor[h].working_memory_version
        /\ actor'[h].state_turns = actor[h].state_turns
    BY <1>2 DEF MarkActive, Actor
  <2>2. (DurablePairMatches /\ MemoryNeverBehind /\ CheckpointsAreCommitted)'
    BY <2>1
    DEF SoleOwnerInv, DurablePairMatches, MemoryNeverBehind, CheckpointsAreCommitted
  <2>3. OwnerInv(h)'
    BY <2>1
  <2>4. QED
    BY <2>2, <2>3 DEF SoleOwnerInv
<1>3. CASE MarkActiveRejected(h)
  BY <1>3, SoleLetGo, ReleaseFrame DEF MarkActiveRejected
<1>4. CASE StartUnmarked(h)
  BY <1>4, SoleNoWrite DEF StartUnmarked
<1>5. CASE RefreshETags(h)
  <2>1. /\ pc' = pc /\ UNCHANGED <<state, mem, ckpts>>
        /\ pc[h] \in {"hydrated", "active"}
        /\ actor'[h].version = actor[h].version
        /\ actor'[h].mem_turns = actor[h].mem_turns
        /\ actor'[h].working_memory_version = actor[h].working_memory_version
        /\ actor'[h].state_turns = actor[h].state_turns
    BY <1>5 DEF RefreshETags, Actor
  <2>2. QED
    BY <2>1, SoleNoWrite
<1>6. CASE RunTask(h)
  <2>1. /\ pc' = pc /\ UNCHANGED <<state, mem, ckpts>> /\ pc[h] = "active"
        /\ actor'[h].version = actor[h].version
        /\ actor'[h].working_memory_version = actor[h].working_memory_version
        /\ actor'[h].mem_turns = actor[h].mem_turns \cup {turn + 1}
        /\ actor'[h].state_turns = actor[h].state_turns \cup {turn + 1}
    BY <1>6 DEF RunTask, Actor
  <2>2. QED
    BY <2>1, SoleNoWrite
<1>7. QED
  BY <1>1, <1>2, <1>3, <1>4, <1>5, <1>6 DEF Own

LEMMA FreezeSole ==
    ASSUME SoleOwnerInv, NEW h \in Host, Host = {h}, "lost_ack" \notin Faults, Freeze(h)
    PROVE  SoleOwnerInv'
<1> TypeOK /\ TypeOK' /\ OwnerInv(h)
  BY FreezeType DEF SoleOwnerInv
<1> USE DEF OwnerInv, Snapshot, Committed, Holds, Loaded, TypeOK, Goto
<1>1. CASE FreezeWriteMemory(h)
  <2>1. /\ pc[h] = "active" /\ pc'[h] = "write_state"
        /\ UNCHANGED <<state, ckpts, actor>>
        /\ mem'.version = actor[h].version + 1
        /\ mem'.turns = actor[h].mem_turns
    BY <1>1 DEF FreezeWriteMemory, MemoryToWrite, NewMemVersion
  <2>2. /\ actor[h].version = state.working_memory_version
        /\ state.working_memory_version \in Nat
    BY <2>1 DEF StateRecord
  <2>3. (DurablePairMatches /\ MemoryNeverBehind /\ CheckpointsAreCommitted)'
    BY <2>1, <2>2
    DEF SoleOwnerInv, DurablePairMatches, MemoryNeverBehind, CheckpointsAreCommitted
  <2>4. OwnerInv(h)'
    BY <2>1
  <2>5. QED
    BY <2>3, <2>4 DEF SoleOwnerInv
<1>2. CASE FreezeMemoryRejected(h)
  BY <1>2, SoleNoWrite DEF FreezeMemoryRejected
<1>3. CASE FreezeWriteState(h)
  <2>1. /\ pc[h] = "write_state" /\ pc'[h] = "write_ckpt"
        /\ UNCHANGED <<mem, ckpts, actor>>
        /\ state'.working_memory_version = actor[h].version + 1
        /\ state'.turns = actor[h].state_turns
    BY <1>3 DEF FreezeWriteState, StateToWrite, NewMemVersion
  <2>2. /\ actor[h].version = state.working_memory_version
        /\ state.turns \subseteq actor[h].state_turns
        /\ actor[h].state_turns = actor[h].mem_turns
        /\ mem.version = actor[h].version + 1
        /\ mem.turns = actor[h].mem_turns
        /\ state.working_memory_version \in Nat
    BY <2>1 DEF StateRecord
  <2>3. DurablePairMatches' /\ MemoryNeverBehind'
    BY <2>1, <2>2 DEF DurablePairMatches, MemoryNeverBehind
  <2>4. CheckpointsAreCommitted'
    BY <2>1, <2>2 DEF SoleOwnerInv, CheckpointsAreCommitted, Checkpoint
  <2>5. OwnerInv(h)'
    BY <2>1, <2>2
  <2>6. QED
    BY <2>3, <2>4, <2>5 DEF SoleOwnerInv
<1>4. CASE FreezeStateRejected(h)
  BY <1>4, SoleNoWrite DEF FreezeStateRejected
<1>5. CASE FreezeWriteCheckpoint(h)
  <2>1. /\ pc[h] = "write_ckpt" /\ pc'[h] = "idle" /\ UNCHANGED <<state, mem>>
        /\ ckpts' \subseteq ckpts \cup {CheckpointToWrite(h)}
    BY <1>5, ReleaseFrame DEF FreezeWriteCheckpoint
  <2>2. CheckpointsAreCommitted'
    BY <2>1
    DEF SoleOwnerInv, CheckpointsAreCommitted, CheckpointToWrite, NewMemVersion
  <2>3. DurablePairMatches' /\ MemoryNeverBehind'
    BY <2>1 DEF SoleOwnerInv, DurablePairMatches, MemoryNeverBehind
  <2>4. OwnerInv(h)'
    BY <2>1
  <2>5. QED
    BY <2>2, <2>3, <2>4 DEF SoleOwnerInv
<1>6. CASE FreezeCheckpointFailed(h)
  BY <1>6, SoleLetGo, ReleaseFrame DEF FreezeCheckpointFailed
<1>7. QED
  BY <1>1, <1>2, <1>3, <1>4, <1>5, <1>6 DEF Freeze

LEMMA NextSole ==
    ASSUME SoleOwner
    PROVE  SoleOwnerInv /\ [Next]_vars => SoleOwnerInv'
<1> SUFFICES ASSUME SoleOwnerInv, [Next]_vars PROVE SoleOwnerInv'
  OBVIOUS
<1>1. PICK h \in Host : Host = {h}
  BY DEF SoleOwner
<1>2. "lost_ack" \notin Faults
  BY DEF SoleOwner
<1>3. TypeOK /\ TypeOK' /\ OwnerInv(h)
  BY NextType DEF SoleOwnerInv
<1>4. CASE Hydrate(h) \/ Own(h) \/ Freeze(h)
  BY <1>1, <1>2, <1>4, HydrateSole, OwnSole, FreezeSole
<1>5. CASE Crash(h)
  BY <1>1, <1>3, <1>5, SoleLetGo, ReleaseFrame DEF Crash
<1>6. CASE Tick \/ UNCHANGED vars
  BY <1>1, <1>3, <1>6, SoleNoWrite DEF Tick, vars, OwnerInv, Snapshot, Committed, Holds
<1>7. CASE ExpireMem
  <2>1. /\ UNCHANGED <<state, ckpts, pc, actor>>
        /\ mem'.version = mem.version /\ mem'.turns = mem.turns
    BY <1>3, <1>7 DEF ExpireMem, TypeOK, MemRecord
  <2>2. (DurablePairMatches /\ MemoryNeverBehind /\ CheckpointsAreCommitted)'
    BY <2>1
    DEF SoleOwnerInv, DurablePairMatches, MemoryNeverBehind, CheckpointsAreCommitted
  <2>3. OwnerInv(h)'
    BY <1>3, <2>1 DEF OwnerInv, Snapshot, Committed, Holds
  <2>4. QED
    BY <1>1, <1>3, <2>2, <2>3 DEF SoleOwnerInv
<1>8. Next => Hydrate(h) \/ Own(h) \/ Freeze(h) \/ Crash(h) \/ Tick \/ ExpireMem
  BY <1>1 DEF Next
<1>9. QED
  BY <1>4, <1>5, <1>6, <1>7, <1>8

LEMMA SoleOwnerInvHolds ==
    ASSUME SoleOwner
    PROVE  Spec => []SoleOwnerInv
  BY InitSole, NextSole, PTL DEF Spec

(* A runtime that has the agent to itself, and learns of every write       *)
(* whether it took effect, may read the ETags again before a freeze or a   *)
(* retry (HydrationResult has none): equal versions still mean one freeze, *)
(* and so does what hydrate returns.                                       *)
THEOREM SoleOwnerHolds ==
    ASSUME SoleOwner
    PROVE  Spec => [](/\ DurablePairMatches
                      /\ MemoryNeverBehind
                      /\ SnapshotFromOneFreeze
                      /\ CheckpointsAreCommitted)
<1>1. SoleOwnerInv => /\ DurablePairMatches
                      /\ MemoryNeverBehind
                      /\ SnapshotFromOneFreeze
                      /\ CheckpointsAreCommitted
  BY DEF SoleOwnerInv, OwnerInv, Snapshot, SnapshotFromOneFreeze
<1>2. QED
  BY <1>1, SoleOwnerInvHolds, PTL

LEMMA SoleOwnerGuardsWrites == SoleOwnerInv => GuardedWrites
  BY DEF SoleOwnerInv, GuardedWrites, OwnerInv, Snapshot, Holds, Loaded

(* Such a runtime loses no update either, and still implements             *)
(* VersionedRecord: the ETags it reads again are those of its own writes.  *)
THEOREM SoleOwnerRefines ==
    ASSUME SoleOwner
    PROVE  Spec => NoLostUpdate /\ FirstCommitterWins
<1>1. SoleOwnerInv /\ [Next]_vars => [state.turns \subseteq state'.turns]_vars
  BY StateOnlyGrows, SoleOwnerGuardsWrites
<1>2. SoleOwnerInv /\ [Next]_vars => [Abstract!Next]_(Abstract!vars)
  BY NextRefines, SoleOwnerGuardsWrites
<1>3. Spec => NoLostUpdate
  BY <1>1, SoleOwnerInvHolds, PTL DEF Spec, NoLostUpdate
<1>4. Spec => FirstCommitterWins
  BY <1>2, InitRefines, SoleOwnerInvHolds, PTL DEF Spec, FirstCommitterWins, Abstract!Spec
<1>5. QED
  BY <1>3, <1>4
==============================================================================
