----------------------------- MODULE LeaseProofs -----------------------------
(***************************************************************************)
(* The stale ACTIVE guard of hydrate is a lease: the inductive invariant   *)
(* behind LeaseExclusion, and the proof.  It needs that every activation   *)
(* is recorded, that ETags are not refreshed and that a failed write was   *)
(* not applied.  Clocks may differ by MaxSkew.                             *)
(***************************************************************************)
EXTENDS FreezeHydrateProofs

LeaseAssumption == MarkChoices = {TRUE} /\ ~RefreshesETags /\ "lost_ack" \notin Faults

(* A copy with the current state ETag; it can still be written. *)
Current(h) == actor[h].state_etag = state.etag

(* The record names the activation of the one running host that can still  *)
(* write it.                                                               *)
LeaseHolder(h) ==
    Running(h) =>
        /\ actor[h].state_etag <= state.etag
        /\ ActivatedAt(h) <= now
        /\ Current(h) => /\ state.status = "ACTIVE"
                         /\ state.last_hydrated_at = actor[h].last_hydrated_at
        /\ ~Current(h) => ActivatedAt(h) + StaleThreshold <= now + MaxSkew

OneLeaseHolder ==
    \A g, h \in Host :
        Running(g) /\ Running(h) /\ Current(g) /\ Current(h) => g = h

(* A host that read an ACTIVE record passed the stale guard.               *)
GuardPassed(h) ==
    pc[h] \in {"read_mem", "hydrated"} =>
        /\ actor[h].state_etag <= state.etag
        /\ Current(h) /\ state.status = "ACTIVE" =>
              state.last_hydrated_at + StaleThreshold <= Clock(h)

LeaseInv ==
    /\ TypeOK
    /\ LeaseExclusion
    /\ OneLeaseHolder
    /\ \A h \in Host : LeaseHolder(h) /\ GuardPassed(h)

------------------------------------------------------------------------------

LEMMA InitLease == Init => LeaseInv
<1> SUFFICES ASSUME Init PROVE LeaseInv
  OBVIOUS
<1>1. TypeOK
  BY InitType
<1>2. QED
  BY <1>1 DEF Init, LeaseInv, LeaseExclusion, OneLeaseHolder, LeaseHolder, GuardPassed,
              Running

(* A step that does not write the state keeps the lease if it starts no    *)
(* activation and every new reader passed the guard.                       *)
LEMMA NoStateWrite ==
    ASSUME LeaseInv, TypeOK', UNCHANGED state, now' \in {now, now + 1},
           \A g \in Host :
              /\ Running(g)' => /\ Running(g)
                                /\ actor'[g].state_etag = actor[g].state_etag
                                /\ ActivatedAt(g)' = ActivatedAt(g)
                                /\ actor'[g].last_hydrated_at = actor[g].last_hydrated_at
              /\ pc'[g] \in {"read_mem", "hydrated"} =>
                   \/ /\ pc[g] \in {"read_mem", "hydrated"}
                      /\ actor'[g].state_etag = actor[g].state_etag
                   \/ GuardPassed(g)'
    PROVE  LeaseInv'
<1> USE DEF LeaseInv
<1>1. LeaseExclusion'
  BY DEF LeaseExclusion
<1>2. OneLeaseHolder'
  BY DEF OneLeaseHolder, Current
<1>3. ASSUME NEW g \in Host PROVE LeaseHolder(g)'
  <2>1. SUFFICES ASSUME Running(g)' PROVE LeaseHolder(g)'
    BY DEF LeaseHolder
  <2>2. Running(g) /\ LeaseHolder(g)
    BY <2>1
  <2>3. ActivatedAt(g) \in Int
    BY ConstantsAssumption DEF ActivatedAt, TypeOK, Actor
  <2>4. QED
    BY <2>1, <2>2, <2>3, ConstantsAssumption DEF LeaseHolder, Current, TypeOK
<1>4. ASSUME NEW g \in Host PROVE GuardPassed(g)'
  <2>1. GuardPassed(g)
    OBVIOUS
  <2>2. /\ Clock(g) \in Nat /\ Clock(g)' \in Nat /\ Clock(g) <= Clock(g)'
        /\ state.last_hydrated_at \in Nat
    BY ConstantsAssumption DEF Clock, TypeOK, StateRecord
  <2>3. QED
    BY <2>1, <2>2, ConstantsAssumption DEF GuardPassed, Current
<1>5. QED
  BY <1>1, <1>2, <1>3, <1>4

LEMMA HydrateLease ==
    ASSUME LeaseInv, NEW h \in Host, Hydrate(h)
    PROVE  LeaseInv'
<1> TypeOK /\ TypeOK'
  BY HydrateType DEF LeaseInv
<1> USE DEF Running, ActivatedAt
<1>1. CASE HydrateRefused(h)
  BY <1>1, NoStateWrite DEF HydrateRefused
<1>2. CASE HydrateReadState(h)
  <2>1. /\ pc'[h] = "read_mem"
        /\ \A g \in Host \ {h} : pc'[g] = pc[g] /\ actor'[g] = actor[g]
        /\ state' = state /\ now' = now
        /\ actor'[h].state_etag = state.etag
    BY <1>2 DEF TypeOK, HydrateReadState, Goto, NoActor
  <2>2. Clock(h) \in Nat /\ Clock(h)' = Clock(h)
    BY <2>1, ConstantsAssumption DEF Clock, TypeOK
  <2>3. state.status = "ACTIVE" => state.last_hydrated_at + StaleThreshold <= Clock(h)
    BY <1>2, <2>2, ConstantsAssumption
    DEF HydrateReadState, IsBusy, Age, TypeOK, StateRecord
  <2>4. GuardPassed(h)'
    BY <2>1, <2>2, <2>3 DEF GuardPassed, Current, TypeOK, StateRecord
  <2>5. QED
    BY <2>1, <2>4, NoStateWrite
<1>3. CASE HydrateReadMem(h)
  <2>1. /\ pc[h] = "read_mem" /\ pc'[h] = "hydrated"
        /\ \A g \in Host \ {h} : pc'[g] = pc[g] /\ actor'[g] = actor[g]
        /\ state' = state /\ now' = now
        /\ actor'[h].state_etag = actor[h].state_etag
    BY <1>3 DEF TypeOK, HydrateReadMem, Goto, Actor
  <2>2. QED
    BY <2>1, NoStateWrite
<1>4. CASE HydrateRecover(h)
  BY <1>4, NoStateWrite DEF HydrateRecover, Goto, TypeOK
<1>5. CASE HydrateReadMemFailed(h)
  BY <1>5, ReleaseFrame, NoStateWrite DEF HydrateReadMemFailed
<1>6. QED
  BY <1>1, <1>2, <1>3, <1>4, <1>5 DEF Hydrate

(* A new activation.  Whoever was running was activated StaleThreshold ago *)
(* or more: the record named it and this host passed the guard, or an      *)
(* earlier successor of it passed the guard.                               *)
LEMMA MarkActiveLease ==
    ASSUME LeaseInv, TypeOK', NEW h \in Host, MarkActive(h)
    PROVE  LeaseInv'
<1> USE DEF LeaseInv
<1>1. /\ pc[h] = "hydrated" /\ pc'[h] = "active"
      /\ \A g \in Host \ {h} : pc'[g] = pc[g] /\ actor'[g] = actor[g]
      /\ now' = now
      /\ actor[h].state_etag = state.etag
      /\ actor'[h].state_etag = state.etag + 1
      /\ actor'[h].last_hydrated_at = Clock(h)
  BY DEF MarkActive, Goto, StateETagMatches, TypeOK, Actor
<1>2. /\ state'.etag = state.etag + 1
      /\ state'.status = "ACTIVE"
      /\ state'.last_hydrated_at = Clock(h)
  BY DEF MarkActive
<1>3. /\ state.etag \in Nat /\ now \in Nat
      /\ \A g \in Host : /\ actor[g].state_etag \in Nat
                          /\ actor[g].last_hydrated_at \in Nat
                          /\ Skew[g] \in Nat /\ Skew[g] <= MaxSkew
      /\ MaxSkew \in Nat /\ StaleThreshold \in Nat
  BY ConstantsAssumption DEF TypeOK, StateRecord, Actor
<1>4. ActivatedAt(h)' = now
  BY <1>1, <1>3 DEF ActivatedAt, Clock
<1>5. \A g \in Host \ {h} : /\ Running(g)' <=> Running(g)
                             /\ ActivatedAt(g)' = ActivatedAt(g)
                             /\ ActivatedAt(g) \in Int
  BY <1>1, <1>3 DEF Running, ActivatedAt
<1>6. ~Running(h) /\ Running(h)'
  BY <1>1 DEF Running
<1>7. ASSUME NEW g \in Host \ {h}, Running(g)
      PROVE  ActivatedAt(g) + StaleThreshold <= now + MaxSkew
  <2>1. LeaseHolder(g)
    OBVIOUS
  <2>2. CASE ~Current(g)
    BY <1>7, <2>1, <2>2 DEF LeaseHolder
  <2>3. CASE Current(g)
    <3>1. /\ state.status = "ACTIVE"
          /\ state.last_hydrated_at = actor[g].last_hydrated_at
      BY <1>7, <2>1, <2>3 DEF LeaseHolder
    <3>2. state.last_hydrated_at + StaleThreshold <= now + Skew[h]
      BY <1>1, <3>1 DEF GuardPassed, Current, Clock
    <3>3. QED
      BY <1>3, <3>1, <3>2 DEF ActivatedAt
  <2>4. QED
    BY <2>2, <2>3
<1>8. LeaseExclusion'
  BY <1>1, <1>4, <1>5, <1>7 DEF LeaseExclusion
<1>9. ASSUME NEW g \in Host \ {h}
      PROVE  /\ Running(g) \/ pc[g] \in {"read_mem", "hydrated"} => ~Current(g)'
             /\ Running(g) \/ pc[g] \in {"read_mem", "hydrated"} =>
                   (actor[g].state_etag <= state.etag)'
  <2>1. LeaseHolder(g) /\ GuardPassed(g)
    OBVIOUS
  <2>2. QED
    BY <2>1, <1>1, <1>2, <1>3 DEF LeaseHolder, GuardPassed, Current
<1>10. OneLeaseHolder'
  BY <1>5, <1>9 DEF OneLeaseHolder
<1>11. ASSUME NEW g \in Host PROVE LeaseHolder(g)' /\ GuardPassed(g)'
  <2>1. CASE g = h
    BY <2>1, <1>1, <1>2, <1>3, <1>4 DEF LeaseHolder, GuardPassed, Current
  <2>2. CASE g # h
    <3>1. LeaseHolder(g)'
      <4>1. Running(g) => ActivatedAt(g) <= now
        BY DEF LeaseHolder
      <4>2. QED
        BY <2>2, <4>1, <1>1, <1>5, <1>7, <1>9 DEF LeaseHolder
    <3>2. GuardPassed(g)'
      BY <2>2, <1>1, <1>9 DEF GuardPassed
    <3>3. QED
      BY <3>1, <3>2
  <2>3. QED
    BY <2>1, <2>2
<1>12. QED
  BY <1>8, <1>10, <1>11

LEMMA OwnLease ==
    ASSUME LeaseAssumption, LeaseInv, NEW h \in Host, Own(h)
    PROVE  LeaseInv'
<1> TypeOK /\ TypeOK'
  BY OwnType DEF LeaseInv
<1> USE DEF Running, ActivatedAt
<1>1. CASE Unwind(h)
  BY <1>1, ReleaseFrame, NoStateWrite DEF Unwind
<1>2. CASE MarkActive(h)
  BY <1>2, MarkActiveLease
<1>3. CASE MarkActiveRejected(h)
  BY <1>3, ReleaseFrame, NoStateWrite DEF MarkActiveRejected
<1>4. CASE StartUnmarked(h)
  BY <1>4 DEF StartUnmarked, LeaseAssumption
<1>5. CASE RefreshETags(h)
  BY <1>5 DEF RefreshETags, LeaseAssumption
<1>6. CASE RunTask(h)
  <2>1. /\ pc' = pc /\ state' = state /\ now' = now
        /\ \A g \in Host \ {h} : actor'[g] = actor[g]
        /\ actor'[h].state_etag = actor[h].state_etag
        /\ actor'[h].last_hydrated_at = actor[h].last_hydrated_at
    BY <1>6 DEF RunTask, TypeOK, Actor
  <2>2. QED
    BY <2>1, NoStateWrite
<1>7. QED
  BY <1>1, <1>2, <1>3, <1>4, <1>5, <1>6 DEF Own

(* A freeze that is installed ends the lease of the one host that held it. *)
LEMMA FreezeWriteStateLease ==
    ASSUME LeaseAssumption, LeaseInv, TypeOK', NEW h \in Host, FreezeWriteState(h)
    PROVE  LeaseInv'
<1> USE DEF LeaseInv
<1>1. /\ pc[h] = "write_state" /\ pc'[h] = "write_ckpt"
      /\ \A g \in Host \ {h} : pc'[g] = pc[g]
      /\ actor' = actor /\ now' = now
      /\ actor[h].state_etag = state.etag
      /\ state'.etag = state.etag + 1
  BY DEF LeaseAssumption, FreezeWriteState, Goto, StateETagMatches, StateToWrite, TypeOK
<1>2. /\ state.etag \in Nat
      /\ \A g \in Host : actor[g].state_etag \in Nat
  BY DEF TypeOK, StateRecord, Actor
<1>3. \A g \in Host : Running(g)' => Running(g) /\ g # h
  BY <1>1 DEF Running
<1>4. \A g \in Host : ActivatedAt(g)' = ActivatedAt(g)
  BY <1>1 DEF ActivatedAt
<1>5. \A g \in Host : Running(g)' => ~Current(g)
  BY <1>1, <1>3 DEF OneLeaseHolder, Running, Current
<1>6. ASSUME NEW g \in Host
      PROVE  Running(g) \/ pc[g] \in {"read_mem", "hydrated"} =>
                (actor[g].state_etag <= state.etag)' /\ ~Current(g)'
  BY <1>1, <1>2 DEF LeaseHolder, GuardPassed, Current
<1>7. LeaseExclusion'
  BY <1>3, <1>4 DEF LeaseExclusion
<1>8. OneLeaseHolder'
  BY <1>3, <1>6 DEF OneLeaseHolder
<1>9. ASSUME NEW g \in Host PROVE LeaseHolder(g)' /\ GuardPassed(g)'
  <2>1. LeaseHolder(g)'
    BY <1>1, <1>3, <1>4, <1>5, <1>6 DEF LeaseHolder
  <2>2. GuardPassed(g)'
    BY <1>1, <1>6 DEF GuardPassed
  <2>3. QED
    BY <2>1, <2>2
<1>10. QED
  BY <1>7, <1>8, <1>9

LEMMA FreezeLease ==
    ASSUME LeaseAssumption, LeaseInv, NEW h \in Host, Freeze(h)
    PROVE  LeaseInv'
<1> TypeOK /\ TypeOK'
  BY FreezeType DEF LeaseInv
<1> USE DEF Running, ActivatedAt
<1>1. CASE FreezeWriteMemory(h)
  BY <1>1, NoStateWrite DEF FreezeWriteMemory, Goto, TypeOK
<1>2. CASE FreezeMemoryRejected(h)
  BY <1>2, NoStateWrite DEF FreezeMemoryRejected
<1>3. CASE FreezeWriteState(h)
  BY <1>3, FreezeWriteStateLease
<1>4. CASE FreezeStateRejected(h)
  BY <1>4, NoStateWrite DEF FreezeStateRejected, Goto, TypeOK
<1>5. CASE FreezeWriteCheckpoint(h)
  BY <1>5, ReleaseFrame, NoStateWrite DEF FreezeWriteCheckpoint
<1>6. CASE FreezeCheckpointFailed(h)
  BY <1>6, ReleaseFrame, NoStateWrite DEF FreezeCheckpointFailed
<1>7. QED
  BY <1>1, <1>2, <1>3, <1>4, <1>5, <1>6 DEF Freeze

LEMMA NextLease ==
    ASSUME LeaseAssumption
    PROVE  LeaseInv /\ [Next]_vars => LeaseInv'
<1> SUFFICES ASSUME LeaseInv, [Next]_vars PROVE LeaseInv'
  OBVIOUS
<1> TypeOK /\ TypeOK'
  BY NextType DEF LeaseInv
<1>1. ASSUME NEW h \in Host, Crash(h) PROVE LeaseInv'
  BY <1>1, ReleaseFrame, NoStateWrite DEF Crash, Running, ActivatedAt
<1>2. CASE Tick \/ ExpireMem \/ UNCHANGED vars
  BY <1>2, NoStateWrite DEF Tick, ExpireMem, vars, Running, ActivatedAt
<1>3. QED
  BY <1>1, <1>2, HydrateLease, OwnLease, FreezeLease DEF Next

(* The lease: one running host is the holder that the record names, and    *)
(* every other was activated long enough ago (hydrate.rs:74-103).          *)
THEOREM LeaseInvHolds ==
    ASSUME LeaseAssumption
    PROVE  Spec => []LeaseInv
  BY InitLease, NextLease, PTL DEF Spec

(* Two hosts run the agent at once only if their activations are           *)
(* StaleThreshold apart, less MaxSkew, for any number of hosts, any clocks *)
(* and any crashes: hydrate.rs:74-103 refuses every earlier activation.    *)
THEOREM LeaseHolds ==
    ASSUME LeaseAssumption
    PROVE  Spec => []LeaseExclusion
<1>1. LeaseInv => LeaseExclusion
  BY DEF LeaseInv
<1>2. QED
  BY <1>1, InitLease, NextLease, PTL DEF Spec
==============================================================================
