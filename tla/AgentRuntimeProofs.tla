-------------------------- MODULE AgentRuntimeProofs --------------------------
(* Only failures lose a task, a drained freeze keeps the pending tasks, and *)
(* critical pressure throttles: for any agents, tasks, places for actors   *)
(* and limits.                                                             *)
EXTENDS AgentRuntime, FiniteSetTheorems, TLAPS

Loaded == {"Active", "Draining", "Freezing"}

(* An actor whose ETag is current has, or has run, every task that the     *)
(* snapshot still promises to run; and one that freezes has drained.       *)
CopyInv(s) ==
    LET sn == snapshot[actor[s].agent_id]
    IN  actor[s].lifecycle_state \in Loaded =>
            /\ actor[s].etag <= sn.etag
            /\ actor[s].etag = sn.etag => sn.pending_tasks \subseteq Tasks(s) \cup Ended
            /\ actor[s].lifecycle_state = "Freezing" => Drained(s)

TaskInv == TypeOK /\ \A s \in Slot : CopyInv(s)

------------------------------------------------------------------------------
(* What the steps of an actor do to the actors *)

ActorsTyped ==
    /\ actor \in [Slot -> Actor]
    /\ \A s \in Slot : actor[s].lifecycle_state # "Frozen" => actor[s].agent_id \in Agent

LEMMA UpdateFacts ==
    ASSUME ActorsTyped, NEW s \in Slot, NEW new \in Actor,
           new.lifecycle_state # "Frozen" => new.agent_id \in Agent,
           actor' = [actor EXCEPT ![s] = new]
    PROVE  /\ ActorsTyped'
           /\ actor'[s] = new
           /\ \A r \in Slot \ {s} : actor'[r] = actor[r]
BY DEF ActorsTyped

LEMMA NoActorFacts ==
    /\ NoActor \in Actor
    /\ NoActor.lifecycle_state = "Frozen"
BY DEF NoActor, Fresh, Actor, State

LEMMA StopFacts ==
    ASSUME ActorsTyped, NEW s \in Slot, Stop(s)
    PROVE  /\ ActorsTyped'
           /\ actor'[s].lifecycle_state = "Frozen"
           /\ \A r \in Slot \ {s} : actor'[r] = actor[r]
BY NoActorFacts, UpdateFacts DEF Stop

LEMMA StartFacts ==
    ASSUME ActorsTyped, NEW s \in Slot, NEW a \in Agent, NEW tasks \in SUBSET Task,
           Start(s, a, tasks)
    PROVE  /\ ActorsTyped'
           /\ Tasks(s) = {}
           /\ actor'[s].lifecycle_state = "Hydrating"
           /\ \A r \in Slot \ {s} : actor'[r] = actor[r]
<1> DEFINE new == [Fresh(a) EXCEPT !.inbox = tasks]
<1>1. new \in Actor /\ new.lifecycle_state = "Hydrating" /\ new.agent_id = a
  BY DEF Fresh, Actor, State
<1>2. actor' = [actor EXCEPT ![s] = new]
  BY DEF Start
<1>3. ActorsTyped' /\ actor'[s] = new /\ \A r \in Slot \ {s} : actor'[r] = actor[r]
  <2> HIDE DEF new
  <2> QED
    BY <1>1, <1>2, UpdateFacts
<1>4. Tasks(s) = {}
  BY DEF Start, Tasks, NoActor, Fresh
<1>5. QED
  BY <1>1, <1>3, <1>4

LEMMA GotoFacts ==
    ASSUME ActorsTyped, NEW s \in Slot, NEW state \in State, Goto(s, state),
           actor[s].lifecycle_state # "Frozen"
    PROVE  /\ ActorsTyped'
           /\ actor'[s].lifecycle_state = state
           /\ actor'[s].agent_id = actor[s].agent_id
           /\ actor'[s].etag = actor[s].etag
           /\ Tasks(s)' = Tasks(s)
           /\ Drained(s)' = Drained(s)
           /\ \A r \in Slot \ {s} : actor'[r] = actor[r]
<1> DEFINE new == [actor[s] EXCEPT !.lifecycle_state = state]
<1>1. /\ new \in Actor
      /\ new.lifecycle_state = state /\ new.agent_id = actor[s].agent_id
      /\ new.etag = actor[s].etag /\ new.inbox = actor[s].inbox
      /\ new.pending_tasks = actor[s].pending_tasks /\ new.running = actor[s].running
  BY DEF ActorsTyped, Actor
<1>2. actor' = [actor EXCEPT ![s] = new] /\ new.agent_id \in Agent
  BY <1>1 DEF Goto, ActorsTyped
<1>3. ActorsTyped' /\ actor'[s] = new /\ \A r \in Slot \ {s} : actor'[r] = actor[r]
  <2> HIDE DEF new
  <2> QED
    BY <1>1, <1>2, UpdateFacts
<1>4. QED
  <2> HIDE DEF new
  <2> QED
    BY <1>1, <1>3 DEF Tasks, Drained

LEMMA HoldFacts ==
    ASSUME ActorsTyped, NEW s \in Slot, actor[s].lifecycle_state # "Frozen",
           NEW inbox \in SUBSET Task, NEW pending \in SUBSET Task,
           NEW running \in SUBSET Task, Hold(s, inbox, pending, running)
    PROVE  /\ ActorsTyped'
           /\ actor'[s].lifecycle_state = actor[s].lifecycle_state
           /\ actor'[s].agent_id = actor[s].agent_id
           /\ actor'[s].etag = actor[s].etag
           /\ Tasks(s)' = inbox \cup pending \cup running
           /\ \A r \in Slot \ {s} : actor'[r] = actor[r]
<1> DEFINE new == [actor[s] EXCEPT !.inbox = inbox, !.pending_tasks = pending,
                                   !.running = running]
<1>1. /\ new \in Actor
      /\ new.lifecycle_state = actor[s].lifecycle_state
      /\ new.agent_id = actor[s].agent_id
      /\ new.etag = actor[s].etag /\ new.inbox = inbox
      /\ new.pending_tasks = pending /\ new.running = running
  BY DEF ActorsTyped, Actor
<1>2. actor' = [actor EXCEPT ![s] = new] /\ new.agent_id \in Agent
  BY <1>1 DEF Hold, ActorsTyped
<1>3. ActorsTyped' /\ actor'[s] = new /\ \A r \in Slot \ {s} : actor'[r] = actor[r]
  <2> HIDE DEF new
  <2> QED
    BY <1>1, <1>2, UpdateFacts
<1>4. QED
  <2> HIDE DEF new
  <2> QED
    BY <1>1, <1>3 DEF Tasks

LEMMA HydrateFacts ==
    ASSUME TypeOK, NEW s \in Slot, Hydrate(s)
    PROVE  /\ ActorsTyped'
           /\ actor[s].agent_id \in Agent
           /\ actor'[s].lifecycle_state = "Active"
           /\ actor'[s].agent_id = actor[s].agent_id
           /\ actor'[s].etag = snapshot[actor[s].agent_id].etag
           /\ Tasks(s)' = Tasks(s) \cup snapshot[actor[s].agent_id].pending_tasks
           /\ \A r \in Slot \ {s} : actor'[r] = actor[r]
<1> DEFINE new == [actor[s] EXCEPT !.lifecycle_state = "Active",
                                   !.etag = snapshot[actor[s].agent_id].etag,
                                   !.inbox = Requeued(s)]
<1>1. actor[s].agent_id \in Agent
  BY DEF Hydrate, TypeOK
<1>2. snapshot[actor[s].agent_id] \in Snapshot
  BY <1>1 DEF TypeOK
<1>3. Requeued(s) \in SUBSET Task
  BY <1>2 DEF Requeued, TypeOK, Actor, Snapshot
<1>4. /\ new \in Actor
      /\ new.lifecycle_state = "Active" /\ new.agent_id = actor[s].agent_id
      /\ new.etag = snapshot[actor[s].agent_id].etag /\ new.inbox = Requeued(s)
      /\ new.pending_tasks = actor[s].pending_tasks /\ new.running = actor[s].running
  <2>1. /\ actor[s] \in Actor /\ "Active" \in State
        /\ snapshot[actor[s].agent_id].etag \in Nat
    BY <1>2 DEF TypeOK, Snapshot, State
  <2>2. QED
    BY <2>1, <1>3 DEF Actor
<1>5. actor' = [actor EXCEPT ![s] = new] /\ ActorsTyped
  BY DEF Hydrate, TypeOK, ActorsTyped
<1>6. ActorsTyped' /\ actor'[s] = new /\ \A r \in Slot \ {s} : actor'[r] = actor[r]
  <2> HIDE DEF new
  <2> QED
    BY <1>1, <1>4, <1>5, UpdateFacts
<1>7. QED
  <2> HIDE DEF new
  <2> QED
    BY <1>1, <1>4, <1>6 DEF Tasks, Requeued

LEMMA WriteFacts ==
    ASSUME TypeOK, NEW s \in Slot, WriteSnapshot(s), actor[s].lifecycle_state # "Frozen"
    PROVE  LET a == actor[s].agent_id
           IN  /\ a \in Agent
               /\ snapshot' \in [Agent -> Snapshot]
               /\ snapshot'[a].etag = snapshot[a].etag + 1
               /\ snapshot'[a].pending_tasks = actor[s].pending_tasks
               /\ actor[s].etag = snapshot[a].etag
               /\ \A b \in Agent \ {a} : snapshot'[b] = snapshot[b]
<1> DEFINE a == actor[s].agent_id
           sn == [etag |-> snapshot[a].etag + 1, pending_tasks |-> actor[s].pending_tasks]
<1>1. a \in Agent /\ sn \in Snapshot
  BY DEF TypeOK, Snapshot, Actor
<1>2. QED
  BY <1>1 DEF TypeOK, WriteSnapshot, ETagMatches

------------------------------------------------------------------------------
(* Type correctness *)

LEMMA FillsType == Fills \subseteq Nat /\ 0 \in Fills
  BY SMT, BackpressureAssumption

LEMMA LimitsType == \A l \in Limits : l \in Nat /\ l < 16777216
  BY SMT, BackpressureAssumption

LEMMA InitType == Init => TypeOK
<1>1. NoActor \in Actor /\ NoActor.lifecycle_state = "Frozen"
  BY NoActorFacts
<1>2. QED
  BY <1>1, RuntimeAssumption, FillsType
  DEF Init, TypeOK, Snapshot, BackpressureStatus

LEMMA InType == ASSUME NEW states PROVE Cardinality(In(states)) \in Nat
<1>1. In(states) \subseteq Slot
  BY DEF In
<1>2. QED
  BY <1>1, FS_Subset, FS_CardinalityType, RuntimeAssumption

LEMMA PublishType == ASSUME TypeOK, Publish PROVE TypeOK'
<1>1. /\ Cardinality(In({"Active", "Draining", "Freezing"})) \in Nat
      /\ Cardinality(In({"Hydrating"})) \in Nat
  BY InType
<1>2. status' \in BackpressureStatus
  BY <1>1, RuntimeAssumption DEF Publish, BackpressureStatus
<1>3. QED
  BY <1>2 DEF Publish, TypeOK

Enter(s) ==
    \/ \E a \in Agent, t \in Task : DispatchToFrozen(s, a, t)
    \/ \E t \in Task : Dispatch(s, t)
    \/ \E a \in Agent : Recover(s, a)

Work(s) == \E t \in Task : HandleTask(s, t) \/ RunPending(s, t) \/ FinishTask(s, t)

(* A step that takes or finishes tasks keeps the other fields of its actor. *)
LEMMA WorkFacts ==
    ASSUME TypeOK, NEW s \in Slot, Work(s)
    PROVE  /\ ActorsTyped'
           /\ actor[s].lifecycle_state \in {"Active", "Draining"}
           /\ actor'[s].lifecycle_state = actor[s].lifecycle_state
           /\ actor'[s].agent_id = actor[s].agent_id
           /\ actor'[s].etag = actor[s].etag
           /\ Tasks(s) \subseteq Tasks(s)' \cup Ended'
           /\ \A r \in Slot \ {s} : actor'[r] = actor[r]
           /\ Ended \subseteq Ended' /\ completed' \subseteq Task /\ failed' \subseteq Task
           /\ UNCHANGED <<snapshot, quarantined, status, dispatched>>
<1>1. PICK t \in Task : HandleTask(s, t) \/ RunPending(s, t) \/ FinishTask(s, t)
  BY DEF Work
<1>2. /\ actor[s].lifecycle_state \in {"Active", "Draining"}
      /\ UNCHANGED <<snapshot, quarantined, status, dispatched>>
  BY <1>1 DEF HandleTask, RunPending, FinishTask
<1>3. ActorsTyped /\ actor[s] \in Actor
  BY DEF TypeOK, ActorsTyped
<1>4. /\ Ended \subseteq Ended' /\ completed' \subseteq Task /\ failed' \subseteq Task
  BY <1>1 DEF HandleTask, RunPending, FinishTask, End, Ended, TypeOK
<1>5. \E inbox, pending, running \in SUBSET Task :
          /\ Hold(s, inbox, pending, running)
          /\ Tasks(s) \subseteq inbox \cup pending \cup running \cup Ended'
  <2>1. CASE HandleTask(s, t)
    <3> DEFINE inbox == actor[s].inbox \ {t}
    <3>1. /\ inbox \in SUBSET Task /\ actor[s].pending_tasks \in SUBSET Task
          /\ actor[s].running \in SUBSET Task
          /\ actor[s].pending_tasks \cup {t} \in SUBSET Task
          /\ actor[s].running \cup {t} \in SUBSET Task
      BY <1>3 DEF Actor
    <3>2. CASE Hold(s, inbox, actor[s].pending_tasks, actor[s].running) /\ End(t)
      <4>1. t \in Ended'
        BY <3>2 DEF End, Ended
      <4>2. Tasks(s) \subseteq inbox \cup actor[s].pending_tasks \cup actor[s].running
                                \cup Ended'
        BY <4>1 DEF Tasks
      <4>3. QED
        BY <3>1, <3>2, <4>2
    <3>3. CASE Hold(s, inbox, actor[s].pending_tasks \cup {t}, actor[s].running)
      <4>1. Tasks(s) \subseteq inbox \cup (actor[s].pending_tasks \cup {t})
                                \cup actor[s].running \cup Ended'
        BY DEF Tasks
      <4>2. QED
        BY <3>1, <3>3, <4>1
    <3>4. CASE Hold(s, inbox, actor[s].pending_tasks, actor[s].running \cup {t})
      <4>1. Tasks(s) \subseteq inbox \cup actor[s].pending_tasks
                                \cup (actor[s].running \cup {t}) \cup Ended'
        BY DEF Tasks
      <4>2. QED
        BY <3>1, <3>4, <4>1
    <3>5. QED
      BY <2>1, <3>2, <3>3, <3>4 DEF HandleTask
  <2>2. CASE RunPending(s, t)
    <3> DEFINE pending == actor[s].pending_tasks \ {t}
               running == actor[s].running \cup {t}
    <3>1. /\ Hold(s, actor[s].inbox, pending, running)
          /\ actor[s].inbox \in SUBSET Task /\ pending \in SUBSET Task
          /\ running \in SUBSET Task
      BY <1>3, <2>2 DEF RunPending, Actor
    <3>2. Tasks(s) \subseteq actor[s].inbox \cup pending \cup running \cup Ended'
      BY DEF Tasks
    <3>3. QED
      BY <3>1, <3>2
  <2>3. CASE FinishTask(s, t)
    <3> DEFINE running == actor[s].running \ {t}
    <3>1. /\ Hold(s, actor[s].inbox, actor[s].pending_tasks, running)
          /\ actor[s].inbox \in SUBSET Task /\ actor[s].pending_tasks \in SUBSET Task
          /\ running \in SUBSET Task
      BY <1>3, <2>3 DEF FinishTask, Actor
    <3>2. t \in Ended'
      BY <2>3 DEF FinishTask, End, Ended
    <3>3. Tasks(s) \subseteq actor[s].inbox \cup actor[s].pending_tasks \cup running
                              \cup Ended'
      BY <3>2 DEF Tasks
    <3>4. QED
      BY <3>1, <3>3
  <2>4. QED
    BY <1>1, <2>1, <2>2, <2>3
<1>6. PICK inbox, pending, running \in SUBSET Task :
          /\ Hold(s, inbox, pending, running)
          /\ Tasks(s) \subseteq inbox \cup pending \cup running \cup Ended'
  BY <1>5
<1>7. /\ ActorsTyped'
      /\ actor'[s].lifecycle_state = actor[s].lifecycle_state
      /\ actor'[s].agent_id = actor[s].agent_id
      /\ actor'[s].etag = actor[s].etag
      /\ Tasks(s)' = inbox \cup pending \cup running
      /\ \A r \in Slot \ {s} : actor'[r] = actor[r]
  <2>1. actor[s].lifecycle_state # "Frozen"
    BY <1>2
  <2>2. QED
    BY <1>3, <1>6, <2>1, HoldFacts
<1>8. QED
  BY <1>2, <1>4, <1>6, <1>7

(* A step that dispatches a task or recovers an agent forgets no task. *)
LEMMA EnterFacts ==
    ASSUME TypeOK, NEW s \in Slot, Enter(s)
    PROVE  /\ ActorsTyped'
           /\ actor'[s].lifecycle_state \in {"Hydrating", "Active"}
           /\ actor'[s].lifecycle_state = "Active" =>
                 /\ actor[s].lifecycle_state = "Active"
                 /\ actor'[s].agent_id = actor[s].agent_id
                 /\ actor'[s].etag = actor[s].etag
           /\ Tasks(s) \subseteq Tasks(s)'
           /\ \A r \in Slot \ {s} : actor'[r] = actor[r]
           /\ dispatched' \subseteq Task /\ quarantined' \subseteq Agent
           /\ UNCHANGED <<snapshot, status, completed, failed>>
<1>1. ActorsTyped /\ actor[s] \in Actor
  BY DEF TypeOK, ActorsTyped
<1>2. ASSUME NEW a \in Agent, NEW tasks \in SUBSET Task, Start(s, a, tasks)
      PROVE  /\ ActorsTyped'
             /\ actor'[s].lifecycle_state = "Hydrating"
             /\ Tasks(s) \subseteq Tasks(s)'
             /\ \A r \in Slot \ {s} : actor'[r] = actor[r]
  BY <1>1, <1>2, StartFacts
<1>3. CASE \E a \in Agent, t \in Task : DispatchToFrozen(s, a, t)
  <2>1. PICK a \in Agent, t \in Task : DispatchToFrozen(s, a, t)
    BY <1>3
  <2>2. Start(s, a, {t}) /\ {t} \in SUBSET Task
    BY <2>1 DEF DispatchToFrozen
  <2>3. /\ dispatched' \subseteq Task /\ quarantined' \subseteq Agent
        /\ UNCHANGED <<snapshot, status, completed, failed>>
    BY <2>1 DEF DispatchToFrozen, TypeOK
  <2>4. QED
    BY <1>2, <2>2, <2>3
<1>4. CASE \E t \in Task : Dispatch(s, t)
  <2>1. PICK t \in Task : Dispatch(s, t)
    BY <1>4
  <2>2. /\ actor[s].lifecycle_state \in {"Hydrating", "Active"}
        /\ Hold(s, actor[s].inbox \cup {t}, actor[s].pending_tasks, actor[s].running)
        /\ dispatched' \subseteq Task /\ quarantined' \subseteq Agent
        /\ UNCHANGED <<snapshot, status, completed, failed>>
    BY <2>1 DEF Dispatch, TypeOK
  <2>3. /\ actor[s].inbox \cup {t} \in SUBSET Task
        /\ actor[s].pending_tasks \in SUBSET Task /\ actor[s].running \in SUBSET Task
    BY <1>1 DEF Actor
  <2>4. /\ ActorsTyped'
        /\ actor'[s].lifecycle_state = actor[s].lifecycle_state
        /\ actor'[s].agent_id = actor[s].agent_id
        /\ actor'[s].etag = actor[s].etag
        /\ Tasks(s)' = (actor[s].inbox \cup {t}) \cup actor[s].pending_tasks
                           \cup actor[s].running
        /\ \A r \in Slot \ {s} : actor'[r] = actor[r]
    <3>1. actor[s].lifecycle_state # "Frozen"
      BY <2>2
    <3>2. QED
      BY <1>1, <2>2, <2>3, <3>1, HoldFacts
  <2>5. Tasks(s) \subseteq Tasks(s)'
    BY <2>4 DEF Tasks
  <2>6. QED
    BY <2>2, <2>4, <2>5
<1>5. CASE \E a \in Agent : Recover(s, a)
  <2>1. PICK a \in Agent : Recover(s, a)
    BY <1>5
  <2>2. Start(s, a, {})
    BY <2>1 DEF Recover
  <2>3. /\ dispatched' \subseteq Task /\ quarantined' \subseteq Agent
        /\ UNCHANGED <<snapshot, status, completed, failed>>
    BY <2>1 DEF Recover, TypeOK
  <2>4. QED
    BY <1>2, <2>2, <2>3
<1>6. QED
  BY <1>3, <1>4, <1>5 DEF Enter

(* An actor that fails stops, and at most writes the snapshot of its agent. *)
LEMMA FailFacts ==
    ASSUME TypeOK, NEW s \in Slot, Fail(s)
    PROVE  /\ ActorsTyped'
           /\ actor'[s].lifecycle_state = "Frozen"
           /\ \A r \in Slot \ {s} : actor'[r] = actor[r]
           /\ \/ UNCHANGED snapshot
              \/ WriteSnapshot(s) /\ actor[s].lifecycle_state \in Loaded /\ Quarantine(s)
           /\ quarantined' \subseteq Agent
           /\ UNCHANGED <<status, dispatched, completed, failed>>
<1>1. Stop(s) /\ ActorsTyped
  BY DEF Fail, HydrateFails, HydrationTimesOut, FreezeConflicts, Quarantine, Crash,
         TypeOK, ActorsTyped
<1>2. quarantined' \subseteq Agent
  BY DEF Fail, HydrateFails, HydrationTimesOut, FreezeConflicts, Quarantine, Crash, TypeOK
<1>3. /\ \/ UNCHANGED snapshot
         \/ WriteSnapshot(s) /\ actor[s].lifecycle_state \in Loaded /\ Quarantine(s)
      /\ UNCHANGED <<status, dispatched, completed, failed>>
  BY DEF Fail, HydrateFails, HydrationTimesOut, FreezeConflicts, Quarantine, Crash, Loaded
<1>4. QED
  BY <1>1, <1>2, <1>3, StopFacts

(* Draining and freezing start with a change of the lifecycle state. *)
LEMMA TurnFacts ==
    ASSUME TypeOK, NEW s \in Slot, Drain(s) \/ StartFreeze(s)
    PROVE  /\ ActorsTyped'
           /\ actor[s].lifecycle_state \in Loaded
           /\ actor'[s].lifecycle_state = "Freezing" => Drained(s)'
           /\ actor'[s].agent_id = actor[s].agent_id
           /\ actor'[s].etag = actor[s].etag
           /\ Tasks(s)' = Tasks(s)
           /\ \A r \in Slot \ {s} : actor'[r] = actor[r]
           /\ UNCHANGED <<snapshot, quarantined, status, dispatched, completed, failed>>
<1>1. ActorsTyped
  BY DEF TypeOK, ActorsTyped
<1>2. CASE Drain(s)
  <2>1. Goto(s, "Draining") /\ actor[s].lifecycle_state = "Active"
    BY <1>2 DEF Drain
  <2>2. QED
    BY <1>1, <1>2, <2>1, GotoFacts DEF Drain, Loaded, State
<1>3. CASE StartFreeze(s)
  <2>1. /\ Goto(s, "Freezing") /\ actor[s].lifecycle_state = "Draining"
        /\ Drained(s)
    BY <1>3 DEF StartFreeze
  <2>2. QED
    BY <1>1, <1>3, <2>1, GotoFacts DEF StartFreeze, Loaded, State
<1>4. QED
  BY <1>2, <1>3

(* Freeze writes and, unless its acknowledgement is lost, stops. *)
LEMMA FreezeFacts ==
    ASSUME TypeOK, NEW s \in Slot, Freeze(s)
    PROVE  /\ ActorsTyped'
           /\ actor[s].lifecycle_state = "Freezing"
           /\ WriteSnapshot(s)
           /\ actor'[s].lifecycle_state = "Frozen" \/ UNCHANGED actor
           /\ \A r \in Slot \ {s} : actor'[r] = actor[r]
           /\ UNCHANGED <<quarantined, status, dispatched, completed, failed>>
<1>1. ActorsTyped
  BY DEF TypeOK, ActorsTyped
<1>2. CASE Stop(s)
  BY <1>1, <1>2, StopFacts DEF Freeze
<1>3. CASE UNCHANGED actor
  BY <1>1, <1>3 DEF Freeze, ActorsTyped
<1>4. QED
  BY <1>2, <1>3 DEF Freeze

LEMMA ActType == ASSUME TypeOK, NEW s \in Slot, Act(s) PROVE TypeOK'
<1>1. CASE Hydrate(s)
  BY <1>1, HydrateFacts DEF Hydrate, ActorsTyped, TypeOK
<1>2. CASE Work(s)
  BY <1>2, WorkFacts DEF ActorsTyped, TypeOK
<1>3. CASE Drain(s) \/ StartFreeze(s)
  BY <1>3, TurnFacts DEF ActorsTyped, TypeOK
<1>4. CASE Freeze(s)
  <2>1. snapshot' \in [Agent -> Snapshot]
    BY <1>4, FreezeFacts, WriteFacts
  <2>2. QED
    BY <1>4, <2>1, FreezeFacts DEF ActorsTyped, TypeOK
<1>5. CASE Fail(s)
  <2>1. snapshot' \in [Agent -> Snapshot]
    BY <1>5, FailFacts, WriteFacts DEF Loaded, TypeOK
  <2>2. QED
    BY <1>5, <2>1, FailFacts DEF ActorsTyped, TypeOK
<1>6. QED
  BY <1>1, <1>2, <1>3, <1>4, <1>5 DEF Act, Work

LEMMA NextType == TypeOK /\ [Next]_vars => TypeOK'
<1> SUFFICES ASSUME TypeOK, [Next]_vars PROVE TypeOK'
  OBVIOUS
<1>1. CASE Publish
  BY <1>1, PublishType
<1>2. ASSUME NEW s \in Slot, Act(s) PROVE TypeOK'
  BY <1>2, ActType
<1>3. ASSUME NEW s \in Slot, Enter(s) PROVE TypeOK'
  BY <1>3, EnterFacts DEF ActorsTyped, TypeOK
<1>4. CASE UNCHANGED vars
  BY <1>4 DEF vars, TypeOK
<1>5. QED
  BY <1>1, <1>2, <1>3, <1>4 DEF Next, Enter

(* Snapshots, actors and the status keep their types, and an actor in       *)
(* memory has an agent, in every instance (agent.rs:73-93, 338-379).       *)
THEOREM TypeCorrect == Spec => []TypeOK
BY InitType, NextType, PTL DEF Spec

------------------------------------------------------------------------------
(* Copies of the snapshots *)

(* The actors that a step leaves alone keep a valid copy, whether or not   *)
(* the step writes the snapshot of their agent.                            *)
LEMMA OtherCopies ==
    ASSUME TypeOK, NEW r \in Slot, CopyInv(r), actor'[r] = actor[r],
           Ended \subseteq Ended',
           \A b \in Agent : \/ snapshot'[b] = snapshot[b]
                            \/ snapshot'[b].etag = snapshot[b].etag + 1
    PROVE  CopyInv(r)'
<1> SUFFICES ASSUME actor[r].lifecycle_state \in Loaded PROVE CopyInv(r)'
  BY DEF CopyInv
<1> DEFINE b == actor[r].agent_id
<1>1. b \in Agent /\ actor[r].etag \in Nat
  BY DEF TypeOK, Loaded, Actor
<1>2. snapshot[b].etag \in Nat
  BY <1>1 DEF TypeOK, Snapshot
<1>3. /\ actor[r].etag <= snapshot[b].etag
      /\ actor[r].etag = snapshot[b].etag
            => snapshot[b].pending_tasks \subseteq Tasks(r) \cup Ended
      /\ actor[r].lifecycle_state = "Freezing" => Drained(r)
  BY DEF CopyInv
<1>4. Tasks(r)' = Tasks(r) /\ Drained(r)' = Drained(r)
  BY DEF Tasks, Drained
<1>5. CASE snapshot'[b] = snapshot[b]
  BY <1>3, <1>4, <1>5 DEF CopyInv
<1>6. CASE snapshot'[b].etag = snapshot[b].etag + 1
  <2>1. actor[r].etag <= snapshot'[b].etag /\ actor[r].etag # snapshot'[b].etag
    BY <1>1, <1>2, <1>3, <1>6
  <2>2. QED
    BY <1>3, <1>4, <2>1 DEF CopyInv
<1>7. QED
  BY <1>1, <1>5, <1>6

(* A write by the holder of the current ETag moves on one version, and     *)
(* drops from the snapshot only what that actor has or what has ended.     *)
LEMMA WriteKeeps ==
    ASSUME TypeOK, NEW s \in Slot, CopyInv(s), WriteSnapshot(s),
           actor[s].lifecycle_state \in Loaded
    PROVE  /\ \A b \in Agent : \/ snapshot'[b] = snapshot[b]
                               \/ snapshot'[b].etag = snapshot[b].etag + 1
           /\ \A b \in Agent : b # actor[s].agent_id => snapshot'[b] = snapshot[b]
           /\ actor[s].agent_id \in Agent
           /\ snapshot'[actor[s].agent_id].pending_tasks = actor[s].pending_tasks
           /\ snapshot[actor[s].agent_id].pending_tasks \subseteq Tasks(s) \cup Ended
<1>1. actor[s].lifecycle_state # "Frozen"
  BY DEF Loaded
<1>2. QED
  BY <1>1, WriteFacts DEF CopyInv

LEMMA ActCopies ==
    ASSUME TaskInv, NEW s \in Slot, Act(s) PROVE \A r \in Slot : CopyInv(r)'
<1> USE DEF TaskInv
<1>1. ASSUME UNCHANGED snapshot, Ended \subseteq Ended', CopyInv(s)',
             \A r \in Slot \ {s} : actor'[r] = actor[r]
      PROVE  \A r \in Slot : CopyInv(r)'
  BY <1>1, OtherCopies
<1>2. ASSUME WriteSnapshot(s), actor[s].lifecycle_state \in Loaded,
             UNCHANGED <<completed, failed>>,
             \A r \in Slot \ {s} : actor'[r] = actor[r],
             actor'[s].lifecycle_state = "Frozen" \/ UNCHANGED actor
      PROVE  \A r \in Slot : CopyInv(r)'
  <2>1. Ended \subseteq Ended'
    BY <1>2 DEF Ended
  <2>2. \A b \in Agent : \/ snapshot'[b] = snapshot[b]
                         \/ snapshot'[b].etag = snapshot[b].etag + 1
    BY <1>2, WriteKeeps
  <2>3. ASSUME NEW r \in Slot, actor'[r] = actor[r] PROVE CopyInv(r)'
    BY <2>1, <2>2, <2>3, OtherCopies
  <2>4. actor'[s].lifecycle_state = "Frozen" => CopyInv(s)'
    BY DEF CopyInv, Loaded
  <2>5. QED
    BY <1>2, <2>3, <2>4
<1>3. CASE Hydrate(s)
  <2>1. snapshot[actor[s].agent_id].etag \in Nat
    BY <1>3, HydrateFacts DEF TypeOK, Snapshot
  <2>2. UNCHANGED <<snapshot, completed, failed>> /\ Ended' = Ended
    BY <1>3 DEF Hydrate, Ended
  <2>3. CopyInv(s)'
    BY <1>3, <2>1, <2>2, HydrateFacts DEF CopyInv
  <2>4. QED
    BY <1>1, <1>3, <2>2, <2>3, HydrateFacts
<1>4. CASE Work(s)
  <2>1. CopyInv(s)'
    BY <1>4, WorkFacts DEF CopyInv, Loaded
  <2>2. QED
    BY <1>1, <1>4, <2>1, WorkFacts
<1>5. CASE Drain(s) \/ StartFreeze(s)
  <2>1. Ended' = Ended /\ UNCHANGED snapshot
    BY <1>5, TurnFacts DEF Ended
  <2>2. CopyInv(s)'
    BY <1>5, <2>1, TurnFacts DEF CopyInv
  <2>3. QED
    BY <1>1, <1>5, <2>1, <2>2, TurnFacts
<1>6. CASE Freeze(s)
  BY <1>2, <1>6, FreezeFacts DEF Loaded
<1>7. CASE Fail(s)
  <2>1. Ended' = Ended
    BY <1>7, FailFacts DEF Ended
  <2>2. CASE UNCHANGED snapshot
    <3>1. CopyInv(s)'
      BY <1>7, FailFacts DEF CopyInv, Loaded
    <3>2. QED
      BY <1>1, <1>7, <2>1, <2>2, <3>1, FailFacts
  <2>3. CASE WriteSnapshot(s) /\ actor[s].lifecycle_state \in Loaded
    BY <1>2, <1>7, <2>3, FailFacts
  <2>4. QED
    BY <1>7, <2>2, <2>3, FailFacts
<1>8. QED
  BY <1>3, <1>4, <1>5, <1>6, <1>7 DEF Act, Work

LEMMA InitTasks == Init => TaskInv
<1> SUFFICES ASSUME Init PROVE TaskInv
  OBVIOUS
<1>1. \A s \in Slot : CopyInv(s)
  BY NoActorFacts DEF Init, CopyInv, Loaded
<1>2. QED
  BY <1>1, InitType DEF TaskInv

LEMMA NextTasks == TaskInv /\ [Next]_vars => TaskInv'
<1> SUFFICES ASSUME TaskInv, [Next]_vars PROVE TaskInv'
  OBVIOUS
<1>1. TypeOK'
  BY NextType DEF TaskInv
<1>2. CASE Publish \/ UNCHANGED vars
  <2>1. UNCHANGED <<snapshot, actor, completed, failed>>
    BY <1>2 DEF Publish, vars
  <2>2. \A s \in Slot : CopyInv(s)'
    BY <2>1 DEF TaskInv, CopyInv, Tasks, Drained, Ended
  <2>3. QED
    BY <1>1, <2>2 DEF TaskInv
<1>3. ASSUME NEW s \in Slot, Act(s) PROVE TaskInv'
  BY <1>1, <1>3, ActCopies DEF TaskInv
<1>4. ASSUME NEW s \in Slot, Enter(s) PROVE TaskInv'
  <2>1. Ended' = Ended /\ UNCHANGED snapshot
    BY <1>4, EnterFacts DEF TaskInv, Ended
  <2>2. CopyInv(s)'
    BY <1>4, <2>1, EnterFacts DEF TaskInv, CopyInv, Loaded
  <2>3. ASSUME NEW r \in Slot \ {s} PROVE CopyInv(r)'
    BY <1>4, <2>1, <2>3, EnterFacts, OtherCopies DEF TaskInv
  <2>4. QED
    BY <1>1, <2>2, <2>3 DEF TaskInv
<1>5. QED
  BY <1>2, <1>3, <1>4 DEF Next, Enter

------------------------------------------------------------------------------
(* Tasks *)

(* What a step of s keeps of the tasks that are known. *)
LEMMA KnownStep ==
    ASSUME NEW s \in Slot, \A r \in Slot \ {s} : actor'[r] = actor[r],
           Ended \subseteq Ended', NEW t \in Known,
           t \in Tasks(s) => t \in Known',
           \A b \in Agent : t \in snapshot[b].pending_tasks => t \in Known'
    PROVE  t \in Known'
<1>1. \A r \in Slot : Tasks(r)' \subseteq Known'
  BY DEF Known, Held, Pending
<1>2. \A r \in Slot \ {s} : Tasks(r)' = Tasks(r)
  BY DEF Tasks
<1>3. CASE t \in Ended
  BY <1>3 DEF Known
<1>4. CASE \E r \in Slot : t \in Tasks(r)
  BY <1>1, <1>2, <1>4
<1>5. CASE \E b \in Agent : t \in snapshot[b].pending_tasks
  BY <1>5
<1>6. \/ t \in Ended
      \/ \E r \in Slot : t \in Tasks(r)
      \/ \E b \in Agent : t \in snapshot[b].pending_tasks
  BY DEF Known, Held, Pending
<1>7. QED
  BY <1>3, <1>4, <1>5, <1>6

LEMMA PendingIsKnown ==
    \A b \in Agent : snapshot'[b].pending_tasks \subseteq Known'
<1> SUFFICES ASSUME NEW b \in Agent, NEW t \in snapshot'[b].pending_tasks
             PROVE  t \in Known'
  OBVIOUS
<1>1. t \in Pending'
  BY DEF Pending
<1>2. QED
  BY <1>1 DEF Known

(* A step that writes no snapshot and keeps the tasks of its actor. *)
LEMMA QuietStep ==
    ASSUME NEW s \in Slot, \A r \in Slot \ {s} : actor'[r] = actor[r],
           Ended \subseteq Ended', UNCHANGED snapshot,
           Tasks(s) \subseteq Tasks(s)' \cup Ended'
    PROVE  Known \subseteq Known'
<1>1. Tasks(s) \subseteq Known'
  BY DEF Known, Held, Pending
<1>2. \A b \in Agent : snapshot[b].pending_tasks \subseteq Known'
  BY PendingIsKnown
<1>3. QED
  BY <1>1, <1>2, KnownStep

LEMMA FreezeKeepsTasks ==
    ASSUME TaskInv, NEW s \in Slot, Freeze(s) PROVE Known \subseteq Known'
<1> SUFFICES ASSUME NEW t \in Known PROVE t \in Known'
  OBVIOUS
<1>1. /\ actor[s].lifecycle_state = "Freezing" /\ WriteSnapshot(s)
      /\ \A r \in Slot \ {s} : actor'[r] = actor[r]
  BY FreezeFacts DEF TaskInv
<1>2. Ended' = Ended /\ Ended' \subseteq Known'
  BY FreezeFacts DEF TaskInv, Ended, Known
<1>3. Tasks(s) = actor[s].pending_tasks
  BY <1>1 DEF TaskInv, CopyInv, Loaded, Drained, Tasks
<1>4. /\ \A b \in Agent : b # actor[s].agent_id => snapshot'[b] = snapshot[b]
      /\ actor[s].agent_id \in Agent
      /\ snapshot'[actor[s].agent_id].pending_tasks = actor[s].pending_tasks
      /\ snapshot[actor[s].agent_id].pending_tasks \subseteq Tasks(s) \cup Ended
  BY <1>1, WriteKeeps DEF TaskInv, Loaded
<1>5. Tasks(s) \subseteq Known'
  BY <1>3, <1>4, PendingIsKnown
<1>6. \A b \in Agent : snapshot[b].pending_tasks \subseteq Known'
  BY <1>2, <1>4, <1>5, PendingIsKnown
<1>7. QED
  BY <1>1, <1>2, <1>5, <1>6, KnownStep

LEMMA FailKeepsOthers ==
    ASSUME TaskInv, NEW s \in Slot, Fail(s) PROVE Known \ Known' \subseteq Tasks(s)
<1> SUFFICES ASSUME NEW t \in Known, t \notin Tasks(s) PROVE t \in Known'
  OBVIOUS
<1>1. \A r \in Slot \ {s} : actor'[r] = actor[r]
  BY FailFacts DEF TaskInv
<1>2. Ended' = Ended /\ Ended' \subseteq Known'
  BY FailFacts DEF TaskInv, Ended, Known
<1>3. \A b \in Agent : t \in snapshot[b].pending_tasks => t \in Known'
  <2>1. CASE UNCHANGED snapshot
    BY <2>1, PendingIsKnown
  <2>2. CASE WriteSnapshot(s) /\ actor[s].lifecycle_state \in Loaded
    <3>1. /\ \A b \in Agent : b # actor[s].agent_id => snapshot'[b] = snapshot[b]
          /\ snapshot[actor[s].agent_id].pending_tasks \subseteq Tasks(s) \cup Ended
      BY <2>2, WriteKeeps DEF TaskInv
    <3>2. QED
      BY <1>2, <3>1, PendingIsKnown
  <2>3. QED
    BY <2>1, <2>2, FailFacts DEF TaskInv
<1>4. QED
  BY <1>1, <1>2, <1>3, KnownStep

LEMMA ActKeepsTasks ==
    ASSUME TaskInv, NEW s \in Slot, Act(s)
    PROVE  Known \subseteq Known' \/ (Fail(s) /\ Known \ Known' \subseteq Tasks(s))
<1> USE DEF TaskInv
<1>1. CASE Hydrate(s)
  <2>1. Ended' = Ended /\ UNCHANGED snapshot
    BY <1>1 DEF Hydrate, Ended
  <2>2. QED
    BY <1>1, <2>1, HydrateFacts, QuietStep
<1>2. CASE Work(s)
  BY <1>2, WorkFacts, QuietStep
<1>3. CASE Drain(s) \/ StartFreeze(s)
  <2>1. Ended' = Ended
    BY <1>3, TurnFacts DEF Ended
  <2>2. QED
    BY <1>3, <2>1, TurnFacts, QuietStep
<1>4. CASE Freeze(s)
  BY <1>4, FreezeKeepsTasks
<1>5. CASE Fail(s)
  BY <1>5, FailKeepsOthers
<1>6. QED
  BY <1>1, <1>2, <1>3, <1>4, <1>5 DEF Act, Work

(* Whatever the runtime does short of a failure, a task that was dispatched *)
(* stays with an actor or in a snapshot until its handler ends, and a      *)
(* failure costs only the tasks of the actor that failed: for any number   *)
(* of agents and actors (agent.rs:87, 431, 448-450).                       *)
THEOREM LostOnlyInFailureHolds == Spec => LostOnlyInFailure
<1> DEFINE Kept == \A t \in Known \ Known' : \E s \in Slot : Fail(s) /\ t \in Tasks(s)
<1>1. TaskInv /\ [Next]_vars => Kept
  <2> SUFFICES ASSUME TaskInv, [Next]_vars PROVE Kept
    OBVIOUS
  <2>1. CASE Publish \/ UNCHANGED vars
    <3>1. UNCHANGED <<snapshot, actor, completed, failed>>
      BY <2>1 DEF Publish, vars
    <3>2. Known' = Known
      BY <3>1 DEF Known, Held, Pending, Ended, Tasks
    <3>3. QED
      BY <3>2
  <2>2. ASSUME NEW s \in Slot, Act(s) PROVE Kept
    BY <2>2, ActKeepsTasks
  <2>3. ASSUME NEW s \in Slot, Enter(s) PROVE Kept
    <3>1. Ended' = Ended
      BY <2>3, EnterFacts DEF Ended, TaskInv
    <3>2. Known \subseteq Known'
      BY <2>3, <3>1, EnterFacts, QuietStep DEF TaskInv
    <3>3. QED
      BY <3>2
  <2>4. QED
    BY <2>1, <2>2, <2>3 DEF Next, Enter
<1>2. QED
  BY <1>1, InitTasks, NextTasks, PTL DEF Spec, LostOnlyInFailure

(* A pending task leaves the snapshot of its agent only when its handler    *)
(* has ended, or in the emergency freeze of its actor (agent.rs:448-450):   *)
(* the writer holds the current ETag, so it took over this very snapshot,  *)
(* and it has drained its inbox.                                           *)
THEOREM PendingIsKeptHolds == Spec => PendingIsKept
<1> DEFINE Kept == \A a \in Agent :
               \/ Forgotten(a) \subseteq Ended'
               \/ \E s \in Slot : actor[s].agent_id = a /\ Quarantine(s)
<1>1. TaskInv /\ [Next]_vars => Kept
  <2> SUFFICES ASSUME TaskInv, [Next]_vars PROVE Kept
    OBVIOUS
  <2>1. CASE UNCHANGED snapshot
    BY <2>1 DEF Forgotten
  <2>2. ASSUME NEW s \in Slot, Freeze(s) PROVE Kept
    <3>1. actor[s].lifecycle_state = "Freezing" /\ WriteSnapshot(s) /\ Ended' = Ended
      BY <2>2, FreezeFacts DEF TaskInv, Ended
    <3>2. Tasks(s) = actor[s].pending_tasks
      BY <3>1 DEF TaskInv, CopyInv, Loaded, Drained, Tasks
    <3>3. /\ \A b \in Agent : b # actor[s].agent_id => snapshot'[b] = snapshot[b]
          /\ snapshot'[actor[s].agent_id].pending_tasks = actor[s].pending_tasks
          /\ snapshot[actor[s].agent_id].pending_tasks \subseteq Tasks(s) \cup Ended
      BY <3>1, WriteKeeps DEF TaskInv, Loaded
    <3>4. QED
      BY <3>1, <3>2, <3>3 DEF Forgotten
  <2>3. ASSUME NEW s \in Slot, Fail(s) PROVE Kept
    <3>1. CASE WriteSnapshot(s) /\ actor[s].lifecycle_state \in Loaded /\ Quarantine(s)
      <4>1. \A b \in Agent : b # actor[s].agent_id => snapshot'[b] = snapshot[b]
        BY <3>1, WriteKeeps DEF TaskInv
      <4>2. QED
        BY <3>1, <4>1 DEF Forgotten
    <3>2. QED
      BY <2>1, <2>3, <3>1, FailFacts DEF TaskInv
  <2>4. ASSUME NEW s \in Slot, Act(s) PROVE Kept
    <3>1. CASE Hydrate(s) \/ Work(s) \/ Drain(s) \/ StartFreeze(s)
      BY <2>1, <3>1 DEF Hydrate, Work, HandleTask, RunPending, FinishTask, Drain, StartFreeze
    <3>2. QED
      BY <2>2, <2>3, <2>4, <3>1 DEF Act, Work
  <2>5. QED
    BY <2>1, <2>4 DEF Next, Publish, DispatchToFrozen, Dispatch, Recover, vars
<1>2. QED
  BY <1>1, InitTasks, NextTasks, PTL DEF Spec, PendingIsKept

------------------------------------------------------------------------------
(* Backpressure *)

LEMMA UnitExists ==
    ASSUME NEW n \in Nat, n < 281474976710656
    PROVE  Unit(n) \in Units /\ IsUnit(Unit(n), n)
<1>1. \E u \in Units : IsUnit(u, n)
  <2>1. n < 16777216 => IsUnit(1, n)
    BY SMT DEF IsUnit
  <2>2. QED
    BY SMT, <2>1 DEF Units, IsUnit
<1>2. QED
  BY SMT, <1>1 DEF Unit

(* Rounding changes n by at most one part in 2^24. *)
LEMMA RoundedBound ==
    ASSUME NEW n \in Nat, n < 281474976710656
    PROVE  /\ Rounded(n) \in Nat
           /\ 16777216 * Rounded(n) <= 16777217 * n
           /\ 16777216 * Rounded(n) >= 16777215 * n
<1> DEFINE u == Unit(n)
           r == n % u
<1>1. u \in Nat \ {0} /\ (u = 1 \/ 8388608 * u <= n)
  BY SMT, UnitExists DEF Units, IsUnit
<1>2. r \in Nat /\ r < u /\ r <= n
  BY SMT, <1>1
<1>3. \/ Rounded(n) = n - r /\ 2 * r <= u
      \/ Rounded(n) = n - r + u /\ 2 * r >= u
  BY SMT, <1>1, <1>2 DEF Rounded
<1>4. u = 1 => r = 0
  BY SMT, <1>2
<1> HIDE DEF u, r
<1>5. QED
  BY SMT, <1>1, <1>2, <1>3, <1>4

LEMMA ThresholdsOrdered ==
    ASSUME NEW limit \in Nat, limit < 16777216
    PROVE  /\ ThrottleThreshold(limit) \in Nat /\ CriticalThreshold(limit) \in Nat
           /\ ThrottleThreshold(limit) <= CriticalThreshold(limit)
<1> DEFINE t == limit * 13421773
           c == limit * 15938355
<1>1. /\ t \in Nat /\ t < 281474976710656
      /\ c \in Nat /\ c < 281474976710656
      /\ 16777217 * t <= 16777215 * c
  BY SMT
<1>2. ThrottleThreshold(limit) = Rounded(t) \div 16777216
  BY SMT DEF ThrottleThreshold, Product, THROTTLE_AGENT_RATIO
<1>3. CriticalThreshold(limit) = Rounded(c) \div 16777216
  BY SMT DEF CriticalThreshold, Product, CRITICAL_AGENT_RATIO
<1> HIDE DEF t, c
<1>4. Rounded(t) \in Nat /\ Rounded(c) \in Nat /\ Rounded(t) <= Rounded(c)
  BY SMT, <1>1, RoundedBound
<1>5. QED
  BY SMT, <1>2, <1>3, <1>4

LEMMA CriticalThrottles ==
    ASSUME NEW s \in BackpressureStatus, IsCritical(s) PROVE ShouldThrottle(s)
<1>1. s.active_agent_count \in Nat /\ s.l3_egress_buffer_fill_pct \in Nat
  <2>1. s.active_agent_count \in Nat /\ s.l3_egress_buffer_fill_pct \in Fills
    BY DEF BackpressureStatus
  <2>2. QED
    BY <2>1, FillsType
<1>2. s.active_agent_limit \in Nat /\ s.active_agent_limit < 16777216
  <2>1. s.active_agent_limit \in Limits
    BY DEF BackpressureStatus
  <2>2. QED
    BY <2>1, LimitsType
<1>3. /\ ThrottleThreshold(s.active_agent_limit) \in Nat
      /\ CriticalThreshold(s.active_agent_limit) \in Nat
      /\ ThrottleThreshold(s.active_agent_limit)
             <= CriticalThreshold(s.active_agent_limit)
  BY SMT, <1>2, ThresholdsOrdered
<1>4. QED
  BY SMT, <1>1, <1>3 DEF IsCritical, ShouldThrottle

(* Critical pressure throttles too, at every limit that f32 holds exactly   *)
(* (agent.rs:540, 553): rounding moves a product by one part in 2^24 at    *)
(* most, and the ratios are further apart.                                 *)
THEOREM CriticalIsThrottledHolds == Spec => []CriticalIsThrottled
<1>1. TypeOK => CriticalIsThrottled
  BY CriticalThrottles DEF TypeOK, CriticalIsThrottled
<1>2. QED
  BY <1>1, InitType, NextType, PTL DEF Spec
==============================================================================
