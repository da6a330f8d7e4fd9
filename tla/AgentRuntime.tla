----------------------------- MODULE AgentRuntime -----------------------------
(***************************************************************************)
(* The life of agents and their tasks in the swarm runtime, as the types   *)
(* and traits of crates/af-swarm-runtime/src/agent.rs lay it down: the     *)
(* orchestrator dispatches tasks while the published BackpressureStatus    *)
(* lets it, an actor hydrates an agent from its AgentSnapshot, works off   *)
(* its inbox, drains, and freezes what is left into the snapshot, guarded  *)
(* by the ETag of its hydration.                                           *)
(*                                                                         *)
(* External, modelled from what src/ requires of them: the supervisor, the *)
(* orchestrator and the actors (the traits have no implementation in the   *)
(* repository) and the store behind StateClient.  Actor placement may be   *)
(* split, so an agent can have two actors.                                 *)
(*                                                                         *)
(* Data: an agent's working memory and history are left out.  A task of an *)
(* actor is in its inbox (a channel, which no snapshot holds), in its list *)
(* of pending tasks, or running.                                           *)
(***************************************************************************)
EXTENDS Integers, FiniteSets, Backpressure

CONSTANTS Agent, Task,
          Slot,        \* places for actors in the runtime's processes
          Limit,       \* active_agent_limit
          Nobody,      \* no agent
          MaxWrites    \* bound: writes of one snapshot

ASSUME RuntimeAssumption ==
    /\ IsFiniteSet(Slot)
    /\ Limit \in Limits
    /\ Nobody \notin Agent
    /\ MaxWrites \in Nat

VARIABLES
    snapshot,     \* the durable AgentSnapshot and its ETag
    quarantined,  \* agents that are not restarted
    actor,        \* the actors in memory
    status,       \* the BackpressureStatus last published
    dispatched,
    completed,    \* tasks with a TaskResult
    failed        \* tasks whose handler ended in an error, without one

vars == <<snapshot, quarantined, actor, status, dispatched, completed, failed>>

State == {"Frozen", "Hydrating", "Active", "Draining", "Freezing"}

Snapshot == [etag : Nat, pending_tasks : SUBSET Task]

Actor == [lifecycle_state : State, agent_id : Agent \cup {Nobody}, etag : Nat,
          inbox : SUBSET Task, pending_tasks : SUBSET Task, running : SUBSET Task]

Fresh(a) == [lifecycle_state |-> "Hydrating", agent_id |-> a, etag |-> 0,
             inbox |-> {}, pending_tasks |-> {}, running |-> {}]
NoActor == [Fresh(Nobody) EXCEPT !.lifecycle_state = "Frozen"]

TypeOK ==
    /\ snapshot \in [Agent -> Snapshot]
    /\ quarantined \subseteq Agent
    /\ actor \in [Slot -> Actor]
    /\ \A s \in Slot : actor[s].lifecycle_state # "Frozen" => actor[s].agent_id \in Agent
    /\ status \in BackpressureStatus
    /\ dispatched \subseteq Task /\ completed \subseteq Task /\ failed \subseteq Task

Init ==
    /\ snapshot = [a \in Agent |-> [etag |-> 1, pending_tasks |-> {}]]
    /\ quarantined = {}
    /\ actor = [s \in Slot |-> NoActor]
    /\ status = [active_agent_count |-> 0, active_agent_limit |-> Limit,
                 l3_egress_buffer_fill_pct |-> 0, pending_hydrations |-> 0]
    /\ dispatched = {} /\ completed = {} /\ failed = {}

Tasks(s) == actor[s].inbox \cup actor[s].pending_tasks \cup actor[s].running
In(states) == {s \in Slot : actor[s].lifecycle_state \in states}

------------------------------------------------------------------------------
(* The supervisor and the orchestrator *)

Publish ==
    /\ \E fill \in Fills :
          status' = [active_agent_count |->
                         Cardinality(In({"Active", "Draining", "Freezing"})),
                     active_agent_limit |-> Limit,
                     l3_egress_buffer_fill_pct |-> fill,
                     pending_hydrations |-> Cardinality(In({"Hydrating"}))]
    /\ UNCHANGED <<snapshot, quarantined, actor, dispatched, completed, failed>>

Start(s, a, tasks) ==
    /\ actor[s] = NoActor
    /\ actor' = [actor EXCEPT ![s] = [Fresh(a) EXCEPT !.inbox = tasks]]

(* A task for an agent that is not in memory starts an actor for it. *)
DispatchToFrozen(s, a, t) ==
    /\ ~ShouldThrottle(status)
    /\ a \notin quarantined
    /\ t \notin dispatched
    /\ dispatched' = dispatched \cup {t}
    /\ Start(s, a, {t})
    /\ UNCHANGED <<snapshot, quarantined, status, completed, failed>>

Hold(s, inbox, pending, running) ==
    actor' = [actor EXCEPT ![s] = [actor[s] EXCEPT !.inbox = inbox,
                                                   !.pending_tasks = pending,
                                                   !.running = running]]

(* The inbox of a draining actor is closed. *)
Dispatch(s, t) ==
    /\ ~ShouldThrottle(status)
    /\ actor[s].lifecycle_state \in {"Hydrating", "Active"}
    /\ t \notin dispatched
    /\ dispatched' = dispatched \cup {t}
    /\ Hold(s, actor[s].inbox \cup {t}, actor[s].pending_tasks, actor[s].running)
    /\ UNCHANGED <<snapshot, quarantined, status, completed, failed>>

(* LifecycleCommand::Recover *)
Recover(s, a) ==
    /\ a \in quarantined
    /\ quarantined' = quarantined \ {a}
    /\ Start(s, a, {})
    /\ UNCHANGED <<snapshot, status, dispatched, completed, failed>>

------------------------------------------------------------------------------
(* An actor *)

StopHalfway(s) == actor' = [actor EXCEPT ![s] = [actor[s] EXCEPT !.agent_id = Nobody]]
Stop(s) == actor' = [actor EXCEPT ![s] = NoActor]

Goto(s, state) ==
    actor' = [actor EXCEPT ![s] = [actor[s] EXCEPT !.lifecycle_state = state]]

Requeued(s) == actor[s].inbox \cup snapshot[actor[s].agent_id].pending_tasks

(* read_agent_snapshot, and Hydrate::hydrate: the pending tasks are put    *)
(* into the inbox.                                                         *)
Hydrate(s) ==
    /\ actor[s].lifecycle_state = "Hydrating"
    /\ actor' = [actor EXCEPT ![s] =
                    [actor[s] EXCEPT !.lifecycle_state = "Active",
                                     !.etag = snapshot[actor[s].agent_id].etag,
                                     !.inbox = Requeued(s)]]
    /\ UNCHANGED <<snapshot, quarantined, status, dispatched, completed, failed>>

(* The read, the deserialization or the migration of the snapshot fails. *)
HydrateFails(s) ==
    /\ actor[s].lifecycle_state = "Hydrating"
    /\ Stop(s)
    /\ UNCHANGED <<snapshot, quarantined, status, dispatched, completed, failed>>

(* HYDRATION_TIMEOUT_SECS pass: the supervisor quarantines the agent. *)
HydrationTimesOut(s) ==
    /\ actor[s].lifecycle_state = "Hydrating"
    /\ quarantined' = quarantined \cup {actor[s].agent_id}
    /\ Stop(s)
    /\ UNCHANGED <<snapshot, status, dispatched, completed, failed>>

(* A handler ends: with a TaskResult, or with an AgentError (a caught      *)
(* panic, say), of which the actor keeps nothing and publishes nothing.    *)
End(t) ==
    \/ completed' = completed \cup {t} /\ UNCHANGED failed
    \/ failed' = failed \cup {t} /\ UNCHANGED completed

(* handle_message with a task; it may return None, with the task queued by *)
(* the agent or still running.                                             *)
HandleTask(s, t) ==
    LET inbox == actor[s].inbox \ {t}
    IN  /\ actor[s].lifecycle_state \in {"Active", "Draining"}
        /\ t \in actor[s].inbox
        /\ \/ /\ Hold(s, inbox, actor[s].pending_tasks, actor[s].running)
              /\ End(t)
           \/ /\ Hold(s, inbox, actor[s].pending_tasks \cup {t}, actor[s].running)
              /\ UNCHANGED <<completed, failed>>
           \/ /\ Hold(s, inbox, actor[s].pending_tasks, actor[s].running \cup {t})
              /\ UNCHANGED <<completed, failed>>
        /\ UNCHANGED <<snapshot, quarantined, status, dispatched>>

(* The agent takes up a task it has queued. *)
RunPending(s, t) ==
    /\ actor[s].lifecycle_state \in {"Active", "Draining"}
    /\ t \in actor[s].pending_tasks
    /\ Hold(s, actor[s].inbox, actor[s].pending_tasks \ {t}, actor[s].running \cup {t})
    /\ UNCHANGED <<snapshot, quarantined, status, dispatched, completed, failed>>

FinishTask(s, t) ==
    /\ actor[s].lifecycle_state \in {"Active", "Draining"}
    /\ t \in actor[s].running
    /\ Hold(s, actor[s].inbox, actor[s].pending_tasks, actor[s].running \ {t})
    /\ End(t)
    /\ UNCHANGED <<snapshot, quarantined, status, dispatched>>

(* LifecycleCommand::Drain: the inbox is closed.  Freeze follows once what *)
(* is in flight is finished; tasks that the agent has queued may remain.   *)
Drain(s) ==
    /\ actor[s].lifecycle_state = "Active"
    /\ Goto(s, "Draining")
    /\ UNCHANGED <<snapshot, quarantined, status, dispatched, completed, failed>>

InboxIgnored(s) == actor[s].running = {}
Drained(s) == actor[s].inbox = {} /\ actor[s].running = {}

StartFreeze(s) ==
    /\ actor[s].lifecycle_state = "Draining"
    /\ Drained(s)
    /\ Goto(s, "Freezing")
    /\ UNCHANGED <<snapshot, quarantined, status, dispatched, completed, failed>>

(* write_agent_snapshot is applied iff the ETag is still that of the       *)
(* store; neither the inbox nor what is running is in the snapshot.        *)
ETagIgnored(s) == TRUE
ETagMatches(s) == actor[s].etag = snapshot[actor[s].agent_id].etag

WriteSnapshot(s) ==
    LET a == actor[s].agent_id
    IN  /\ snapshot[a].etag < MaxWrites
        /\ ETagMatches(s)
        /\ snapshot' = [snapshot EXCEPT ![a] = [etag |-> snapshot[a].etag + 1,
                                                pending_tasks |-> actor[s].pending_tasks]]

Freeze(s) ==
    /\ actor[s].lifecycle_state = "Freezing"
    /\ WriteSnapshot(s)
    /\ \/ Stop(s)
       \/ UNCHANGED actor    \* the acknowledgement is lost
    /\ UNCHANGED <<quarantined, status, dispatched, completed, failed>>

(* FreezeError::ETagConflict *)
FreezeConflicts(s) ==
    /\ actor[s].lifecycle_state = "Freezing"
    /\ ~ETagMatches(s)
    /\ Stop(s)
    /\ UNCHANGED <<snapshot, quarantined, status, dispatched, completed, failed>>

(* A handler panics past its restart budget: an emergency freeze, which    *)
(* does not wait for the inbox, or the last snapshot if that does not      *)
(* succeed, and quarantine.                                                *)
Quarantine(s) ==
    /\ actor[s].lifecycle_state \in {"Active", "Draining"}
    /\ quarantined' = quarantined \cup {actor[s].agent_id}
    /\ WriteSnapshot(s) \/ UNCHANGED snapshot
    /\ Stop(s)
    /\ UNCHANGED <<status, dispatched, completed, failed>>

(* The process dies. *)
Crash(s) ==
    /\ actor[s] # NoActor
    /\ Stop(s)
    /\ UNCHANGED <<snapshot, quarantined, status, dispatched, completed, failed>>

Fail(s) ==
    \/ HydrateFails(s)
    \/ HydrationTimesOut(s)
    \/ FreezeConflicts(s)
    \/ Quarantine(s)
    \/ Crash(s)

Act(s) ==
    \/ Hydrate(s)
    \/ \E t \in Task : HandleTask(s, t) \/ RunPending(s, t) \/ FinishTask(s, t)
    \/ Drain(s)
    \/ StartFreeze(s)
    \/ Freeze(s)
    \/ Fail(s)

Next ==
    \/ Publish
    \/ \E s \in Slot :
          \/ \E a \in Agent, t \in Task : DispatchToFrozen(s, a, t)
          \/ \E t \in Task : Dispatch(s, t)
          \/ \E a \in Agent : Recover(s, a)
          \/ Act(s)

Spec == Init /\ [][Next]_vars

------------------------------------------------------------------------------
Ended == completed \cup failed
Held == UNION {Tasks(s) : s \in Slot}
Pending == UNION {snapshot[a].pending_tasks : a \in Agent}
Known == Ended \cup Held \cup Pending

(* The life an agent is meant to have loses no task: of the dispatched     *)
(* tasks whose handlers have not ended, a step makes one vanish from every *)
(* actor and every snapshot only if the actor that had it fails.  Draining *)
(* sees to the inbox that freeze leaves out, with lost acknowledgements    *)
(* and two actors of one agent (agent.rs:87, 431, 448-450).                *)
LostOnlyInFailure ==
    [][\A t \in Known \ Known' : \E s \in Slot : Fail(s) /\ t \in Tasks(s)]_vars

Forgotten(a) == snapshot[a].pending_tasks \ snapshot'[a].pending_tasks

(* What a snapshot promises to run leaves it only once it has run, or in   *)
(* the emergency freeze of its own actor: not in a freeze that follows a   *)
(* drain, whoever else has the agent in memory (agent.rs:448-450, 587).    *)
PendingIsKept ==
    [][\A a \in Agent :
          \/ Forgotten(a) \subseteq Ended'
          \/ \E s \in Slot : actor[s].agent_id = a /\ Quarantine(s)]_vars

(* Pressure that rejects tasks also pauses them: the orchestrator may ask  *)
(* only one of the two methods, and rounding and cutting never put the     *)
(* threshold of the milder one above the other (agent.rs:540, 553).        *)
CriticalIsThrottled == IsCritical(status) => ShouldThrottle(status)

At(n, limit) == [status EXCEPT !.active_agent_count = n, !.active_agent_limit = limit]
Edge(n) == {n, n + 1}

(* Under every limit that may be configured, as long as the buffer does    *)
(* not throttle, it is the agents beyond 0.80, and 0.95, of the limit that *)
(* do, to one agent: the products in f32, cut to integers, lose none to a  *)
(* ratio that f32 holds too low, as it does 0.95, and win none.  So 81 of  *)
(* 100 agents throttle and 80 do not, as agent.rs:501 and 535 have it      *)
(* ("exceed"), and not line 502 ("80 active agents triggers throttle").    *)
ThresholdsAreExact ==
    status.l3_egress_buffer_fill_pct <= 85 =>
        \A limit \in Limits :
            /\ \A n \in Edge((limit * 4) \div 5) :
                   ShouldThrottle(At(n, limit)) <=> 5 * n > 4 * limit
            /\ \A n \in Edge((limit * 19) \div 20) :
                   IsCritical(At(n, limit)) <=> 20 * n > 19 * limit
==============================================================================
