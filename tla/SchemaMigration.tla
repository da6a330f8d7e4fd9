--------------------------- MODULE SchemaMigration ----------------------------
(***************************************************************************)
(* The schema migration registry (crates/af-swarm-state/src/migrations.rs): *)
(* migrations are registered by the version they read, and a call of        *)
(* apply_to_latest walks from the version of a record to the latest one.    *)
(* Nothing checks what is registered: a migration may skip versions, go     *)
(* back, stay, or pass the latest version.  A record's bytes are abstracted *)
(* to their version, a migration to the versions it reads and produces.     *)
(***************************************************************************)
EXTENDS Naturals

CONSTANTS
    LATEST_SCHEMA_VERSION,
    Version   \* versions of records and of migrations

ASSUME SchemaAssumption ==
    /\ LATEST_SCHEMA_VERSION \in Version
    /\ Version \subseteq Nat

VARIABLES
    migrations,   \* migrations[v]: the version that the migration of v produces
    call          \* the call of apply_to_latest

vars == <<migrations, call>>

Outcomes == {"ok", "unsupported", "failed"}

Idle == [pc |-> "idle", given |-> LATEST_SCHEMA_VERSION, version |-> LATEST_SCHEMA_VERSION]

Call(pc, given, version) == [pc |-> pc, given |-> given, version |-> version]

------------------------------------------------------------------------------

Init == migrations = <<>> /\ call = Idle

(* register takes &mut self, so no call is under way.  A second migration   *)
(* of a version replaces the first.                                         *)
Register(from, to) ==
    /\ call.pc = "idle"
    /\ migrations' =
          [v \in DOMAIN migrations \cup {from} |-> IF v = from THEN to ELSE migrations[v]]
    /\ UNCHANGED call

(* apply_to_latest(raw, v): the returns before the loop, and the loop. *)
ApplyRefused(v) ==
    /\ call.pc = "idle"
    /\ v > LATEST_SCHEMA_VERSION
    /\ call' = Call("unsupported", v, v)
    /\ UNCHANGED migrations

ApplyCurrent(v) ==
    /\ call.pc = "idle"
    /\ v = LATEST_SCHEMA_VERSION
    /\ \E outcome \in {"ok", "failed"} : call' = Call(outcome, v, v)
    /\ UNCHANGED migrations

ApplyOlder(v) ==
    /\ call.pc = "idle"
    /\ v < LATEST_SCHEMA_VERSION
    /\ call' = Call("walking", v, v)
    /\ UNCHANGED migrations

GoesOnAtLatest(v) == v <= LATEST_SCHEMA_VERSION

StopsBeforeLatest(v) == v + 1 < LATEST_SCHEMA_VERSION

(* The condition of the loop. *)
IsOlder(v) == v < LATEST_SCHEMA_VERSION

VersionKept == call.version

VersionAfter == migrations[call.version] + 1

NextVersion == migrations[call.version]

StepMissing ==
    /\ call.pc = "walking" /\ IsOlder(call.version)
    /\ call.version \notin DOMAIN migrations
    /\ call' = [call EXCEPT !.pc = "unsupported"]
    /\ UNCHANGED migrations

StepFailed ==
    /\ call.pc = "walking" /\ IsOlder(call.version)
    /\ call.version \in DOMAIN migrations
    /\ call' = [call EXCEPT !.pc = "failed"]
    /\ UNCHANGED migrations

Step ==
    /\ call.pc = "walking" /\ IsOlder(call.version)
    /\ call.version \in DOMAIN migrations
    /\ call' = [call EXCEPT !.version = NextVersion]
    /\ UNCHANGED migrations

Finish ==
    /\ call.pc = "walking" /\ ~IsOlder(call.version)
    /\ call' = [call EXCEPT !.pc = "ok"]
    /\ UNCHANGED migrations

(* External: the caller takes the result, or drops the call at an await. *)
Return ==
    /\ call.pc # "idle"
    /\ call' = Idle
    /\ UNCHANGED migrations

GoOn == Step \/ StepMissing \/ Finish

Walk == GoOn \/ StepFailed

Next ==
    \/ \E from, to \in Version : Register(from, to)
    \/ \E v \in Version : ApplyRefused(v) \/ ApplyCurrent(v) \/ ApplyOlder(v)
    \/ Walk
    \/ Return

Behaviour == Init /\ [][Next]_vars

(* A task that is polled goes on, and a migration's await ends.  No failure *)
(* is owed: a step that changes nothing can be taken forever.               *)
Spec == Behaviour /\ WF_vars(GoOn)

------------------------------------------------------------------------------

TypeOK ==
    /\ DOMAIN migrations \subseteq Version
    /\ \A v \in DOMAIN migrations : migrations[v] \in Version
    /\ call \in [pc : {"idle", "walking"} \cup Outcomes, given : Version, version : Version]

NonePassesLatest ==
    \A v \in DOMAIN migrations :
        v < LATEST_SCHEMA_VERSION => migrations[v] <= LATEST_SCHEMA_VERSION

AllAdvance == \A v \in DOMAIN migrations : migrations[v] > v

(* The latest version is in every set of versions that holds v and what the *)
(* migrations make of its members: a chain leads there from v.              *)
LeadsToLatest(v) ==
    \A S \in SUBSET Version :
        v \in S /\ (\A u \in S \cap DOMAIN migrations : migrations[u] \in S)
            => LATEST_SCHEMA_VERSION \in S

(* A record that apply_to_latest returns has the latest version, as long as *)
(* no migration of an older version passes it (migrations.rs:71-72, 96).    *)
ResultIsLatest ==
    call.pc = "ok" /\ NonePassesLatest => call.version = LATEST_SCHEMA_VERSION

(* A record is refused as unsupported only if the registered migrations do  *)
(* not lead from its version to the latest, or it is newer: whatever the    *)
(* order of registration, replacements and cycles (migrations.rs:78-84, 97).*)
RefusedOnlyWithoutChain ==
    call.pc = "unsupported" =>
        call.given > LATEST_SCHEMA_VERSION \/ ~LeadsToLatest(call.given)

(* The walk ends if every migration advances (migrations.rs:96-111, where   *)
(* nothing checks that to_version is above from_version).                   *)
WalkEnds == call.pc = "walking" /\ AllAdvance ~> call.pc # "walking"
==============================================================================
