------------------------ MODULE SchemaMigrationProofs -------------------------
(***************************************************************************)
(* What apply_to_latest returns, for every registry and every version.      *)
(***************************************************************************)
EXTENDS SchemaMigration, WellFoundedInduction, TLAPS

(* No migration has taken the walk past the latest version, if none can. *)
NotPassed ==
    call.pc = "walking" /\ NonePassesLatest => call.version <= LATEST_SCHEMA_VERSION

(* The versions the walk has left: each is older than the latest, and its   *)
(* migration leads to another or to where the walk is.                      *)
Trail ==
    call.pc = "walking" =>
        \E T \in SUBSET Version :
            /\ call.given \in T \cup {call.version}
            /\ \A u \in T : /\ u # LATEST_SCHEMA_VERSION
                            /\ u \in DOMAIN migrations
                            /\ migrations[u] \in T \cup {call.version}

WalkInv ==
    /\ TypeOK
    /\ NotPassed
    /\ Trail
    /\ ResultIsLatest
    /\ RefusedOnlyWithoutChain

------------------------------------------------------------------------------

LEMMA InitStep == Init => WalkInv
<1> SUFFICES ASSUME Init PROVE WalkInv
  OBVIOUS
<1>1. /\ migrations = <<>> /\ call.pc = "idle"
      /\ call.given = LATEST_SCHEMA_VERSION /\ call.version = LATEST_SCHEMA_VERSION
  BY DEF Init, Idle
<1>2. TypeOK
  BY SchemaAssumption DEF Init, Idle, TypeOK
<1>3. QED
  BY <1>1, <1>2 DEF WalkInv, NotPassed, Trail, ResultIsLatest, RefusedOnlyWithoutChain

LEMMA TypeStep == TypeOK /\ [Next]_vars => TypeOK'
<1> SUFFICES ASSUME TypeOK, [Next]_vars PROVE TypeOK'
  OBVIOUS
<1> USE SchemaAssumption DEF TypeOK, Outcomes
<1>1. CASE UNCHANGED vars
  BY <1>1 DEF vars
<1>2. ASSUME NEW from \in Version, NEW to \in Version, Register(from, to) PROVE TypeOK'
  BY <1>2 DEF Register
<1>3. ASSUME NEW v \in Version, ApplyRefused(v) \/ ApplyCurrent(v) \/ ApplyOlder(v)
      PROVE  TypeOK'
  BY <1>3 DEF ApplyRefused, ApplyCurrent, ApplyOlder, Call
<1>4. CASE Walk
  BY <1>4 DEF Walk, GoOn, Step, StepMissing, StepFailed, Finish, NextVersion
<1>5. CASE Return
  BY <1>5 DEF Return, Idle
<1>6. QED
  BY <1>1, <1>2, <1>3, <1>4, <1>5 DEF Next

(* A call that ends, or begins, leaves nothing to show of the walk.         *)
LEMMA QuietStep ==
    ASSUME call'.pc \notin {"walking", "ok", "unsupported"}
    PROVE  NotPassed' /\ Trail' /\ ResultIsLatest' /\ RefusedOnlyWithoutChain'
  BY DEF NotPassed, Trail, ResultIsLatest, RefusedOnlyWithoutChain

LEMMA NextStep == WalkInv /\ [Next]_vars => WalkInv'
<1> SUFFICES ASSUME WalkInv, [Next]_vars PROVE WalkInv'
  OBVIOUS
<1>1. TypeOK'
  BY TypeStep DEF WalkInv
<1>2. SUFFICES NotPassed' /\ Trail' /\ ResultIsLatest' /\ RefusedOnlyWithoutChain'
  BY <1>1 DEF WalkInv
<1> USE DEF NotPassed, ResultIsLatest
<1>3. CASE UNCHANGED vars
  BY <1>3 DEF WalkInv, vars, Trail, NonePassesLatest, RefusedOnlyWithoutChain, LeadsToLatest
<1>4. CASE \E from, to \in Version : Register(from, to)
  <2>1. call'.pc = "idle"
    BY <1>4 DEF Register
  <2>2. QED
    BY <2>1, QuietStep
<1>5. ASSUME NEW v \in Version, ApplyRefused(v) PROVE WalkInv'
  <2>1. call'.pc = "unsupported" /\ call'.given > LATEST_SCHEMA_VERSION
    BY <1>5 DEF ApplyRefused, Call
  <2>2. QED
    BY <1>1, <2>1 DEF WalkInv, Trail, RefusedOnlyWithoutChain
<1>6. ASSUME NEW v \in Version, ApplyCurrent(v) PROVE WalkInv'
  <2>1. call'.pc \in {"ok", "failed"} /\ call'.version = LATEST_SCHEMA_VERSION
    BY <1>6 DEF ApplyCurrent, Call
  <2>2. QED
    BY <1>1, <2>1 DEF WalkInv, Trail, RefusedOnlyWithoutChain
<1>7. ASSUME NEW v \in Version, ApplyOlder(v) PROVE WalkInv'
  <2>1. /\ call'.pc = "walking" /\ call'.given = v /\ call'.version = v
        /\ v < LATEST_SCHEMA_VERSION
    BY <1>7 DEF ApplyOlder, Call
  <2>2. Trail'
    <3>1. call'.given \in {} \cup {call'.version} /\ {} \in SUBSET Version
      BY <2>1
    <3>2. QED
      BY <3>1 DEF Trail
  <2>3. NotPassed'
    BY <2>1, SchemaAssumption
  <2>4. QED
    BY <1>1, <2>1, <2>2, <2>3 DEF WalkInv, RefusedOnlyWithoutChain
<1>8. CASE Walk
  <2> USE DEF IsOlder
  <2>1. PICK T \in SUBSET Version :
           /\ call.given \in T \cup {call.version}
           /\ \A u \in T : /\ u # LATEST_SCHEMA_VERSION
                           /\ u \in DOMAIN migrations
                           /\ migrations[u] \in T \cup {call.version}
    BY <1>8 DEF WalkInv, Trail, Walk, GoOn, Step, StepMissing, StepFailed, Finish
  <2>2. /\ call \in [pc : {"idle", "walking"} \cup Outcomes, given : Version, version : Version]
        /\ call.version \in Nat /\ LATEST_SCHEMA_VERSION \in Nat
        /\ call.pc = "walking" /\ migrations' = migrations
    BY <1>8, SchemaAssumption
       DEF WalkInv, TypeOK, Walk, GoOn, Step, StepMissing, StepFailed, Finish
  <2>3. CASE Step
    <3>1. /\ call'.pc = "walking" /\ call'.given = call.given
          /\ call'.version = migrations[call.version]
          /\ call.version < LATEST_SCHEMA_VERSION
          /\ call.version \in DOMAIN migrations
      BY <2>2, <2>3 DEF Step, NextVersion
    <3>2. Trail'
      <4> DEFINE U == T \cup {call.version}
      <4>1. U \in SUBSET Version
        BY <2>2
      <4>2. call'.given \in U \cup {call'.version}
        BY <2>1, <3>1
      <4>3. \A u \in U : /\ u # LATEST_SCHEMA_VERSION
                         /\ u \in DOMAIN migrations
                         /\ migrations[u] \in U \cup {call'.version}
        BY <2>1, <2>2, <3>1
      <4> HIDE DEF U
      <4>4. QED
        BY <2>2, <3>1, <4>1, <4>2, <4>3 DEF Trail
    <3>3. NotPassed'
      BY <2>2, <3>1 DEF NonePassesLatest
    <3>4. QED
      BY <1>1, <3>1, <3>2, <3>3 DEF WalkInv, RefusedOnlyWithoutChain
  <2>4. CASE StepMissing
    <3>1. /\ call'.pc = "unsupported" /\ call'.given = call.given
          /\ call.version < LATEST_SCHEMA_VERSION
          /\ call.version \notin DOMAIN migrations
      BY <2>2, <2>4 DEF StepMissing
    <3>2. ~LeadsToLatest(call.given)
      <4> DEFINE S == T \cup {call.version}
      <4>1. S \in SUBSET Version
        BY <2>2
      <4>2. call.given \in S /\ LATEST_SCHEMA_VERSION \notin S
        BY <2>1, <2>2, <3>1
      <4>3. \A u \in S \cap DOMAIN migrations : migrations[u] \in S
        BY <2>1, <3>1
      <4> HIDE DEF S
      <4>4. QED
        BY <4>1, <4>2, <4>3 DEF LeadsToLatest
    <3>3. QED
      BY <1>1, <2>2, <3>1, <3>2 DEF WalkInv, Trail, RefusedOnlyWithoutChain, LeadsToLatest
  <2>5. CASE StepFailed
    <3>1. call'.pc = "failed"
      BY <2>2, <2>5 DEF StepFailed
    <3>2. QED
      BY <3>1, QuietStep
  <2>6. CASE Finish
    <3>1. /\ call'.pc = "ok" /\ call'.version = call.version
          /\ ~(call.version < LATEST_SCHEMA_VERSION)
      BY <2>2, <2>6 DEF Finish
    <3>2. ResultIsLatest'
      BY <2>2, <3>1 DEF WalkInv, NonePassesLatest
    <3>3. QED
      BY <1>1, <3>1, <3>2 DEF WalkInv, Trail, RefusedOnlyWithoutChain
  <2>7. QED
    BY <1>8, <2>3, <2>4, <2>5, <2>6 DEF Walk, GoOn, WalkInv
<1>9. CASE Return
  <2>1. call'.pc = "idle"
    BY <1>9 DEF Return, Idle
  <2>2. QED
    BY <2>1, QuietStep
<1>10. QED
  BY <1>3, <1>4, <1>5, <1>6, <1>7, <1>8, <1>9 DEF Next, WalkInv

LEMMA WalkInvHolds == Spec => []WalkInv
  BY InitStep, NextStep, PTL DEF Spec, Behaviour

------------------------------------------------------------------------------
(* Theorems *)

(* The registry maps versions to versions, and a call is at one of them     *)
(* (migrations.rs:45-69).                                                  *)
THEOREM TypeCorrect == Spec => []TypeOK
<1>1. WalkInv => TypeOK
  BY DEF WalkInv
<1>2. QED
  BY <1>1, WalkInvHolds, PTL

(* apply_to_latest returns records of the latest version, as long as no     *)
(* migration of an older version passes it (migrations.rs:96-115).          *)
THEOREM ResultIsLatestHolds == Spec => []ResultIsLatest
<1>1. WalkInv => ResultIsLatest
  BY DEF WalkInv
<1>2. QED
  BY <1>1, WalkInvHolds, PTL

(* apply_to_latest refuses no record from whose version the registered      *)
(* migrations lead to the latest (migrations.rs:97-103).                    *)
THEOREM RefusedOnlyWithoutChainHolds == Spec => []RefusedOnlyWithoutChain
<1>1. WalkInv => RefusedOnlyWithoutChain
  BY DEF WalkInv
<1>2. QED
  BY <1>1, WalkInvHolds, PTL

------------------------------------------------------------------------------
(* A registry without a gap *)

(* Every older version has a migration, which advances and does not pass    *)
(* the latest version.                                                      *)
NoGap ==
    \A v \in Version :
        v < LATEST_SCHEMA_VERSION =>
            v \in DOMAIN migrations /\ migrations[v] \in v + 1 .. LATEST_SCHEMA_VERSION

(* The induction is over the least distance to the latest version.          *)
LEMMA Least ==
    ASSUME NEW B \in SUBSET Nat, B # {}
    PROVE  \E m \in B : \A k \in B : m <= k
<1> DEFINE less == OpToRel(<, Nat)
<1>1. IsWellFoundedOn(less, Nat)
  BY NatLessThanWellFounded
<1>2. ASSUME NEW k \in Nat, NEW m \in Nat, k < m PROVE <<k, m>> \in less
  <2>1. <<k, m>> \in Nat \X Nat
    OBVIOUS
  <2>2. <<k, m>>[1] < <<k, m>>[2]
    BY <1>2
  <2>3. QED
    BY <2>1, <2>2 DEF OpToRel
<1> HIDE DEF less
<1>3. PICK m \in B : \A k \in B : <<k, m>> \notin less
  BY <1>1, WFMin
<1>4. ASSUME NEW k \in B PROVE m <= k
  <2>1. k \in Nat /\ m \in Nat /\ ~(k < m)
    BY <1>2, <1>3
  <2>2. QED
    BY <2>1
<1>5. QED
  BY <1>4

LEMMA NoGapLeadsToLatest ==
    ASSUME NoGap, NEW v \in Version, v <= LATEST_SCHEMA_VERSION
    PROVE  LeadsToLatest(v)
<1> SUFFICES ASSUME NEW S \in SUBSET Version, v \in S,
                    \A u \in S \cap DOMAIN migrations : migrations[u] \in S,
                    LATEST_SCHEMA_VERSION \notin S
             PROVE  FALSE
  BY DEF LeadsToLatest
<1> DEFINE distance(u) == LATEST_SCHEMA_VERSION - u
           older == {u \in S : u < LATEST_SCHEMA_VERSION}
           B == {distance(u) : u \in older}
<1>1. LATEST_SCHEMA_VERSION \in Nat /\ \A u \in S : u \in Nat
  BY SchemaAssumption
<1>2. v \in older
  BY <1>1
<1>3. PICK m \in B : \A k \in B : m <= k
  <2>1. B \in SUBSET Nat /\ B # {}
    BY <1>1, <1>2
  <2> HIDE DEF B
  <2>2. QED
    BY <2>1, Least
<1>4. PICK u \in older : m = distance(u)
  OBVIOUS
<1>5. /\ migrations[u] \in S /\ migrations[u] \in u + 1 .. LATEST_SCHEMA_VERSION
  BY <1>4 DEF NoGap
<1>6. migrations[u] \in older /\ distance(migrations[u]) < distance(u)
  BY <1>1, <1>5
<1>7. ~(distance(u) <= distance(migrations[u]))
  BY <1>1, <1>5
<1>8. QED
  BY <1>3, <1>4, <1>6, <1>7

(* While the registry has no gap, apply_to_latest refuses newer records     *)
(* only, and what it returns has the latest version: in whatever order the  *)
(* migrations were registered and however far each one goes                 *)
(* (migrations.rs:71-115).                                                  *)
THEOREM NoGapServesAllHolds ==
    Spec => [](NoGap => /\ call.pc = "unsupported" => call.given > LATEST_SCHEMA_VERSION
                        /\ call.pc = "ok" => call.version = LATEST_SCHEMA_VERSION)
<1>1. ASSUME WalkInv, NoGap
      PROVE  /\ call.pc = "unsupported" => call.given > LATEST_SCHEMA_VERSION
             /\ call.pc = "ok" => call.version = LATEST_SCHEMA_VERSION
  <2>1. /\ call.given \in Version /\ call.given \in Nat
        /\ LATEST_SCHEMA_VERSION \in Nat /\ DOMAIN migrations \subseteq Version
    BY <1>1, SchemaAssumption DEF WalkInv, TypeOK
  <2>2. call.pc = "unsupported" => call.given > LATEST_SCHEMA_VERSION
    <3>1. SUFFICES ASSUME call.pc = "unsupported", call.given <= LATEST_SCHEMA_VERSION
                   PROVE  FALSE
      BY <2>1
    <3>2. LeadsToLatest(call.given)
      BY <1>1, <2>1, <3>1, NoGapLeadsToLatest
    <3>3. QED
      BY <1>1, <2>1, <3>1, <3>2 DEF WalkInv, RefusedOnlyWithoutChain
  <2>3. NonePassesLatest
    BY <1>1, <2>1 DEF NoGap, NonePassesLatest
  <2>4. call.pc = "ok" => call.version = LATEST_SCHEMA_VERSION
    BY <1>1, <2>3 DEF WalkInv, ResultIsLatest
  <2>5. QED
    BY <2>2, <2>4
<1>2. QED
  BY <1>1, WalkInvHolds, PTL
==============================================================================
