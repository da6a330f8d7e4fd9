------------------------ MODULE VersionedRecordProofs ------------------------
(* What the abstract specification promises, proved. *)
EXTENDS VersionedRecord, TLAPS

Inv == TypeOK /\ CopiesOfNowAreComplete

LEMMA InitInv == Init => Inv
  BY DEF Init, Inv, TypeOK, CopiesOfNowAreComplete, NoBase

LEMMA NextInv == Inv /\ [Next]_vars => Inv'
<1> SUFFICES ASSUME Inv, [Next]_vars PROVE Inv'
  OBVIOUS
<1> USE DEF Inv, TypeOK, CopiesOfNowAreComplete, NoBase
<1>1. ASSUME NEW c \in Client, Begin(c) PROVE Inv'
  BY <1>1 DEF Begin
<1>2. ASSUME NEW c \in Client, Edit(c) PROVE Inv'
  BY <1>2 DEF Edit
<1>3. ASSUME NEW c \in Client, Commit(c) PROVE Inv'
  BY <1>3 DEF Commit, Drop
<1>4. ASSUME NEW c \in Client, Abort(c) PROVE Inv'
  BY <1>4 DEF Abort, Drop
<1>5. CASE UNCHANGED vars
  BY <1>5 DEF vars
<1>6. QED
  BY <1>1, <1>2, <1>3, <1>4, <1>5 DEF Next

LEMMA NextLosesNothing == Inv /\ [Next]_vars => [value \subseteq value']_vars
<1> SUFFICES ASSUME Inv, Next PROVE value \subseteq value'
  OBVIOUS
<1>1. ASSUME NEW c \in Client, Commit(c) PROVE value \subseteq value'
  BY <1>1 DEF Inv, CopiesOfNowAreComplete, Commit
<1>2. QED
  BY <1>1 DEF Next, Begin, Edit, Abort

(* Optimistic concurrency loses no committed edit: whatever implements     *)
(* VersionedRecord, as the ETag guards of freeze do, inherits it.          *)
THEOREM NothingLostHolds == Spec => NothingLost
<1>1. Spec => []Inv
  BY InitInv, NextInv, PTL DEF Spec
<1>2. QED
  BY <1>1, NextLosesNothing, PTL DEF Spec, NothingLost
==============================================================================
