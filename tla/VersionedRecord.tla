--------------------------- MODULE VersionedRecord ---------------------------
(***************************************************************************)
(* What optimistic concurrency promises about one persisted agent: a       *)
(* client takes a copy of the record together with the version it read,    *)
(* edits its copy, and may install the copy only while the record still    *)
(* has that version.  The first committer wins; every other copy of the    *)
(* same version is dead.  This is the promise that the ETag guards of      *)
(* AgentFreezeManager and the version counter of the working memory are    *)
(* there to keep (state-schema.md section 4.3); module FreezeHydrate is    *)
(* shown to keep it.                                                       *)
(***************************************************************************)
EXTENDS Integers

CONSTANTS Client,   \* whoever may hold a copy
          Edits     \* the edits that can be made to a copy

VARIABLES version,  \* number of commits
          value,    \* the edits the record holds
          base,     \* base[c]: the version c copied, NoBase when c has no copy
          draft     \* draft[c]: c's edited copy

vars == <<version, value, base, draft>>

NoBase == -1

TypeOK ==
    /\ version \in Nat
    /\ value \subseteq Edits
    /\ base \in [Client -> Nat \cup {NoBase}]
    /\ draft \in [Client -> SUBSET Edits]

Init ==
    /\ version = 0
    /\ value = {}
    /\ base = [c \in Client |-> NoBase]
    /\ draft = [c \in Client |-> {}]

Begin(c) ==
    /\ base[c] = NoBase
    /\ base' = [base EXCEPT ![c] = version]
    /\ draft' = [draft EXCEPT ![c] = value]
    /\ UNCHANGED <<version, value>>

Edit(c) ==
    /\ base[c] # NoBase
    /\ \E e \in Edits : draft' = [draft EXCEPT ![c] = @ \cup {e}]
    /\ UNCHANGED <<version, value, base>>

Drop(c) ==
    /\ base' = [base EXCEPT ![c] = NoBase]
    /\ draft' = [draft EXCEPT ![c] = {}]

(* A client that is told of its commit drops its copy.  One whose          *)
(* acknowledgement is lost keeps a copy that can never be installed again. *)
Commit(c) ==
    /\ base[c] = version
    /\ version' = version + 1
    /\ value' = draft[c]
    /\ Drop(c) \/ UNCHANGED <<base, draft>>

Abort(c) ==
    /\ base[c] # NoBase
    /\ Drop(c)
    /\ UNCHANGED <<version, value>>

Next == \E c \in Client : Begin(c) \/ Edit(c) \/ Commit(c) \/ Abort(c)

Spec == Init /\ [][Next]_vars

------------------------------------------------------------------------------

(* A copy of the current version holds everything the record holds, and no *)
(* copy is of a version the record has not reached.                        *)
CopiesOfNowAreComplete ==
    \A c \in Client :
        /\ base[c] <= version
        /\ base[c] = version => value \subseteq draft[c]

(* A commit never removes an edit that an earlier commit installed.        *)
NothingLost == [][value \subseteq value']_vars
==============================================================================
