------------------------------ MODULE StateKeys -------------------------------
(***************************************************************************)
(* The keys of the state store (crates/af-swarm-state/src/lib.rs): every   *)
(* record of every agent of every tenant shares one flat name space, and   *)
(* a key is what keeps one record from another.  An id is a string of      *)
(* symbols; only "|", of which the separator is made, is told apart.  The  *)
(* words and the digits of a key are symbols too, which an id may contain. *)
(*                                                                         *)
(* DaprStateStore::set takes a key as it comes: validate_id is private and *)
(* nothing calls it, so that a store holds records of any ids.  What the   *)
(* keys promise, they promise to ids that validate_id accepts and that do  *)
(* not end with "|"; the properties below say so.                          *)
(*                                                                         *)
(* External: the store that holds the records and scans them by prefix.    *)
(***************************************************************************)
EXTENDS Integers, Sequences, FiniteSets

CONSTANTS
    Symbol,      \* what strings are made of
    Ids,         \* strings that callers use as tenant_id and as agent_id
    Numbers,     \* checkpoint sequence numbers, and the values of ULIDs
    Width,       \* digits of a padded number: 20, or 26 of a ULID
    MaxRecords   \* bound of the model: records in the store

Digits == <<"0", "1", "2", "3", "4", "5", "6", "7", "8", "9">>

Singletons == {"state", "working_memory"}

Kinds == Singletons \cup {"checkpoint", "conv", "tool_log"}

TenTo[k \in Nat] == IF k = 0 THEN 1 ELSE 10 * TenTo[k - 1]

ASSUME KeysAssumption ==
    /\ Kinds \cup {Digits[i] : i \in 1 .. 10} \cup {"|"} \subseteq Symbol
    /\ Ids \subseteq Seq(Symbol)
    /\ Width \in Nat
    /\ Numbers \subseteq 0 .. TenTo[Width] - 1
    /\ MaxRecords \in Nat

VARIABLE store   \* store[k]: the record that was last put under the key k

------------------------------------------------------------------------------
(* Keys *)

KEY_SEP == <<"|", "|">>

AcceptAny(id) == id # <<>>

(* DaprStateStore::validate_id *)
ValidId(id) ==
    /\ id # <<>>
    /\ ~ \E i \in 1 .. Len(id) - 1 : id[i] = "|" /\ id[i + 1] = "|"

Decimal(width, n) ==
    [i \in 1 .. width |-> Digits[((n \div TenTo[width - i]) % 10) + 1]]

Unpadded(n) ==
    Decimal(CHOOSE w \in 1 .. Width : n < TenTo[w] /\ (w = 1 \/ n >= TenTo[w - 1]), n)

(* {seq:020}; a ULID is a number of fixed width as well. *)
Padded(n) == Decimal(Width, n)

Record == [tenant: Ids, agent: Ids, kind: Singletons, number: {0}]
          \cup [tenant: Ids, agent: Ids, kind: Kinds \ Singletons, number: Numbers]

KindKeyWithoutAgent(tenant, agent, kind) == tenant \o KEY_SEP \o <<kind>>

(* {tenant_id}||{agent_id}||{kind} *)
KindKey(tenant, agent, kind) == tenant \o KEY_SEP \o agent \o KEY_SEP \o <<kind>>

(* ||{number} where the kind has many records *)
Suffix(r) == IF r.kind \in Singletons THEN <<>> ELSE KEY_SEP \o Padded(r.number)

Key(r) == KindKey(r.tenant, r.agent, r.kind) \o Suffix(r)

------------------------------------------------------------------------------

Init == store = <<>>

(* DaprStateStore::set, without an ETag *)
Put(r) ==
    /\ Cardinality(DOMAIN store \cup {Key(r)}) <= MaxRecords
    /\ store' = [k \in DOMAIN store \cup {Key(r)} |-> IF k = Key(r) THEN r ELSE store[k]]

Next == \E r \in Record : Put(r)

Spec == Init /\ [][Next]_store

(* What is in the store is a record, under its own key. *)
TypeOK ==
    \A k \in DOMAIN store : store[k] \in Record /\ k = Key(store[k])

------------------------------------------------------------------------------

(* validate_id refuses the separator in an id, and not half of it at its   *)
(* end, which completes itself with the separator that follows: tenant     *)
(* "a|" with agent "a" has the keys of tenant "a" with agent "|a".         *)
IsSafe(id) == ValidId(id) /\ id[Len(id)] # "|"

HasSafeIds(r) == IsSafe(r.tenant) /\ IsSafe(r.agent)

(* Among records of ids that pass validate_id and do not end with "|", a   *)
(* put never replaces another record: two records of different agents,     *)
(* kinds or numbers have different keys (lib.rs:112-114 and the test       *)
(* key_format_no_collision, for one pair), whatever else is in the store.  *)
NoneReplaced ==
    [][\A k \in DOMAIN store :
          HasSafeIds(store[k]) /\ HasSafeIds(store'[k]) => store'[k] = store[k]]_store

(* list_keys_with_prefix(prefix) *)
Scan(prefix) ==
    {k \in DOMAIN store :
        Len(prefix) <= Len(k) /\ SubSeq(k, 1, Len(prefix)) = prefix}

CheckpointsOf(tenant, agent) == Scan(KindKey(tenant, agent, "checkpoint") \o KEY_SEP)

(* The scan by prefix that recovery and GC are to use (hydrate.rs:160,     *)
(* gc.rs:78) finds an agent's checkpoints: all of them, and no record of   *)
(* another agent, or of another kind, of such ids.                         *)
ScanIsExact ==
    \A tenant, agent \in {id \in Ids : IsSafe(id)} :
        {k \in CheckpointsOf(tenant, agent) : HasSafeIds(store[k])} =
            {k \in DOMAIN store : /\ store[k].tenant = tenant
                                  /\ store[k].agent = agent
                                  /\ store[k].kind = "checkpoint"}

Rank(symbol) == CHOOSE i \in DOMAIN Digits : Digits[i] = symbol

(* k sorts before l, where they differ in digits only. *)
SortsBefore(k, l) ==
    \/ \E i \in DOMAIN k \cap DOMAIN l :
          /\ SubSeq(k, 1, i - 1) = SubSeq(l, 1, i - 1)
          /\ k[i] # l[i] /\ Rank(k[i]) < Rank(l[i])
    \/ Len(k) < Len(l) /\ k = SubSeq(l, 1, Len(k))

(* The last of those keys is the checkpoint with the highest sequence      *)
(* number (checkpoint.proto:30-31; the test checkpoint_key_lexicographic_  *)
(* order, lib.rs:117-124, for three of them).                              *)
ScanIsInOrder ==
    \A tenant, agent \in {id \in Ids : IsSafe(id)} :
        \A k, l \in {key \in CheckpointsOf(tenant, agent) : HasSafeIds(store[key])} :
            SortsBefore(k, l) <=> store[k].number < store[l].number
==============================================================================
