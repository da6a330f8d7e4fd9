-------------------------- MODULE RecordEncryption ---------------------------
(***************************************************************************)
(* Encryption at rest of one state record (src/encryption.rs): encrypt and *)
(* decrypt dispatch on the kind of a key and on the scheme of an envelope, *)
(* a KeyProvider resolves key ids, and keys are rotated while writers and  *)
(* the rotation job re-seal the record.                                    *)
(*                                                                         *)
(* Every await is a step of its own: the id of the current key, the key,   *)
(* and the guarded write are asked for one after the other, and a rotation *)
(* may come between any two of them.                                       *)
(*                                                                         *)
(* External, modelled from what src/ requires of it: the caller that opens, *)
(* edits, seals and stores the record, as the comments of encrypt ("caller *)
(* fills this in from KeyProvider") and of KeyRotationMetadata describe,   *)
(* and the managed provider (the trait is in src/, its production          *)
(* implementation is not).                                                 *)
(*                                                                         *)
(* Data: the plaintext is the set of edits it reflects.  A cipher text is  *)
(* the key that made it and the plaintext, which only that key gives back; *)
(* nonce and AAD are left out: decrypt takes both from the envelope.       *)
(***************************************************************************)
EXTENDS Integers

CONSTANTS Worker,      \* writers of the record and the rotation job
          Update,      \* the edits a writer can make
          MaxKey,      \* bound: keys that rotation creates
          MaxWrites    \* bound: writes of the record

ASSUME EncryptionAssumption == MaxKey \in Nat \ {0} /\ MaxWrites \in Nat

VARIABLES
    provider,  \* which KeyProvider the processes were started with
    tier,      \* the scheme that the record's sensitivity asks for
    current,   \* number of the tenant's current key for that scheme
    record,    \* the stored envelope and its ETag
    pc,        \* pc[w]: where w is with the record
    job        \* job[w]: what w has in memory

vars == <<provider, tier, current, record, pc, job>>

Scheme == {"PLAINTEXT", "AES_256_GCM", "FHE_TFHE_RS"}

(* An id, and the key it stands for; the scheme of a key is the variant of *)
(* EncryptionKey it is held in.                                            *)
Key == [scheme : Scheme, number : 0 .. MaxKey]

EmptyId == [scheme |-> "PLAINTEXT", number |-> 0]
TestKey == [scheme |-> "AES_256_GCM", number |-> 1]

Envelope == [scheme : Scheme, key_id : Key, sealed_by : Key, value : SUBSET Update]

Phase == {"idle", "read", "opened", "chosen", "sealed"}

Job == [etag : Nat, envelope : Envelope, value : SUBSET Update, key_id : Key]

(* Until encryption is switched on, records are stored as plaintext. *)
Plain == [scheme |-> "PLAINTEXT", key_id |-> EmptyId, sealed_by |-> EmptyId,
          value |-> {}]

NoJob == [etag |-> 0, envelope |-> Plain, value |-> {}, key_id |-> EmptyId]

TypeOK ==
    /\ provider \in {"in_memory", "managed"}
    /\ tier \in {"AES_256_GCM", "FHE_TFHE_RS"}
    /\ current \in 1 .. MaxKey
    /\ record \in [etag : Nat, envelope : Envelope]
    /\ pc \in [Worker -> Phase]
    /\ job \in [Worker -> Job]

Init ==
    /\ provider \in {"in_memory", "managed"}
    /\ tier \in {"AES_256_GCM", "FHE_TFHE_RS"}
    /\ current = 1
    /\ record = [etag |-> 1, envelope |-> Plain]
    /\ pc = [w \in Worker |-> "idle"]
    /\ job = [w \in Worker |-> NoJob]

------------------------------------------------------------------------------
(* The providers *)

(* The test provider answers every id, and every scheme, with one AES key. *)
IsKnown(id) ==
    \/ provider = "in_memory"
    \/ id.scheme = tier /\ id.number \in 1 .. current

KeyOf(id) == IF provider = "in_memory" THEN TestKey ELSE id

UnissuedId == [scheme |-> tier, number |-> current + 1]

CurrentId ==
    IF provider = "in_memory" THEN TestKey ELSE [scheme |-> tier, number |-> current]

(* Earlier keys stay with the provider and no record is re-encrypted; the  *)
(* test provider refuses.                                                  *)
Rotate ==
    /\ provider = "managed"
    /\ current < MaxKey
    /\ current' = current + 1
    /\ UNCHANGED <<provider, tier, record, pc, job>>

------------------------------------------------------------------------------
(* encrypt and decrypt *)

(* FHE encryption is not implemented. *)
CanEncrypt(key) == key.scheme = "AES_256_GCM"

Encrypt(value, key) ==
    [scheme |-> "AES_256_GCM", key_id |-> EmptyId, sealed_by |-> key, value |-> value]

(* A plaintext envelope needs no key; an AES one the AES key that sealed   *)
(* it; an FHE one, and any other pair, is an error.                        *)
CanDecrypt(envelope, key) ==
    \/ envelope.scheme = "PLAINTEXT"
    \/ /\ envelope.scheme = "AES_256_GCM"
       /\ key.scheme = "AES_256_GCM"
       /\ key = envelope.sealed_by

Opens(envelope) ==
    \/ envelope.scheme = "PLAINTEXT"
    \/ IsKnown(envelope.key_id) /\ CanDecrypt(envelope, KeyOf(envelope.key_id))

------------------------------------------------------------------------------
(* A writer, or the rotation job *)

Goto(w, phase) == pc' = [pc EXCEPT ![w] = phase]

Release(w) == Goto(w, "idle") /\ job' = [job EXCEPT ![w] = NoJob]

Read(w) ==
    /\ pc[w] = "idle"
    /\ Goto(w, "read")
    /\ job' = [job EXCEPT ![w] = [etag |-> record.etag, envelope |-> record.envelope,
                                  value |-> {}, key_id |-> EmptyId]]
    /\ UNCHANGED <<provider, tier, current, record>>

Open(w) ==
    /\ pc[w] = "read"
    /\ Opens(job[w].envelope)
    /\ Goto(w, "opened")
    /\ job' = [job EXCEPT ![w] = [job[w] EXCEPT !.value = job[w].envelope.value]]
    /\ UNCHANGED <<provider, tier, current, record>>

(* The rotation job leaves the plaintext as it is. *)
Change(w) ==
    /\ pc[w] = "opened"
    /\ \E e \in Update : job' = [job EXCEPT ![w] =
                                  [job[w] EXCEPT !.value = job[w].value \cup {e}]]
    /\ UNCHANGED <<provider, tier, current, record, pc>>

ChooseKey(w) ==
    /\ pc[w] = "opened"
    /\ Goto(w, "chosen")
    /\ job' = [job EXCEPT ![w] = [job[w] EXCEPT !.key_id = CurrentId]]
    /\ UNCHANGED <<provider, tier, current, record>>

Seal(w) ==
    /\ pc[w] = "chosen"
    /\ IsKnown(job[w].key_id)
    /\ CanEncrypt(KeyOf(job[w].key_id))
    /\ Goto(w, "sealed")
    /\ job' = [job EXCEPT ![w] =
                  [job[w] EXCEPT !.envelope =
                      Encrypt(job[w].value, KeyOf(job[w].key_id))]]
    /\ UNCHANGED <<provider, tier, current, record>>

(* encrypt leaves the id empty; the caller fills in the one it chose. *)
FilledInLate(w) == [job[w].envelope EXCEPT !.key_id = CurrentId]
FilledIn(w) == [job[w].envelope EXCEPT !.key_id = job[w].key_id]

ETagIgnored(w) == TRUE
ETagMatches(w) == job[w].etag = record.etag

Store(w) ==
    /\ pc[w] = "sealed"
    /\ record.etag < MaxWrites
    /\ ETagMatches(w)
    /\ record' = [etag |-> record.etag + 1, envelope |-> FilledIn(w)]
    /\ \/ Release(w)
       \/ UNCHANGED <<pc, job>>     \* the acknowledgement is lost
    /\ UNCHANGED <<provider, tier, current>>

(* A key that is unavailable, a scheme that is not implemented, a rejected *)
(* write, or the end of the process: nothing is written.                   *)
GiveUp(w) ==
    /\ pc[w] # "idle"
    /\ Release(w)
    /\ UNCHANGED <<provider, tier, current, record>>

Work(w) ==
    Read(w) \/ Open(w) \/ Change(w) \/ ChooseKey(w) \/ Seal(w) \/ Store(w) \/ GiveUp(w)

Next == Rotate \/ \E w \in Worker : Work(w)

Spec == Init /\ [][Next]_vars

------------------------------------------------------------------------------
(* Whatever was stored can be read: the key that the stored id stands for  *)
(* is the one that sealed the envelope, however rotations fall between the *)
(* choice of the id, the sealing and the write (encryption.rs:54-59, 163). *)
EveryRecordOpens == Opens(record.envelope)

(* Progress of a rotation is not undone: a writer that chose its key before *)
(* the rotation never replaces what was re-sealed after it                 *)
(* (encryption.rs:61-70).                                                  *)
RotationIsNotUndone ==
    [][record'.envelope.key_id.number >= record.envelope.key_id.number]_vars

(* Encryption and rotation are transparent: what readers decrypt is a      *)
(* record under optimistic concurrency, as if it were stored in the clear. *)
Content == IF Opens(record.envelope) THEN record.envelope.value ELSE {}

CopiedVersion == [w \in Worker |-> IF pc[w] = "idle" THEN -1 ELSE job[w].etag - 1]

CopiedContent ==
    [w \in Worker |-> IF pc[w] = "read" THEN job[w].envelope.value ELSE job[w].value]

InTheClear == INSTANCE VersionedRecord WITH
    Client <- Worker,
    Edits <- Update,
    version <- record.etag - 1,
    value <- Content,
    base <- CopiedVersion,
    draft <- CopiedContent

Transparent == InTheClear!Spec
==============================================================================
