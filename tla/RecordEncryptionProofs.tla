------------------------ MODULE RecordEncryptionProofs ------------------------
(* Stored records open, rotations are not undone, and encryption is        *)
(* transparent: for any writers, edits, keys and numbers of writes.        *)
EXTENDS RecordEncryption, TLAPS

(* A copy whose ETag is current is a copy of the record, and a key chosen  *)
(* for it is not older than the record's.                                  *)
CopyIsCurrent(w) ==
    /\ job[w].etag \in 1 .. record.etag
    /\ job[w].etag = record.etag =>
          /\ pc[w] = "read" => job[w].envelope = record.envelope
          /\ pc[w] \in {"chosen", "sealed"} =>
                job[w].key_id.number >= record.envelope.key_id.number

SealedByChosen(w) ==
    /\ IsKnown(job[w].key_id)
    /\ job[w].key_id.number <= current
    /\ pc[w] = "sealed" => /\ CanEncrypt(KeyOf(job[w].key_id))
                           /\ job[w].envelope = Encrypt(job[w].value, KeyOf(job[w].key_id))

JobInv(w) ==
    /\ pc[w] # "idle" => CopyIsCurrent(w)
    /\ pc[w] \in {"chosen", "sealed"} => SealedByChosen(w)

Inv ==
    /\ TypeOK
    /\ EveryRecordOpens
    /\ record.etag >= 1
    /\ record.envelope.key_id.number <= current
    /\ provider = "in_memory" => current = 1
    /\ \A w \in Worker : JobInv(w)

------------------------------------------------------------------------------
(* Type correctness *)

LEMMA ConstantTypes ==
    /\ EmptyId \in Key
    /\ TestKey \in Key
    /\ Plain \in Envelope
    /\ NoJob \in Job
<1>1. EmptyId \in Key /\ TestKey \in Key
  BY EncryptionAssumption DEF EmptyId, TestKey, Key, Scheme
<1>2. Plain \in Envelope
  BY <1>1 DEF Plain, Envelope, Scheme
<1>3. QED
  BY <1>1, <1>2 DEF NoJob, Job

LEMMA KeyTypes ==
    ASSUME TypeOK
    PROVE  /\ CurrentId \in Key
           /\ \A id \in Key : KeyOf(id) \in Key
<1>1. [scheme |-> tier, number |-> current] \in Key
  BY EncryptionAssumption DEF TypeOK, Key, Scheme
<1>2. QED
  BY <1>1, ConstantTypes DEF CurrentId, KeyOf

LEMMA EncryptType ==
    ASSUME NEW value \in SUBSET Update, NEW key \in Key
    PROVE  Encrypt(value, key) \in Envelope
  BY ConstantTypes DEF Encrypt, Envelope, Scheme

LEMMA FilledInType ==
    ASSUME TypeOK, NEW w \in Worker
    PROVE  /\ FilledIn(w) \in Envelope
           /\ FilledIn(w).scheme = job[w].envelope.scheme
           /\ FilledIn(w).sealed_by = job[w].envelope.sealed_by
           /\ FilledIn(w).value = job[w].envelope.value
           /\ FilledIn(w).key_id = job[w].key_id
  BY DEF TypeOK, FilledIn, Job, Envelope

LEMMA NextType == TypeOK /\ [Next]_vars => TypeOK'
<1> SUFFICES ASSUME TypeOK, [Next]_vars PROVE TypeOK'
  OBVIOUS
<1> USE DEF TypeOK, Goto, Release, Phase
<1>1. CASE Rotate
  BY <1>1, EncryptionAssumption DEF Rotate
<1>2. ASSUME NEW w \in Worker, Read(w) PROVE TypeOK'
  <2>1. [etag |-> record.etag, envelope |-> record.envelope, value |-> {},
         key_id |-> EmptyId] \in Job
    BY ConstantTypes DEF Job
  <2>2. QED
    BY <1>2, <2>1 DEF Read
<1>3. ASSUME NEW w \in Worker, Open(w) PROVE TypeOK'
  <2>1. [job[w] EXCEPT !.value = job[w].envelope.value] \in Job
    BY DEF Job, Envelope
  <2>2. QED
    BY <1>3, <2>1 DEF Open
<1>4. ASSUME NEW w \in Worker, Change(w) PROVE TypeOK'
  <2>1. \A e \in Update : [job[w] EXCEPT !.value = job[w].value \cup {e}] \in Job
    BY DEF Job
  <2>2. QED
    BY <1>4, <2>1 DEF Change
<1>5. ASSUME NEW w \in Worker, ChooseKey(w) PROVE TypeOK'
  <2>1. [job[w] EXCEPT !.key_id = CurrentId] \in Job
    BY KeyTypes DEF Job
  <2>2. QED
    BY <1>5, <2>1 DEF ChooseKey
<1>6. ASSUME NEW w \in Worker, Seal(w) PROVE TypeOK'
  <2>1. Encrypt(job[w].value, KeyOf(job[w].key_id)) \in Envelope
    BY KeyTypes, EncryptType DEF Job
  <2>2. [job[w] EXCEPT !.envelope = Encrypt(job[w].value, KeyOf(job[w].key_id))] \in Job
    BY <2>1 DEF Job
  <2>3. QED
    BY <1>6, <2>2 DEF Seal
<1>7. ASSUME NEW w \in Worker, Store(w) PROVE TypeOK'
  BY <1>7, FilledInType, ConstantTypes DEF Store
<1>8. ASSUME NEW w \in Worker, GiveUp(w) PROVE TypeOK'
  BY <1>8, ConstantTypes DEF GiveUp
<1>9. CASE UNCHANGED vars
  BY <1>9 DEF vars
<1>10. QED
  BY <1>1, <1>2, <1>3, <1>4, <1>5, <1>6, <1>7, <1>8, <1>9 DEF Next, Work

LEMMA InitType == Init => TypeOK
  BY ConstantTypes, EncryptionAssumption DEF Init, TypeOK, Phase

(* Every reachable state has the types of the source.                      *)
THEOREM TypeCorrect == Spec => []TypeOK
  BY InitType, NextType, PTL DEF Spec

------------------------------------------------------------------------------
(* The invariant *)

LEMMA InitInv == Init => Inv
<1> SUFFICES ASSUME Init PROVE Inv
  OBVIOUS
<1>1. TypeOK
  BY InitType
<1>2. QED
  BY <1>1 DEF Init, Inv, EveryRecordOpens, Opens, JobInv, Plain, EmptyId

(* What a worker does to itself leaves the other workers as they were.     *)
LEMMA OthersKeep ==
    ASSUME Inv, UNCHANGED <<provider, tier, current, record>>, NEW w \in Worker,
           \A v \in Worker \ {w} : pc'[v] = pc[v] /\ job'[v] = job[v],
           TypeOK', JobInv(w)'
    PROVE  Inv'
<1>1. \A v \in Worker \ {w} : JobInv(v)'
  BY DEF Inv, JobInv, CopyIsCurrent, SealedByChosen, IsKnown, KeyOf
<1>2. EveryRecordOpens'
  BY DEF Inv, EveryRecordOpens, Opens, IsKnown, KeyOf
<1>3. QED
  BY <1>1, <1>2 DEF Inv

(* The key a provider names exists.                                        *)
LEMMA CurrentIsKnown ==
    ASSUME TypeOK, provider = "in_memory" => current = 1
    PROVE  IsKnown(CurrentId) /\ CurrentId.number = current
  BY DEF TypeOK, IsKnown, CurrentId, TestKey

LEMMA RotateKeeps == ASSUME Inv, Rotate PROVE Inv'
<1>1. TypeOK'
  BY NextType DEF Inv, Next
<1>2. \A id \in Key : IsKnown(id) => IsKnown(id)' /\ KeyOf(id)' = KeyOf(id)
  BY <1>1 DEF Inv, TypeOK, Rotate, IsKnown, KeyOf
<1>3. EveryRecordOpens'
  <2>1. record.envelope.key_id \in Key
    BY DEF Inv, TypeOK, Envelope
  <2>2. QED
    BY <1>2, <2>1 DEF Inv, Rotate, EveryRecordOpens, Opens
<1>4. ASSUME NEW w \in Worker PROVE JobInv(w)'
  <2>1. job[w].key_id \in Key /\ job[w].key_id.number \in Nat
    BY DEF Inv, TypeOK, Job, Key
  <2>2. job[w].key_id.number <= current => job[w].key_id.number <= current'
    BY <2>1 DEF Inv, TypeOK, Rotate
  <2>3. QED
    BY <1>2, <2>1, <2>2 DEF Inv, Rotate, JobInv, CopyIsCurrent, SealedByChosen
<1>5. record'.envelope.key_id.number <= current'
  <2>1. record.envelope.key_id.number \in Nat
    BY DEF Inv, TypeOK, Envelope, Key
  <2>2. QED
    BY <2>1 DEF Inv, TypeOK, Rotate
<1>6. QED
  BY <1>1, <1>3, <1>4, <1>5 DEF Inv, Rotate

(* What the write puts there opens: the id filled in is the one whose key  *)
(* sealed the envelope, and providers forget no key.                       *)
LEMMA StoredOpens ==
    ASSUME Inv, NEW w \in Worker, pc[w] = "sealed"
    PROVE  Opens(FilledIn(w))
<1>1. /\ IsKnown(job[w].key_id) /\ CanEncrypt(KeyOf(job[w].key_id))
      /\ job[w].envelope = Encrypt(job[w].value, KeyOf(job[w].key_id))
  BY DEF Inv, JobInv, SealedByChosen
<1>2. /\ FilledIn(w).scheme = "AES_256_GCM"
      /\ FilledIn(w).sealed_by = KeyOf(job[w].key_id)
      /\ FilledIn(w).key_id = job[w].key_id
  BY <1>1, FilledInType DEF Inv, Encrypt
<1>3. QED
  BY <1>1, <1>2 DEF Opens, CanDecrypt, CanEncrypt

LEMMA StoreKeeps == ASSUME Inv, NEW w \in Worker, Store(w) PROVE Inv'
<1>1. TypeOK'
  BY NextType DEF Inv, Next, Work
<1>2. /\ record' = [etag |-> record.etag + 1, envelope |-> FilledIn(w)]
      /\ UNCHANGED <<provider, tier, current>>
      /\ record.etag \in Nat
  BY DEF Inv, TypeOK, Store
<1>3. EveryRecordOpens'
  BY <1>2, StoredOpens DEF Store, EveryRecordOpens, Opens, IsKnown, KeyOf
<1>4. record'.envelope.key_id.number <= current'
  <2>1. job[w].key_id.number <= current
    BY DEF Inv, Store, JobInv, SealedByChosen
  <2>2. QED
    BY <1>2, <2>1, FilledInType DEF Inv
<1>5. ASSUME NEW v \in Worker PROVE JobInv(v)'
  <2>1. CASE pc'[v] = "idle"
    BY <2>1 DEF JobInv
  <2>2. CASE pc'[v] # "idle"
    <3>1. pc'[v] = pc[v] /\ job'[v] = job[v]
      BY <2>2 DEF Store, Release, Goto, Inv, TypeOK
    <3>2. job[v].etag \in 1 .. record.etag
      BY <2>2, <3>1 DEF Inv, JobInv, CopyIsCurrent
    <3>3. CopyIsCurrent(v)'
      BY <1>2, <3>1, <3>2 DEF CopyIsCurrent
    <3>4. QED
      BY <1>2, <3>1, <3>3 DEF Inv, JobInv, SealedByChosen, IsKnown, KeyOf
  <2>3. QED
    BY <2>1, <2>2
<1>6. QED
  BY <1>1, <1>2, <1>3, <1>4, <1>5 DEF Inv
LEMMA WorkKeeps == ASSUME Inv, NEW w \in Worker, Work(w) PROVE Inv'
<1> USE DEF Goto, Release
<1>t. TypeOK /\ TypeOK'
  BY NextType DEF Inv, Next
<1>1. CASE Read(w)
  <2>1. job'[w].etag = record.etag /\ job'[w].envelope = record.envelope /\ pc'[w] = "read"
    BY <1>1, <1>t DEF Read, TypeOK
  <2>2. JobInv(w)'
    BY <1>1, <1>t, <2>1 DEF Inv, Read, JobInv, CopyIsCurrent, TypeOK
  <2>3. QED
    BY <1>1, <1>t, <2>2, OthersKeep DEF Read, TypeOK
<1>2. CASE Open(w)
  <2>1. /\ pc[w] = "read" /\ pc'[w] = "opened"
        /\ job'[w].etag = job[w].etag
    BY <1>2, <1>t DEF Open, TypeOK, Job
  <2>2. JobInv(w)'
    BY <1>2, <2>1 DEF Inv, Open, JobInv, CopyIsCurrent
  <2>3. QED
    BY <1>2, <1>t, <2>2, OthersKeep DEF Open, TypeOK
<1>3. CASE Change(w)
  <2>1. /\ pc[w] = "opened" /\ pc' = pc
        /\ job'[w].etag = job[w].etag
        /\ \A v \in Worker \ {w} : job'[v] = job[v]
    BY <1>3, <1>t DEF Change, TypeOK, Job
  <2>2. JobInv(w)'
    BY <1>3, <2>1 DEF Inv, Change, JobInv, CopyIsCurrent
  <2>3. QED
    BY <1>3, <1>t, <2>1, <2>2, OthersKeep DEF Change
<1>4. CASE ChooseKey(w)
  <2>1. /\ pc[w] = "opened" /\ pc'[w] = "chosen"
        /\ job'[w].etag = job[w].etag /\ job'[w].key_id = CurrentId
    BY <1>4, <1>t DEF ChooseKey, TypeOK, Job
  <2>2. IsKnown(CurrentId) /\ CurrentId.number = current
    BY <1>t, CurrentIsKnown DEF Inv
  <2>3. CopyIsCurrent(w)'
    BY <1>4, <2>1, <2>2 DEF Inv, ChooseKey, JobInv, CopyIsCurrent
  <2>4. SealedByChosen(w)'
    BY <1>4, <1>t, <2>1, <2>2 DEF ChooseKey, SealedByChosen, IsKnown, TypeOK
  <2>5. QED
    BY <1>4, <1>t, <2>3, <2>4, OthersKeep DEF ChooseKey, JobInv, TypeOK
<1>5. CASE Seal(w)
  <2>1. /\ pc[w] = "chosen" /\ pc'[w] = "sealed"
        /\ job'[w].etag = job[w].etag /\ job'[w].key_id = job[w].key_id
        /\ job'[w].value = job[w].value
        /\ job'[w].envelope = Encrypt(job[w].value, KeyOf(job[w].key_id))
    BY <1>5, <1>t DEF Seal, TypeOK, Job
  <2>2. CopyIsCurrent(w)'
    BY <1>5, <2>1 DEF Inv, Seal, JobInv, CopyIsCurrent
  <2>3. SealedByChosen(w)'
    BY <1>5, <2>1 DEF Inv, Seal, JobInv, SealedByChosen, IsKnown, KeyOf
  <2>4. QED
    BY <1>5, <1>t, <2>2, <2>3, OthersKeep DEF Seal, JobInv, TypeOK
<1>6. CASE GiveUp(w)
  <2>1. pc'[w] = "idle"
    BY <1>6, <1>t DEF GiveUp, TypeOK
  <2>2. QED
    BY <1>6, <1>t, <2>1, OthersKeep DEF GiveUp, JobInv, TypeOK
<1>7. QED
  BY <1>1, <1>2, <1>3, <1>4, <1>5, <1>6, StoreKeeps DEF Work

LEMMA NextInv == Inv /\ [Next]_vars => Inv'
<1>1. ASSUME Inv, UNCHANGED vars PROVE Inv'
  BY <1>1 DEF vars, Inv, TypeOK, EveryRecordOpens, Opens, IsKnown, KeyOf, JobInv,
              CopyIsCurrent, SealedByChosen
<1>2. QED
  BY <1>1, RotateKeeps, WorkKeeps DEF Next

(* Every stored record opens with the key its id stands for.               *)
THEOREM EveryRecordOpensHolds == Spec => []EveryRecordOpens
<1>1. Inv => EveryRecordOpens
  BY DEF Inv
<1>2. QED
  BY <1>1, InitInv, NextInv, PTL DEF Spec

(* No writer replaces a record by one that an older key sealed.            *)
THEOREM RotationIsNotUndoneHolds == Spec => RotationIsNotUndone
<1>1. Inv /\ [Next]_vars
        => [record'.envelope.key_id.number >= record.envelope.key_id.number]_vars
  <2> SUFFICES ASSUME Inv, Next
               PROVE  record'.envelope.key_id.number >= record.envelope.key_id.number
    OBVIOUS
  <2>2. record.envelope.key_id.number \in Nat
    BY DEF Inv, TypeOK, Envelope, Key
  <2>3. ASSUME NEW w \in Worker, Store(w)
        PROVE  record'.envelope.key_id.number >= record.envelope.key_id.number
    BY <2>3, FilledInType
    DEF Store, ETagMatches, Inv, JobInv, CopyIsCurrent
  <2>4. QED
    BY <2>2, <2>3 DEF Next, Rotate, Work, Read, Open, Change, ChooseKey, Seal, GiveUp
<1>2. QED
  BY <1>1, InitInv, NextInv, PTL DEF Spec, RotationIsNotUndone
------------------------------------------------------------------------------
(* Transparency *)

LEMMA InitRefines == Init => InTheClear!Init
  BY DEF Init, InTheClear!Init, InTheClear!NoBase, Content, Opens, Plain,
         CopiedVersion, CopiedContent, NoJob

(* What changes neither the content nor any copy is invisible.             *)
LEMMA Invisible ==
    ASSUME record' = record, Content' = Content, NEW w \in Worker,
           \A v \in Worker \ {w} : pc'[v] = pc[v] /\ job'[v] = job[v],
           pc[w] = "idle" <=> pc'[w] = "idle", job'[w].etag = job[w].etag,
           CopiedContent'[w] = CopiedContent[w]
    PROVE  UNCHANGED InTheClear!vars
<1>1. CopiedVersion' = CopiedVersion
  BY DEF CopiedVersion
<1>2. CopiedContent' = CopiedContent
  BY DEF CopiedContent
<1>3. QED
  BY <1>1, <1>2 DEF InTheClear!vars

LEMMA ReleaseDrops ==
    ASSUME TypeOK, NEW w \in Worker, Release(w)
    PROVE  InTheClear!Drop(w)
<1>1. /\ pc'[w] = "idle" /\ job'[w] = NoJob
      /\ \A v \in Worker \ {w} : pc'[v] = pc[v] /\ job'[v] = job[v]
  BY DEF Release, Goto, TypeOK
<1>v. job'[w].value = {}
  BY <1>1 DEF NoJob
<1>2. CopiedVersion' = [CopiedVersion EXCEPT ![w] = -1]
  BY <1>1 DEF CopiedVersion
<1>3. CopiedContent' = [CopiedContent EXCEPT ![w] = {}]
  BY <1>1, <1>v DEF CopiedContent
<1>4. QED
  BY <1>2, <1>3 DEF InTheClear!Drop, InTheClear!NoBase

LEMMA WorkRefines ==
    ASSUME Inv, NEW w \in Worker, Work(w)
    PROVE  InTheClear!Next \/ UNCHANGED InTheClear!vars
<1> USE DEF Goto
<1>t. TypeOK /\ record.etag \in Nat
  BY DEF Inv, TypeOK
<1>c. pc[w] # "idle" => CopiedVersion[w] = job[w].etag - 1 /\ CopiedVersion[w] # -1
  BY DEF Inv, JobInv, CopyIsCurrent, CopiedVersion
<1>1. CASE Read(w)
  <2>1. /\ pc[w] = "idle" /\ pc'[w] = "read" /\ UNCHANGED record
        /\ job'[w].etag = record.etag /\ job'[w].envelope = record.envelope
        /\ \A v \in Worker \ {w} : pc'[v] = pc[v] /\ job'[v] = job[v]
        /\ Content' = Content /\ Content = record.envelope.value
    BY <1>1, <1>t DEF Inv, EveryRecordOpens, Read, TypeOK, Content, Opens, IsKnown, KeyOf
  <2>2. CopiedVersion' = [CopiedVersion EXCEPT ![w] = record.etag - 1]
    BY <2>1 DEF CopiedVersion
  <2>3. CopiedContent' = [CopiedContent EXCEPT ![w] = Content]
    BY <2>1 DEF CopiedContent
  <2>4. CopiedVersion[w] = -1
    BY <2>1 DEF CopiedVersion
  <2>5. QED
    BY <2>1, <2>2, <2>3, <2>4 DEF InTheClear!Next, InTheClear!Begin, InTheClear!NoBase
<1>2. CASE Open(w)
  <2>1. /\ pc[w] = "read" /\ pc'[w] = "opened" /\ UNCHANGED record
        /\ job'[w].etag = job[w].etag /\ job'[w].value = job[w].envelope.value
        /\ \A v \in Worker \ {w} : pc'[v] = pc[v] /\ job'[v] = job[v]
        /\ Content' = Content
    BY <1>2, <1>t DEF Open, TypeOK, Job, Content, Opens, IsKnown, KeyOf
  <2>2. QED
    BY <2>1, Invisible DEF CopiedContent
<1>3. CASE Change(w)
  <2>1. /\ pc[w] = "opened" /\ pc' = pc /\ UNCHANGED record
        /\ job'[w].etag = job[w].etag
        /\ \E e \in Update : job'[w].value = job[w].value \cup {e}
        /\ \A v \in Worker \ {w} : job'[v] = job[v]
        /\ Content' = Content
    BY <1>3, <1>t DEF Change, TypeOK, Job, Content, Opens, IsKnown, KeyOf
  <2>2. PICK e \in Update : job'[w].value = job[w].value \cup {e}
    BY <2>1
  <2>3. CopiedVersion' = CopiedVersion
    BY <2>1 DEF CopiedVersion
  <2>4. CopiedContent' = [CopiedContent EXCEPT ![w] = CopiedContent[w] \cup {e}]
    BY <2>1, <2>2 DEF CopiedContent
  <2>5. CopiedVersion[w] # -1
    BY <1>c, <2>1
  <2>6. QED
    BY <2>1, <2>3, <2>4, <2>5 DEF InTheClear!Next, InTheClear!Edit, InTheClear!NoBase
<1>4. CASE ChooseKey(w)
  <2>1. /\ pc[w] = "opened" /\ pc'[w] = "chosen" /\ UNCHANGED record
        /\ job'[w].etag = job[w].etag /\ job'[w].value = job[w].value
        /\ \A v \in Worker \ {w} : pc'[v] = pc[v] /\ job'[v] = job[v]
        /\ Content' = Content
    BY <1>4, <1>t DEF ChooseKey, TypeOK, Job, Content, Opens, IsKnown, KeyOf
  <2>2. QED
    BY <2>1, Invisible DEF CopiedContent
<1>5. CASE Seal(w)
  <2>1. /\ pc[w] = "chosen" /\ pc'[w] = "sealed" /\ UNCHANGED record
        /\ job'[w].etag = job[w].etag /\ job'[w].value = job[w].value
        /\ \A v \in Worker \ {w} : pc'[v] = pc[v] /\ job'[v] = job[v]
        /\ Content' = Content
    BY <1>5, <1>t DEF Seal, TypeOK, Job, Content, Opens, IsKnown, KeyOf
  <2>2. QED
    BY <2>1, Invisible DEF CopiedContent
<1>6. CASE Store(w)
  <2>1. /\ pc[w] = "sealed" /\ job[w].etag = record.etag
        /\ record' = [etag |-> record.etag + 1, envelope |-> FilledIn(w)]
        /\ FilledIn(w).value = job[w].value
    <3>1. pc[w] = "sealed" /\ job[w].envelope = Encrypt(job[w].value, KeyOf(job[w].key_id))
      BY <1>6 DEF Inv, Store, JobInv, SealedByChosen
    <3>2. FilledIn(w).value = job[w].value
      BY <1>t, <3>1, FilledInType DEF Encrypt
    <3>3. QED
      BY <1>6, <3>1, <3>2 DEF Store, ETagMatches
  <2>2. Content' = CopiedContent[w]
    BY <1>6, <2>1, StoredOpens DEF Content, CopiedContent, Store, Opens, IsKnown, KeyOf
  <2>3. CopiedVersion[w] = record.etag - 1 /\ record'.etag - 1 = (record.etag - 1) + 1
    BY <1>c, <1>t, <2>1
  <2>4. \/ InTheClear!Drop(w)
        \/ UNCHANGED <<CopiedVersion, CopiedContent>>
    BY <1>6, <1>t, ReleaseDrops DEF Store, CopiedVersion, CopiedContent
  <2>5. QED
    BY <2>2, <2>3, <2>4 DEF InTheClear!Next, InTheClear!Commit
<1>7. CASE GiveUp(w)
  <2>1. Content' = Content /\ UNCHANGED record /\ CopiedVersion[w] # -1
    BY <1>7, <1>c DEF GiveUp, Content, Opens, IsKnown, KeyOf
  <2>2. InTheClear!Drop(w)
    BY <1>7, <1>t, ReleaseDrops DEF GiveUp
  <2>3. QED
    BY <2>1, <2>2 DEF InTheClear!Next, InTheClear!Abort, InTheClear!NoBase
<1>8. QED
  BY <1>1, <1>2, <1>3, <1>4, <1>5, <1>6, <1>7 DEF Work

LEMMA RotateRefines == ASSUME Inv, Rotate PROVE UNCHANGED InTheClear!vars
<1>1. Inv' /\ UNCHANGED <<record, pc, job>>
  BY RotateKeeps DEF Rotate
<1>2. Content' = Content
  BY <1>1 DEF Inv, EveryRecordOpens, Content
<1>3. QED
  BY <1>1, <1>2 DEF InTheClear!vars, CopiedVersion, CopiedContent

(* Sealing under keys that rotate implements the versioned record: readers *)
(* see what they would see if nothing were encrypted.                      *)
THEOREM TransparentHolds == Spec => Transparent
<1>1. Inv /\ UNCHANGED vars => UNCHANGED InTheClear!vars
  BY DEF vars, InTheClear!vars, Content, Opens, IsKnown, KeyOf, CopiedVersion,
         CopiedContent
<1>2. Inv /\ [Next]_vars => [InTheClear!Next]_(InTheClear!vars)
  BY <1>1, WorkRefines, RotateRefines DEF Next
<1>3. QED
  BY <1>2, InitRefines, InitInv, NextInv, PTL DEF Spec, Transparent, InTheClear!Spec
==============================================================================
