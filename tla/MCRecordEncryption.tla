-------------------------- MODULE MCRecordEncryption --------------------------
(* An instance of RecordEncryption for TLC. *)
EXTENDS RecordEncryptionProofs

Workers == {"writer", "rotation_job"}
Edits == {1, 2}
==============================================================================
