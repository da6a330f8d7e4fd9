---------------------------- MODULE NamespaceKeys -----------------------------
(***************************************************************************)
(* The names that keep the blocks of the shared prefix cache apart         *)
(* (crates/af-inference-client/src/namespace.rs): a key of four parts is   *)
(* rendered as one string and put before every cache key.  A string is a   *)
(* sequence of symbols, of which ":" is the separator and a label is one.  *)
(* The tenants are those that have a record in the state store.            *)
(*                                                                         *)
(* Nothing checks the names of tenants and agent types, which may contain  *)
(* ":".  Tenants are meant not to: their ids are UUIDs                     *)
(* (proto/af-swarm/common.proto:37), or slugs (docs,                       *)
(* inference-cluster.md:841).                                              *)
(*                                                                         *)
(* External: the hash of the prompt, any digest of one length, and the     *)
(* callers, who name tenants and agent types.                              *)
(***************************************************************************)
EXTENDS StateKeys, SequencesExt

CONSTANTS AgentTypes,
          Digests,    \* hex digests of system prompt prefixes
          Codes       \* values of the sensitivity field, an i32

(* sensitivity_label, with a code of no level taken for UNSPECIFIED *)
LabelOf == <<"PUBLIC", "INTERNAL", "SENSITIVE", "RESTRICTED">>

sensitivity_label(code) ==
    IF code \in DOMAIN LabelOf THEN LabelOf[code] ELSE "UNSPECIFIED"

ASSUME NamespaceAssumption ==
    /\ {":", "UNSPECIFIED"} \cup Range(LabelOf) \subseteq Symbol
    /\ AgentTypes \cup Digests \subseteq Seq(Symbol)
    /\ \A d, e \in Digests : Len(d) = Len(e)
    /\ Codes \subseteq Int

Tenants == {store[k].tenant : k \in DOMAIN store}

KvNamespaceKey == [tenant_id : Tenants, sensitivity : Codes, agent_type : AgentTypes,
                   prefix_hash : Digests]

JoinedPrefix(key) ==
    key.tenant_id \o <<sensitivity_label(key.sensitivity)>> \o key.agent_type
        \o key.prefix_hash

namespace_key_to_prefix(key) ==
    key.tenant_id \o <<":", sensitivity_label(key.sensitivity), ":">>
        \o key.agent_type \o <<":">> \o key.prefix_hash

(* The names of which a tenant_id is meant to be. *)
HasNoColon(name) == \A i \in DOMAIN name : name[i] # ":"

(* Blocks of one namespace are served under another's keys only if its     *)
(* prefix begins the other's.                                              *)
MayServe(k, l) == IsPrefix(namespace_key_to_prefix(k), namespace_key_to_prefix(l))

(* Blocks of a tenant, or of a level, are never served to another, even    *)
(* when prompts collide in their hashes (namespace.rs:13-14, 35-36), if no *)
(* tenant has a ":" in its id: whatever the agent types are called, and    *)
(* whatever the code of the level is.                                      *)
TenantsAreApart ==
    \A k, l \in KvNamespaceKey :
        HasNoColon(k.tenant_id) /\ HasNoColon(l.tenant_id) /\ MayServe(k, l) =>
            /\ k.tenant_id = l.tenant_id
            /\ sensitivity_label(k.sensitivity) = sensitivity_label(l.sensitivity)

(* The same without the condition, as namespace.rs:13-14 states it.        *)
NeverServedToAnother ==
    \A k, l \in KvNamespaceKey : MayServe(k, l) => k.tenant_id = l.tenant_id
==============================================================================
