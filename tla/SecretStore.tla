---------------------------- MODULE SecretStore ----------------------------
(***************************************************************************)
(* The encrypted secrets of each tenant, in the tenant's Durable Object    *)
(* (secret-store.ts, provider-secret-store-do.ts), and the rotation of the *)
(* deployment's key encryption key, which the operator does in two         *)
(* deployments with both keys and a third without the old one. An object   *)
(* keeps the keyring it started with until it is restarted. Every write    *)
(* encrypts under a fresh data key and IV, so no ciphertext recurs: a      *)
(* ciphertext is a number.                                                 *)
(***************************************************************************)
EXTENDS OAuthStateStore

CONSTANT MaxWrites   \* bound on the writes key rotation adds

VARIABLES
  secret,      \* the stored record of each tenant: its value, its ciphertext and the key of its envelope
  writes,      \* ciphertexts produced so far
  deployed,    \* the keyring of the current deployment
  keyring,     \* the keyring each object has imported
  rewrapping   \* the record a rewrap of each tenant's secret has read

secretVars == <<secret, writes>>
keyVars == <<deployed, keyring, rewrapping>>

(***************************************************************************)
(* The three deployments: both keys and the old one current, both and the  *)
(* new one current, the new key alone.                                     *)
(***************************************************************************)
BothOld == 1
BothNew == 2
NewOnly == 3

keyById(ring) == IF ring = NewOnly THEN {"new"} ELSE {"old", "new"}
currentKey(ring) == IF ring = BothOld THEN "old" ELSE "new"

encryptSecretValue(t, value) ==
  [value |-> value, record |-> writes + 1, key |-> currentKey(keyring[t])]

putSecret(t, value) ==
  /\ secret' = [secret EXCEPT ![t] = encryptSecretValue(t, value)]
  /\ writes' = writes + 1

(***************************************************************************)
(* A secret whose key is not in the keyring cannot be read; neither can    *)
(* one that is not there.                                                  *)
(***************************************************************************)
getSecret(t) == secret[t] # None /\ secret[t].key \in keyById(keyring[t])

SecretInit(keys) ==
  /\ secret = [t \in Tenants |-> None] /\ writes = 0
  /\ deployed = keys /\ keyring = [t \in Tenants |-> keys]
  /\ rewrapping = [t \in Tenants |-> None]

-----------------------------------------------------------------------------
(* Key rotation.                                                            *)
(***************************************************************************)
(* rewrapSecret reads the record and unwraps its data key; a record that   *)
(* has the current key already is left alone.                              *)
(***************************************************************************)
rewrapSecret(t) ==
  /\ rewrapping[t] = None /\ writes < MaxWrites
  /\ getSecret(t) /\ secret[t].key # currentKey(keyring[t])
  /\ rewrapping' = [rewrapping EXCEPT ![t] = secret[t]]
  /\ UNCHANGED <<secretVars, deployed, keyring>>

(***************************************************************************)
(* Mutated: the envelope is put back without a comparison.                 *)
(***************************************************************************)
rewrapSecret_Replace_Put(t) ==
  /\ rewrapping[t] # None
  /\ putSecret(t, rewrapping[t].value)
  /\ rewrapping' = [rewrapping EXCEPT ![t] = None]
  /\ UNCHANGED <<deployed, keyring>>

(***************************************************************************)
(* The data key is wrapped with the current key and the value stays. A     *)
(* record that was replaced meanwhile is left alone:                       *)
(* secret_record_changed.                                                  *)
(***************************************************************************)
rewrapSecret_Replace(t) ==
  /\ rewrapping[t] # None
  /\ IF secret[t] = rewrapping[t] THEN putSecret(t, rewrapping[t].value) ELSE UNCHANGED secretVars
  /\ rewrapping' = [rewrapping EXCEPT ![t] = None]
  /\ UNCHANGED <<deployed, keyring>>

(***************************************************************************)
(* The operator deploys the next keyring; the old key is removed when      *)
(* every object has the new one and every record of the inventory its key  *)
(* (docs/operations/secret-key-rotation.md).                               *)
(***************************************************************************)
DeployKeyring ==
  /\ deployed < NewOnly
  /\ deployed = BothNew =>
       \A t \in Tenants : keyring[t] = BothNew /\ (secret[t] # None => secret[t].key = "new")
  /\ deployed' = deployed + 1
  /\ UNCHANGED <<secretVars, keyring, rewrapping>>

(***************************************************************************)
(* An object is restarted with the deployed keyring. The operations it was *)
(* in are over: "busy" are the tenants whose objects are in one.           *)
(***************************************************************************)
resolveKeyring(t, busy) ==
  /\ keyring[t] # deployed /\ t \notin busy
  /\ keyring' = [keyring EXCEPT ![t] = deployed]
  /\ rewrapping' = [rewrapping EXCEPT ![t] = None]
  /\ UNCHANGED <<secretVars, deployed>>

Keys(busy) ==
  \/ DeployKeyring
  \/ \E t \in Tenants : rewrapSecret(t) \/ rewrapSecret_Replace(t) \/ resolveKeyring(t, busy)

(***************************************************************************)
(* Whatever is rotated, rewrapped, refreshed and reconnected at the same   *)
(* time, every stored secret stays readable with the keyring of its object *)
(* ("keep the old key until every record has been rewrapped").             *)
(***************************************************************************)
SecretIsReadable == \A t \in Tenants : secret[t] # None => getSecret(t)
=============================================================================
