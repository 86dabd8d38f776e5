------------------------------ MODULE Secrets ------------------------------
(***************************************************************************)
(* A secret of an organisation: its reference, the versions of its value,  *)
(* and the keyring the API encrypts them with.                             *)
(*                                                                         *)
(* Rotate reads the last version and then, in a transaction, deactivates   *)
(* the values, inserts the next one and commits.  The transactions are     *)
(* those of PostgreSQL at its default level: a statement sees what was     *)
(* committed when it began, an UPDATE waits for a transaction that updated *)
(* the same rows, and the unique indexes of secret_values refuse a row.    *)
(* Secrets have nothing to do with one another: the module is one.         *)
(***************************************************************************)
EXTENDS Naturals, Sequences, FiniteSetsExt

CONSTANTS
    Rotation,     \* requests that rotate the secret at the same time
    Key,          \* keys of the keyring
    MaxVersions,  \* bound on the versions
    MaxRestarts   \* bound on restarts of the API with other keys

ASSUME SecretsAssumption ==
    /\ IsFiniteSet(Rotation) /\ IsFiniteSet(Key) /\ Key # {}
    /\ {MaxVersions, MaxRestarts} \subseteq Nat

VARIABLES
    reference,  \* secret_references: absent, stored or deleted
    values,     \* secret_values: the committed rows
    rotation,   \* RotateSecret
    deletion,   \* DeleteSecret: it has found the secret
    keyring,    \* the keys, the primary one first
    resolved,   \* what Resolve returned last: a version, none, or an error
    restarts

secretsVars == <<reference, values, rotation, deletion, keyring, resolved, restarts>>

Requested == [pc |-> "request"]
Keyrings  == { k \in [1..1 -> Key] \cup [1..2 -> Key] : Cardinality({k[i] : i \in DOMAIN k}) = Len(k) }

(* ParseKeyring: the first key is used for new values, all for old ones.   *)
PrimaryID     == Head(keyring)
Decrypt(key)  == \E i \in DOMAIN keyring : keyring[i] = key

Active == { x \in values : x.active }
LastVersion   == Max({ x.version : x \in values } \cup {0})

Row(version) == [version |-> version, key |-> PrimaryID, active |-> TRUE]

-----------------------------------------------------------------------------
(* The handlers look at the organisation's policies before they go on: the *)
(* kernel may deny the operation, ask for an approval or fail.             *)
authorizeSecretOperation == {TRUE, FALSE}

(* A secret that is not deleted, both for the handler and for the manager. *)
loadSecretReference == reference = "stored"

(* Store: the reference and its first value are one transaction.           *)
Store ==
    /\ reference = "absent"
    /\ reference' = "stored" /\ values' = {Row(1)}
    /\ UNCHANGED <<rotation, deletion, keyring, resolved, restarts>>

CreateSecret == \E authorised \in authorizeSecretOperation : authorised /\ Store

DeleteSecret ==
    /\ ~deletion /\ loadSecretReference
    /\ deletion' \in authorizeSecretOperation
    /\ UNCHANGED <<reference, values, rotation, keyring, resolved, restarts>>

(* UPDATE ... WHERE deleted_at IS NULL; or an error.                       *)
Delete ==
    /\ deletion /\ deletion' = FALSE
    /\ reference' \in {reference, IF loadSecretReference THEN "deleted" ELSE reference}
    /\ UNCHANGED <<values, rotation, keyring, resolved, restarts>>

(* The active value of a secret that is not deleted.                       *)
Resolve ==
    /\ resolved' = IF reference # "stored" \/ Active = {} THEN "not found"
                   ELSE IF \E x \in Active : Decrypt(x.key) THEN "value" ELSE "no key"
    /\ resolved' # resolved
    /\ UNCHANGED <<reference, values, rotation, deletion, keyring, restarts>>

-----------------------------------------------------------------------------
(* Rotate.                                                                 *)

Moves(r, pc) == rotation' = [rotation EXCEPT ![r] = [@ EXCEPT !.pc = pc]]

(* RotateSecret: not found, refused, or handed to the manager.             *)
RotateSecret(r) ==
    /\ rotation[r].pc = "request"
    /\ \E authorised \in authorizeSecretOperation :
          Moves(r, IF loadSecretReference /\ authorised THEN "rotate" ELSE "done")
    /\ UNCHANGED <<reference, values, deletion, keyring, resolved, restarts>>

(* loadReferenceAndVersion, and the value is encrypted.                    *)
RotateReads(r) ==
    /\ rotation[r].pc = "rotate"
    /\ rotation' = [rotation EXCEPT ![r] =
          IF reference = "stored" THEN [pc |-> "begin", row |-> Row(LastVersion + 1)] ELSE [pc |-> "done"]]
    /\ UNCHANGED <<reference, values, deletion, keyring, resolved, restarts>>

(* UPDATE secret_values: the rows it sees, ...                             *)
DeactivateSees(r) ==
    /\ rotation[r].pc = "begin"
    /\ rotation' = [rotation EXCEPT ![r] =
          [pc |-> "wait", row |-> @.row, sees |-> { x.version : x \in values }]]
    /\ UNCHANGED <<reference, values, deletion, keyring, resolved, restarts>>

(* ... once no other transaction has them.                                 *)
Deactivate(r) ==
    /\ rotation[r].pc = "wait"
    /\ \A o \in Rotation : rotation[o].pc \notin {"insert", "commit"}
    /\ Moves(r, "insert")
    /\ UNCHANGED <<reference, values, deletion, keyring, resolved, restarts>>

(* UNIQUE(secret_reference_id, version), and one active row.               *)
Conflict(c) ==
    \E x \in values : x.version = c.row.version \/ (x.active /\ x.version \notin c.sees)

Insert(r) ==
    /\ rotation[r].pc = "insert" /\ rotation[r].row.version <= MaxVersions
    /\ Moves(r, IF Conflict(rotation[r]) THEN "done" ELSE "commit")
    /\ UNCHANGED <<reference, values, deletion, keyring, resolved, restarts>>

\* Slip: the transaction does not deactivate what it replaces.
CommitBeside(r) ==
    /\ rotation[r].pc = "commit"
    /\ values' = values \cup {rotation[r].row}
    /\ Moves(r, "done")
    /\ UNCHANGED <<reference, deletion, keyring, resolved, restarts>>

CommitRotation(r) ==
    /\ rotation[r].pc = "commit"
    /\ values' = { [x EXCEPT !.active = @ /\ x.version \notin rotation[r].sees] : x \in values }
                 \cup {rotation[r].row}
    /\ Moves(r, "done")
    /\ UNCHANGED <<reference, deletion, keyring, resolved, restarts>>

(* A statement fails, or the API stops: nothing of the transaction is left.*)
Rollback(r) ==
    /\ rotation[r].pc \in {"begin", "wait", "insert", "commit"}
    /\ Moves(r, "done")
    /\ UNCHANGED <<reference, values, deletion, keyring, resolved, restarts>>

(* Somebody else asks.                                                     *)
RotateAgain(r) ==
    /\ rotation[r].pc = "done" /\ LastVersion < MaxVersions
    /\ rotation' = [rotation EXCEPT ![r] = Requested]
    /\ UNCHANGED <<reference, values, deletion, keyring, resolved, restarts>>

(* The API is started with another keyring; requests are gone.             *)
RestartWithKeys ==
    /\ restarts < MaxRestarts /\ restarts' = restarts + 1
    /\ keyring' \in Keyrings
    /\ rotation' = [r \in Rotation |-> [pc |-> "done"]] /\ deletion' = FALSE
    /\ UNCHANGED <<reference, values, resolved>>

-----------------------------------------------------------------------------
SecretsInit ==
    /\ reference = "absent" /\ values = {} /\ resolved = "none" /\ restarts = 0
    /\ rotation = [r \in Rotation |-> Requested] /\ deletion = FALSE
    /\ keyring = <<CHOOSE k \in Key : TRUE>>

SecretsNext ==
    \/ CreateSecret \/ DeleteSecret \/ Delete \/ Resolve \/ RestartWithKeys
    \/ \E r \in Rotation :
          \/ RotateSecret(r) \/ RotateReads(r) \/ DeactivateSees(r) \/ Deactivate(r) \/ Insert(r)
          \/ CommitRotation(r) \/ Rollback(r) \/ RotateAgain(r)

-----------------------------------------------------------------------------
(* Properties.                                                             *)

SecretsTypeOK ==
    /\ reference \in {"absent", "stored", "deleted"} /\ deletion \in BOOLEAN /\ keyring \in Keyrings
    /\ \A x \in values : x \in [version : 1..MaxVersions, key : Key, active : BOOLEAN]
    /\ \A r \in Rotation : rotation[r].pc \in {"request", "rotate", "begin", "wait", "insert", "commit", "done"}
    /\ resolved \in {"none", "not found", "value", "no key"}

(* A secret that was stored has one active value, that of the last         *)
(* rotation that was committed, however many rotations overlap, fail or    *)
(* are cut off (Rotate).                                                   *)
OneActiveValue ==
    reference # "absent" => \E x \in values : Active = {x} /\ x.version = LastVersion

=============================================================================
