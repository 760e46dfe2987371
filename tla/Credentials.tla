---------------------------- MODULE Credentials ----------------------------
(* The keys that sign tax documents (packages/tax/src/credentials.ts): the    *)
(* shop keeps a private key and a certificate in the database, uploaded and   *)
(* revoked by its managers.  An upload is two statements, revoke and insert,  *)
(* without a transaction; a sending reads each kind by a query of its own and *)
(* falls back to the files of the environment, kind by kind.                  *)
EXTENDS Naturals, FiniteSets

CONSTANTS CredentialKinds,  \* private_key, certificate, public_key
          Keepers,          \* requests of managers that may overlap
          Pairs             \* key pairs that are uploaded, each part once

NoPair == "none"
FromFile == "file"

ASSUME CredentialsAssumption ==
  {"private_key", "certificate"} \subseteq CredentialKinds /\ {NoPair, FromFile} \cap Pairs = {}

Credential == CredentialKinds \X Pairs

VARIABLES active,     \* the row of a kind that is not revoked
          envFiles,   \* the environment names files, of whatever pair
          saving,     \* of a keeper: what it inserts after it has revoked
          uploaded,   \* what was ever sent to saveCredential
          revoked,    \* what was in the vault and is not any more
          emptied,    \* kinds that a revocation or a broken upload left empty
          seenPem,    \* of the panel's sending: what it has read so far
          revokedThen,\* what was revoked when that sending began
          packet      \* the last document: what signed it, what was revoked before

credentialVars == <<active, envFiles, saving, uploaded, revoked, emptied, seenPem,
                    revokedThen, packet>>

NoPacket == [pems |-> [k \in CredentialKinds |-> NoPair], before |-> {}, by |-> "nobody"]
NothingRead == [k \in {} |-> NoPair]

CredentialsInit ==
  /\ active = [k \in CredentialKinds |-> NoPair] /\ envFiles \in BOOLEAN
  /\ saving = [m \in Keepers |-> {}] /\ uploaded = {} /\ revoked = {} /\ emptied = {}
  /\ seenPem = NothingRead /\ revokedThen = {} /\ packet = NoPacket

\* UPDATE ... SET revoked_at = now() WHERE kind = $1 AND revoked_at IS NULL
RevokedWith(kind) ==
  IF active[kind] = NoPair THEN revoked ELSE revoked \cup {<<kind, active[kind]>>}

\* saveCredential: the text was checked before anything is written; the row before
\* it is revoked ...
SaveRevokes(m, c) ==
  /\ saving[m] = {} /\ c \notin uploaded
  /\ saving' = [saving EXCEPT ![m] = {c}]
  /\ uploaded' = uploaded \cup {c}
  /\ revoked' = RevokedWith(c[1])
  /\ active' = [active EXCEPT ![c[1]] = NoPair]
  /\ UNCHANGED <<envFiles, emptied, seenPem, revokedThen, packet>>

\* Faulty variant of SaveInserts: the keeper revokes again after it has inserted.
SaveInsertsThenRevokes(m) ==
  \E c \in saving[m] :
    /\ saving' = [saving EXCEPT ![m] = {}]
    /\ active' = [active EXCEPT ![c[1]] = NoPair]
    /\ revoked' = RevokedWith(c[1])
    /\ UNCHANGED <<envFiles, uploaded, emptied, seenPem, revokedThen, packet>>

\* ... and the new one inserted, unless the unique index of active rows finds another
\* keeper's, in which case this upload ends in an error.
SaveInserts(m) ==
  \E c \in saving[m] :
    /\ saving' = [saving EXCEPT ![m] = {}]
    /\ IF active[c[1]] = NoPair
         THEN active' = [active EXCEPT ![c[1]] = c[2]] /\ emptied' = emptied \ {c[1]}
         ELSE UNCHANGED <<active, emptied>>
    /\ UNCHANGED <<envFiles, uploaded, revoked, seenPem, revokedThen, packet>>

\* The process or its connection ends between the two statements.
SaveDies(m) ==
  \E c \in saving[m] :
    /\ saving' = [saving EXCEPT ![m] = {}]
    /\ emptied' = IF active[c[1]] = NoPair THEN emptied \cup {c[1]} ELSE emptied
    /\ UNCHANGED <<active, envFiles, uploaded, revoked, seenPem, revokedThen, packet>>

\* revokeCredential, by a manager's hand.
RevokeCredential(kind) ==
  /\ active[kind] # NoPair
  /\ active' = [active EXCEPT ![kind] = NoPair]
  /\ revoked' = RevokedWith(kind)
  /\ emptied' = emptied \cup {kind}
  /\ UNCHANGED <<envFiles, saving, uploaded, seenPem, revokedThen, packet>>

-----------------------------------------------------------------------------
(* Sending.                                                                   *)

\* Faulty variant of LoadPem: a kind that was read for the last document is not read
\* again.
LoadPemCached(kind) ==
  /\ kind \notin DOMAIN seenPem
  /\ revokedThen' = IF seenPem = NothingRead THEN revoked ELSE revokedThen
  /\ seenPem' = [k \in DOMAIN seenPem \cup {kind} |->
                   IF k # kind THEN seenPem[k]
                   ELSE IF packet.pems[k] \in Pairs THEN packet.pems[k] ELSE active[k]]
  /\ UNCHANGED <<active, envFiles, saving, uploaded, revoked, emptied, packet>>

\* loadCredentialPem: the row of the kind that is active now.
LoadPem(kind) ==
  /\ kind \notin DOMAIN seenPem
  /\ revokedThen' = IF seenPem = NothingRead THEN revoked ELSE revokedThen
  /\ seenPem' = [k \in DOMAIN seenPem \cup {kind} |->
                   IF k = kind THEN active[k] ELSE seenPem[k]]
  /\ UNCHANGED <<active, envFiles, saving, uploaded, revoked, emptied, packet>>

\* productionClient asks for each kind by a query of its own, in whatever order they
\* are answered.
PanelLoads == \E kind \in CredentialKinds : LoadPem(kind)

\* keys(): what the vault did not have comes from the files, if there are any.
Resolved(pems) ==
  [k \in CredentialKinds |-> IF pems[k] = NoPair /\ envFiles THEN FromFile ELSE pems[k]]

\* send: the token and the document are signed by the same keys; without a private
\* key nothing is sent.
Signed(pems, before, by) ==
  IF pems["private_key"] = NoPair THEN packet ELSE [pems |-> pems, before |-> before, by |-> by]

\* clientForCredentials, a fresh client for every request.
PanelSends ==
  /\ DOMAIN seenPem = CredentialKinds
  /\ packet' = Signed(Resolved(seenPem), revokedThen, "panel")
  /\ seenPem' = NothingRead /\ revokedThen' = {}
  /\ UNCHANGED <<active, envFiles, saving, uploaded, revoked, emptied>>

\* The worker's clientForMode builds its client from the environment alone.
WorkerSends ==
  /\ envFiles
  /\ packet' = Signed([k \in CredentialKinds |-> FromFile], revoked, "worker")
  /\ UNCHANGED <<active, envFiles, saving, uploaded, revoked, emptied, seenPem, revokedThen>>

CredentialsNext ==
  \/ \E m \in Keepers : \/ \E c \in Credential : SaveRevokes(m, c)
                        \/ SaveInserts(m) \/ SaveDies(m)
  \/ \E kind \in CredentialKinds : RevokeCredential(kind)
  \/ PanelLoads \/ PanelSends \/ WorkerSends

CredentialsSpec == CredentialsInit /\ [][CredentialsNext]_credentialVars

-----------------------------------------------------------------------------
(* Properties.                                                                *)

CredentialsTypeOK ==
  /\ active \in [CredentialKinds -> Pairs \cup {NoPair}] /\ envFiles \in BOOLEAN
  /\ \A m \in Keepers : saving[m] \subseteq Credential /\ Cardinality(saving[m]) <= 1
  /\ uploaded \subseteq Credential /\ revoked \subseteq uploaded
  /\ emptied \subseteq CredentialKinds
  /\ \A k \in DOMAIN seenPem : k \in CredentialKinds /\ seenPem[k] \in Pairs \cup {NoPair}
  /\ revokedThen \subseteq revoked /\ packet.before \subseteq revoked

\* However uploads overlap, the shop never ends between two certificates: a kind
\* that was ever uploaded is missing only while an upload of it runs, after a
\* manager's revocation, or after an upload that broke off half-way.
EmptyHasACause ==
  \A c \in uploaded : active[c[1]] = NoPair =>
    c[1] \in emptied \/ \E m \in Keepers : \E d \in saving[m] : d[1] = c[1]

\* What was revoked before a sending of the panel began does not sign its document.
RevokedIsNotUsed ==
  \A k \in CredentialKinds : <<k, packet.pems[k]>> \notin packet.before

CredentialsHold == CredentialsTypeOK /\ EmptyHasACause /\ RevokedIsNotUsed

\* What the comment of saveCredential says (credentials.ts:120-126), and an upload
\* that breaks off does not keep: an error means that nothing has changed.
ErrorChangesNothing ==
  [][\A m \in Keepers : \A c \in saving[m] :
       saving'[m] = {} /\ active'[c[1]] = NoPair => revoked \cap ({c[1]} \X Pairs) = {}]_credentialVars

\* What the comment of clientForCredentials says (client.ts:305-313), and the worker
\* does not do: a certificate of the panel comes before the files.
PanelComesFirst ==
  [][packet' # packet /\ active["private_key"] # NoPair =>
       packet'.pems["private_key"] # FromFile]_credentialVars

\* No document is signed by the key of one pair and carries the certificate of
\* another; the panel's test of the pair says nothing of a sending between two uploads.
PairsAreNotMixed ==
  packet.by # "nobody" => packet.pems["private_key"] = packet.pems["certificate"]
=============================================================================
