---------------------------- MODULE FrontProofs ----------------------------
(* Proofs about what stands at the door: the keys that sign, the sign-in of   *)
(* the staff, the rate limiter, and the pages of the panel that renew a       *)
(* session between the browser and the service.                               *)
EXTENDS Front, FiniteSetTheorems, TLAPS

-----------------------------------------------------------------------------
(* The credentials: a pair is held by one keeper, and a revoked key rests.   *)

\* Types in full.  Of a keeper: it holds one credential at most, that it was the
\* first to send.
CredentialsShape ==
  /\ active \in [CredentialKinds -> Pairs \cup {NoPair}]
  /\ envFiles \in BOOLEAN
  /\ saving \in [Keepers -> SUBSET Credential]
  /\ \A m \in Keepers : \A c, d \in saving[m] : c = d
  /\ uploaded \subseteq Credential /\ revoked \subseteq uploaded
  /\ emptied \subseteq CredentialKinds
  /\ DOMAIN seenPem \subseteq CredentialKinds
  /\ seenPem \in [DOMAIN seenPem -> Pairs \cup {NoPair}]
  /\ revokedThen \subseteq revoked /\ packet.before \subseteq revoked

\* A pair that is active was uploaded and has not been revoked, and one that is yet
\* to be inserted is neither active nor revoked, nor in the hands of two keepers.
PairsAreFresh ==
  /\ \A k \in CredentialKinds :
       active[k] # NoPair => <<k, active[k]>> \in uploaded \ revoked
  /\ \A m \in Keepers : \A c \in saving[m] :
       c \in uploaded \ revoked /\ active[c[1]] # c[2]
  /\ \A m, n \in Keepers : m # n => saving[m] \cap saving[n] = {}

\* What a sending has read was not revoked when it began.
SeenWasActive ==
  \A k \in DOMAIN seenPem : <<k, seenPem[k]>> \notin revokedThen

Vault ==
  /\ CredentialsShape /\ PairsAreFresh /\ SeenWasActive
  /\ EmptyHasACause /\ RevokedIsNotUsed

LEMMA VaultInit == CredentialsInit => Vault
<1> SUFFICES ASSUME CredentialsInit PROVE Vault
  OBVIOUS
<1>1. /\ packet.before = {} /\ DOMAIN seenPem = {}
      /\ uploaded = {} /\ revoked = {} /\ emptied = {} /\ revokedThen = {}
      /\ \A m \in Keepers : saving[m] = {}
  BY DEF CredentialsInit, NoPacket, NothingRead
<1>2. CredentialsShape
  BY <1>1 DEF CredentialsInit, CredentialsShape, NothingRead
<1>3. PairsAreFresh /\ SeenWasActive /\ EmptyHasACause /\ RevokedIsNotUsed
  BY <1>1 DEF CredentialsInit, PairsAreFresh, SeenWasActive, EmptyHasACause,
              RevokedIsNotUsed
<1> QED
  BY <1>2, <1>3 DEF Vault

LEMMA KeysOfCredentials ==
  ASSUME NEW c \in Credential
  PROVE  /\ c[1] \in CredentialKinds /\ c[2] \in Pairs /\ c = <<c[1], c[2]>>
         /\ c[2] # NoPair
BY CredentialsAssumption DEF Credential

LEMMA SaveRevokesStep ==
  ASSUME Vault, NEW m \in Keepers, NEW c \in Credential, SaveRevokes(m, c)
  PROVE  Vault'
<1> USE DEF Vault
<1>1. /\ c[1] \in CredentialKinds /\ c[2] \in Pairs /\ c = <<c[1], c[2]>>
      /\ c[2] # NoPair
  BY KeysOfCredentials
<1>2. /\ saving[m] = {} /\ c \notin uploaded
      /\ saving' = [saving EXCEPT ![m] = {c}] /\ uploaded' = uploaded \cup {c}
      /\ active' = [active EXCEPT ![c[1]] = NoPair]
      /\ revoked' \subseteq uploaded /\ revoked \subseteq revoked'
      /\ \A x \in revoked' : x \in revoked \/ x = <<c[1], active[c[1]]>>
      /\ UNCHANGED <<envFiles, emptied, seenPem, revokedThen, packet>>
  BY <1>1 DEF SaveRevokes, RevokedWith, CredentialsShape, PairsAreFresh
<1>3. CredentialsShape'
  <2>1. \A n \in Keepers : \A x, y \in saving'[n] : x = y
    BY <1>2 DEF CredentialsShape
  <2> QED
    BY <1>1, <1>2, <2>1 DEF CredentialsShape
<1>4. PairsAreFresh'
  <2>1. \A k \in CredentialKinds :
          active'[k] # NoPair => <<k, active'[k]>> \in uploaded' \ revoked'
    BY <1>1, <1>2 DEF CredentialsShape, PairsAreFresh
  <2>2. ASSUME NEW n \in Keepers, NEW x \in saving'[n]
        PROVE  x \in uploaded' \ revoked' /\ active'[x[1]] # x[2]
    <3>1. CASE n = m
      BY <1>1, <1>2, <3>1 DEF CredentialsShape, PairsAreFresh
    <3>2. CASE n # m
      <4>1. x \in saving[n] /\ x \in Credential
        BY <1>2, <3>2 DEF CredentialsShape
      <4>2. x[1] \in CredentialKinds /\ x[2] # NoPair /\ x = <<x[1], x[2]>>
        BY <4>1, KeysOfCredentials
      <4> QED
        BY <1>2, <4>1, <4>2 DEF CredentialsShape, PairsAreFresh
    <3> QED
      BY <3>1, <3>2
  <2>3. \A n, o \in Keepers : n # o => saving'[n] \cap saving'[o] = {}
    BY <1>2 DEF CredentialsShape, PairsAreFresh
  <2> QED
    BY <2>1, <2>2, <2>3 DEF PairsAreFresh
<1>5. EmptyHasACause'
  <2> SUFFICES ASSUME NEW x \in uploaded', active'[x[1]] = NoPair, x[1] \notin emptied'
               PROVE  \E n \in Keepers : \E d \in saving'[n] : d[1] = x[1]
    BY DEF EmptyHasACause
  <2>1. CASE x[1] = c[1]
    BY <1>2, <2>1 DEF CredentialsShape
  <2>2. CASE x[1] # c[1]
    <3>1. x \in uploaded /\ active[x[1]] = NoPair
      BY <1>1, <1>2, <2>2, KeysOfCredentials DEF CredentialsShape
    <3>2. PICK n \in Keepers : \E d \in saving[n] : d[1] = x[1]
      BY <1>2, <3>1 DEF EmptyHasACause
    <3> QED
      BY <1>2, <3>2 DEF CredentialsShape
  <2> QED
    BY <2>1, <2>2
<1>6. SeenWasActive' /\ RevokedIsNotUsed'
  BY <1>2 DEF SeenWasActive, RevokedIsNotUsed
<1> QED
  BY <1>3, <1>4, <1>5, <1>6

LEMMA SaveEndsStep ==
  ASSUME Vault, NEW m \in Keepers, SaveInserts(m) \/ SaveDies(m)
  PROVE  Vault'
<1> USE DEF Vault
<1>1. PICK c \in saving[m] :
        /\ saving' = [saving EXCEPT ![m] = {}]
        /\ \/ /\ active[c[1]] = NoPair /\ active' = [active EXCEPT ![c[1]] = c[2]]
              /\ emptied' = emptied \ {c[1]}
           \/ /\ active' = active
              /\ active[c[1]] = NoPair => emptied' = emptied \cup {c[1]}
              /\ active[c[1]] # NoPair => emptied' = emptied
        /\ UNCHANGED <<envFiles, uploaded, revoked, seenPem, revokedThen, packet>>
  BY DEF SaveInserts, SaveDies
<1>2. c \in Credential /\ saving[m] = {c} /\ c \in uploaded \ revoked
  BY <1>1 DEF CredentialsShape, PairsAreFresh
<1>3. /\ c[1] \in CredentialKinds /\ c[2] \in Pairs /\ c = <<c[1], c[2]>>
      /\ c[2] # NoPair
  BY <1>2, KeysOfCredentials
<1>4. CredentialsShape'
  <2>1. active' \in [CredentialKinds -> Pairs \cup {NoPair}]
    BY <1>1, <1>3 DEF CredentialsShape
  <2>2. saving' \in [Keepers -> SUBSET Credential]
    BY <1>1 DEF CredentialsShape
  <2>3. \A n \in Keepers : \A x, y \in saving'[n] : x = y
    BY <1>1 DEF CredentialsShape
  <2>4. emptied' \subseteq CredentialKinds
    BY <1>1, <1>3 DEF CredentialsShape
  <2> QED
    BY <1>1, <2>1, <2>2, <2>3, <2>4 DEF CredentialsShape
<1>5. PairsAreFresh'
  <2>1. ASSUME NEW k \in CredentialKinds, active'[k] # NoPair
        PROVE  <<k, active'[k]>> \in uploaded' \ revoked'
    BY <1>1, <1>2, <1>3, <2>1 DEF CredentialsShape, PairsAreFresh
  <2>2. ASSUME NEW n \in Keepers, NEW x \in saving'[n]
        PROVE  x \in uploaded' \ revoked' /\ active'[x[1]] # x[2]
    <3>1. n # m /\ x \in saving[n] /\ x \in Credential /\ x # c
      BY <1>1, <1>2 DEF CredentialsShape, PairsAreFresh
    <3>2. x[1] \in CredentialKinds /\ x = <<x[1], x[2]>>
      BY <3>1, KeysOfCredentials
    <3>3. active'[x[1]] = active[x[1]] \/ (x[1] = c[1] /\ active'[x[1]] = c[2])
      BY <1>1, <1>3, <3>2 DEF CredentialsShape
    <3> QED
      BY <1>1, <1>3, <3>1, <3>2, <3>3 DEF PairsAreFresh
  <2>3. \A n, o \in Keepers : n # o => saving'[n] \cap saving'[o] = {}
    BY <1>1 DEF CredentialsShape, PairsAreFresh
  <2> QED
    BY <2>1, <2>2, <2>3 DEF PairsAreFresh
<1>6. EmptyHasACause'
  <2> SUFFICES ASSUME NEW x \in uploaded', active'[x[1]] = NoPair, x[1] \notin emptied'
               PROVE  \E n \in Keepers : \E d \in saving'[n] : d[1] = x[1]
    BY DEF EmptyHasACause
  <2>1. x \in uploaded /\ x \in Credential /\ x[1] \in CredentialKinds
    BY <1>1, KeysOfCredentials DEF CredentialsShape
  <2>2. active[x[1]] = NoPair /\ x[1] # c[1] /\ x[1] \notin emptied
    BY <1>1, <1>3, <2>1 DEF CredentialsShape
  <2>3. PICK n \in Keepers : \E d \in saving[n] : d[1] = x[1]
    BY <2>1, <2>2 DEF EmptyHasACause
  <2>4. n # m
    BY <1>2, <2>2, <2>3
  <2> QED
    BY <1>1, <2>3, <2>4 DEF CredentialsShape
<1>7. SeenWasActive' /\ RevokedIsNotUsed'
  BY <1>1 DEF SeenWasActive, RevokedIsNotUsed
<1> QED
  BY <1>4, <1>5, <1>6, <1>7

LEMMA RevokeStep ==
  ASSUME Vault, NEW kind \in CredentialKinds, RevokeCredential(kind)
  PROVE  Vault'
<1> USE DEF Vault
<1>1. /\ active[kind] # NoPair /\ active' = [active EXCEPT ![kind] = NoPair]
      /\ revoked' = revoked \cup {<<kind, active[kind]>>}
      /\ emptied' = emptied \cup {kind}
      /\ UNCHANGED <<envFiles, saving, uploaded, seenPem, revokedThen, packet>>
  BY DEF RevokeCredential, RevokedWith
<1>2. CredentialsShape'
  BY <1>1 DEF CredentialsShape, PairsAreFresh
<1>3. PairsAreFresh'
  <2>1. \A k \in CredentialKinds :
          active'[k] # NoPair => <<k, active'[k]>> \in uploaded' \ revoked'
    BY <1>1 DEF CredentialsShape, PairsAreFresh
  <2>2. ASSUME NEW n \in Keepers, NEW x \in saving'[n]
        PROVE  x \in uploaded' \ revoked' /\ active'[x[1]] # x[2]
    <3>1. x \in saving[n] /\ x \in Credential
      BY <1>1 DEF CredentialsShape
    <3>2. x[1] \in CredentialKinds /\ x[2] # NoPair /\ x = <<x[1], x[2]>>
      BY <3>1, KeysOfCredentials
    <3> QED
      BY <1>1, <3>1, <3>2 DEF CredentialsShape, PairsAreFresh
  <2> QED
    BY <1>1, <2>1, <2>2 DEF PairsAreFresh
<1>4. EmptyHasACause'
  BY <1>1, KeysOfCredentials DEF CredentialsShape, EmptyHasACause
<1>5. SeenWasActive' /\ RevokedIsNotUsed'
  BY <1>1 DEF SeenWasActive, RevokedIsNotUsed
<1> QED
  BY <1>2, <1>3, <1>4, <1>5

LEMMA LoadPemStep ==
  ASSUME Vault, NEW kind \in CredentialKinds, LoadPem(kind)
  PROVE  Vault'
<1> USE DEF Vault
<1>1. /\ kind \notin DOMAIN seenPem
      /\ revokedThen' \subseteq revoked
      /\ seenPem # NothingRead => revokedThen' = revokedThen
      /\ seenPem' = [k \in DOMAIN seenPem \cup {kind} |->
                       IF k = kind THEN active[k] ELSE seenPem[k]]
      /\ UNCHANGED <<active, envFiles, saving, uploaded, revoked, emptied, packet>>
  BY DEF LoadPem, CredentialsShape
<1>2. <<kind, active[kind]>> \notin revoked
  <2>1. CASE active[kind] = NoPair
    BY <2>1, KeysOfCredentials DEF CredentialsShape
  <2>2. CASE active[kind] # NoPair
    BY <2>2 DEF PairsAreFresh
  <2> QED
    BY <2>1, <2>2
<1>3. CredentialsShape'
  BY <1>1 DEF CredentialsShape
<1>4. SeenWasActive'
  <2>1. CASE seenPem = NothingRead
    BY <1>1, <1>2, <2>1 DEF SeenWasActive, NothingRead
  <2>2. CASE seenPem # NothingRead
    BY <1>1, <1>2, <2>2 DEF SeenWasActive
  <2> QED
    BY <2>1, <2>2
<1>5. PairsAreFresh' /\ EmptyHasACause' /\ RevokedIsNotUsed'
  BY <1>1 DEF PairsAreFresh, EmptyHasACause, RevokedIsNotUsed
<1> QED
  BY <1>3, <1>4, <1>5

LEMMA SendsStep ==
  ASSUME Vault, PanelSends \/ WorkerSends
  PROVE  Vault'
<1> USE DEF Vault
<1>1. UNCHANGED <<active, envFiles, saving, uploaded, revoked, emptied>>
  BY DEF PanelSends, WorkerSends
<1>2. /\ DOMAIN seenPem' \subseteq CredentialKinds
      /\ seenPem' \in [DOMAIN seenPem' -> Pairs \cup {NoPair}]
      /\ revokedThen' \subseteq revoked /\ SeenWasActive'
  BY DEF PanelSends, WorkerSends, NothingRead, CredentialsShape, SeenWasActive
<1>3. /\ packet'.before \subseteq revoked
      /\ \A k \in CredentialKinds : <<k, packet'.pems[k]>> \notin packet'.before
  <2>1. CASE packet' = packet
    BY <2>1 DEF CredentialsShape, RevokedIsNotUsed
  <2>2. CASE PanelSends /\ packet' # packet
    <3>1. /\ DOMAIN seenPem = CredentialKinds
          /\ packet'.pems = Resolved(seenPem) /\ packet'.before = revokedThen
      BY <2>2 DEF PanelSends, Signed
    <3>2. ASSUME NEW k \in CredentialKinds
          PROVE  <<k, Resolved(seenPem)[k]>> \notin revokedThen
      <4>1. <<k, FromFile>> \notin revokedThen
        BY CredentialsAssumption DEF CredentialsShape, Credential
      <4>2. Resolved(seenPem)[k] \in {FromFile, seenPem[k]}
        BY DEF Resolved
      <4> QED
        BY <3>1, <4>1, <4>2 DEF SeenWasActive
    <3> QED
      BY <3>1, <3>2 DEF CredentialsShape
  <2>3. CASE WorkerSends /\ packet' # packet
    <3>1. /\ packet'.pems = [k \in CredentialKinds |-> FromFile]
          /\ packet'.before = revoked
      BY <2>3 DEF WorkerSends, Signed
    <3> QED
      BY <3>1, CredentialsAssumption DEF CredentialsShape, Credential
  <2> QED
    BY <2>1, <2>2, <2>3
<1> QED
  BY <1>1, <1>2, <1>3 DEF CredentialsShape, PairsAreFresh, EmptyHasACause,
     RevokedIsNotUsed

LEMMA VaultStep == Vault /\ [CredentialsNext]_credentialVars => Vault'
<1> SUFFICES ASSUME Vault, [CredentialsNext]_credentialVars PROVE Vault'
  OBVIOUS
<1>1. CASE UNCHANGED credentialVars
  BY <1>1 DEF Vault, CredentialsShape, PairsAreFresh, SeenWasActive, EmptyHasACause,
              RevokedIsNotUsed, credentialVars
<1>2. CASE CredentialsNext
  BY <1>2, SaveRevokesStep, SaveEndsStep, RevokeStep, LoadPemStep, SendsStep
  DEF CredentialsNext, PanelLoads
<1> QED
  BY <1>1, <1>2

LEMMA VaultHolds == Vault => CredentialsHold
<1> SUFFICES ASSUME Vault PROVE CredentialsHold
  OBVIOUS
<1> USE DEF Vault, CredentialsShape
<1>1. ASSUME NEW m \in Keepers PROVE Cardinality(saving[m]) \in 0..1
  <2>1. CASE saving[m] = {}
    BY <2>1, FS_EmptySet
  <2>2. CASE saving[m] # {}
    <3>1. PICK c \in saving[m] : saving[m] = {c}
      BY <2>2
    <3>2. Cardinality({c}) = 1
      BY FS_Singleton
    <3> QED
      BY <3>1, <3>2
  <2> QED
    BY <2>1, <2>2
<1> QED
  BY <1>1 DEF CredentialsHold, CredentialsTypeOK

\* Revocation is obeyed by every sending that begins after it.
THEOREM RevokedKeysDoNotSign == CredentialsSpec => []CredentialsHold
BY VaultInit, VaultStep, VaultHolds, PTL DEF CredentialsSpec

-----------------------------------------------------------------------------
(* The sign-in of the staff: failures are counted, a family lives or dies.   *)

LEMMA SmallerCount ==
  ASSUME NEW S, NEW T, IsFiniteSet(S), T \subseteq S
  PROVE  /\ IsFiniteSet(T) /\ Cardinality(T) \in Nat /\ Cardinality(S) \in Nat
         /\ Cardinality(T) <= Cardinality(S)
BY FS_Subset, FS_CardinalityType

LEMMA OneLess ==
  ASSUME NEW S, NEW x \in S, IsFiniteSet(S)
  PROVE  /\ IsFiniteSet(S \ {x}) /\ Cardinality(S \ {x}) \in Nat /\ Cardinality(S) \in Nat
         /\ Cardinality(S \ {x}) = Cardinality(S) - 1
BY FS_RemoveElement, FS_CardinalityType

\* Requests whose login counted the failures and has not answered yet.
LoggingIn == {r \in Requests : Does(r, "password")}

StaffShape ==
  /\ StaffTypeOK
  /\ request \in [Requests -> [at : {"rest", "password", "read", "rotate", "answer"},
                               token : Nat]]

SignIn == StaffShape /\ LockoutBound /\ OnlyReplacedTokensAreRevoked /\ FamilyLives

LEMMA LoginsAreCounted ==
  ASSUME SignIn
  PROVE  /\ IsFiniteSet(LoggingIn) /\ Cardinality(LoggingIn) \in Nat
         /\ Cardinality(Requests) \in Nat /\
              Cardinality(LoggingIn) <= Cardinality(Requests)
         /\ failed \in Nat /\ MaxFailed \in Nat
         /\ failed + Cardinality(LoggingIn) <= MaxFailed + Cardinality(Requests) - 1
BY SmallerCount, StaffAssumption
DEF LoggingIn, SignIn, StaffShape, StaffTypeOK, LockoutBound

\* A step that begins no login keeps the bound when it counts no failure.
LEMMA BoundKept ==
  ASSUME SignIn, LoggingIn' \subseteq LoggingIn, failed' \in Nat, failed' <= failed
  PROVE  LockoutBound'
<1>1. Cardinality(LoggingIn') \in Nat /\ Cardinality(LoggingIn') <= Cardinality(LoggingIn)
  BY LoginsAreCounted, SmallerCount
<1> QED
  BY <1>1, LoginsAreCounted DEF LockoutBound, LoggingIn

TokenSet == [family : Nat \ {0}, is : TokenStates]

\* A change of the tokens that keeps their number and families, or adds to them.
LEMMA Restated ==
  ASSUME NEW i \in DOMAIN tokens, tokens \in Seq(TokenSet), NEW s \in TokenStates
  PROVE  /\ [tokens EXCEPT ![i].is = s] \in Seq(TokenSet)
         /\ Len([tokens EXCEPT ![i].is = s]) = Len(tokens)
         /\ DOMAIN [tokens EXCEPT ![i].is = s] = DOMAIN tokens
         /\ \A k \in DOMAIN tokens : [tokens EXCEPT ![i].is = s][k].family =
              tokens[k].family
<1> DEFINE t == [tokens EXCEPT ![i].is = s]
<1>1. DOMAIN t = 1..Len(tokens) /\ Len(tokens) \in Nat
  OBVIOUS
<1>2. ASSUME NEW k \in 1..Len(tokens)
      PROVE  t[k] \in TokenSet /\ t[k].family = tokens[k].family
  <2>1. tokens[k] \in TokenSet
    OBVIOUS
  <2>2. [tokens[k] EXCEPT !.is = s] \in TokenSet
        /\ [tokens[k] EXCEPT !.is = s].family = tokens[k].family
    BY <2>1 DEF TokenSet
  <2>3. t[k] = IF k = i THEN [tokens[k] EXCEPT !.is = s] ELSE tokens[k]
    BY <1>1
  <2> QED
    BY <2>1, <2>2, <2>3
<1> QED
  BY <1>1, <1>2

LEMMA Grown ==
  ASSUME NEW q \in Seq(TokenSet), NEW f \in Nat \ {0}
  PROVE  /\ Append(q, Token(f)) \in Seq(TokenSet)
         /\ Len(Append(q, Token(f))) = Len(q) + 1
         /\ DOMAIN Append(q, Token(f)) = 1..Len(q) + 1
         /\ \A k \in 1..Len(q) : Append(q, Token(f))[k] = q[k]
         /\ Append(q, Token(f))[Len(q) + 1] = Token(f)
<1>1. Token(f) \in TokenSet
  BY DEF Token, TokenSet, TokenStates
<1> QED
  BY <1>1

LEMMA FamiliesStay ==
  ASSUME DOMAIN tokens \subseteq DOMAIN tokens',
         \A k \in DOMAIN tokens : tokens'[k].family = tokens[k].family
  PROVE  Families \subseteq Families'
BY DEF Families

LEMMA ShapeFacts ==
  ASSUME SignIn
  PROVE  /\ tokens \in Seq(TokenSet) /\ Len(tokens) <= MaxTokens /\ Len(tokens) \in Nat
         /\ DOMAIN tokens = 1..Len(tokens)
         /\ kept \in {None} \cup DOMAIN tokens /\ failed \in Nat /\
              ended \subseteq Families
         /\ \A r \in Requests : Does(r, "read") \/ Does(r, "rotate") =>
               request[r].token \in DOMAIN tokens
         /\ \A k \in DOMAIN tokens : tokens[k].family \in Nat \ {0}
<1>1. tokens \in Seq(TokenSet) /\ Len(tokens) <= MaxTokens
  BY DEF SignIn, StaffShape, StaffTypeOK, TokenSet
<1>2. Len(tokens) \in Nat /\ DOMAIN tokens = 1..Len(tokens)
  BY <1>1
<1>3. ASSUME NEW k \in DOMAIN tokens PROVE tokens[k].family \in Nat \ {0}
  <2>1. tokens[k] \in TokenSet
    BY <1>1
  <2> QED
    BY <2>1 DEF TokenSet
<1> QED
  BY <1>1, <1>2, <1>3 DEF SignIn, StaffShape, StaffTypeOK, Does

\* The requests of the next state, when one of them turns to something else.
LEMMA RequestsTurn ==
  ASSUME SignIn, NEW r \in Requests,
         NEW a \in {"rest", "password", "read", "rotate", "answer"}, NEW t \in Nat,
         Turns(r, a, t), DOMAIN tokens \subseteq DOMAIN tokens',
         t \in IF a \in {"rest", "password"} THEN {None} ELSE DOMAIN tokens'
  PROVE  /\ request' \in [Requests -> [at : {"rest", "password", "read", "rotate",
              "answer"},
                               token : Nat]]
         /\ \A q \in Requests :
              /\ request'[q].at \in {"rest", "password", "read", "rotate", "answer"}
              /\ request'[q].token \in
                   IF request'[q].at \in {"rest",
                     "password"} THEN {None} ELSE DOMAIN tokens'
BY DEF SignIn, StaffShape, StaffTypeOK, Turns

LEMMA FailureExpiresStep ==
  ASSUME SignIn, FailureExpires
  PROVE  SignIn'
<1>1. StaffShape'
  BY DEF SignIn, FailureExpires, StaffShape, StaffTypeOK, TokenStates, None, Families
<1>2. LockoutBound'
  <2>1. LoggingIn' \subseteq LoggingIn /\ failed' \in Nat /\ failed' <= failed
    BY DEF SignIn, StaffShape, StaffTypeOK, LoggingIn, FailureExpires, Does
  <2> QED
    BY <2>1, BoundKept
<1>3. OnlyReplacedTokensAreRevoked'
  BY DEF SignIn, FailureExpires, OnlyReplacedTokensAreRevoked
<1>4. FamilyLives'
  BY DEF SignIn, FailureExpires, FamilyLives, Families
<1> QED
  BY <1>1, <1>2, <1>3, <1>4 DEF SignIn

LEMMA LogoutStaffStep ==
  ASSUME SignIn, LogoutStaff
  PROVE  SignIn'
<1>1. StaffShape'
  <2>1. kept \in DOMAIN tokens /\ tokens[kept].family \in Families
    BY ShapeFacts DEF LogoutStaff, Families
  <2>2. /\ tokens' \in Seq(TokenSet) /\ Len(tokens') = Len(tokens) /\
             DOMAIN tokens' = DOMAIN tokens
        /\ \A k \in DOMAIN tokens : tokens'[k].family = tokens[k].family
    BY <2>1, ShapeFacts, Restated DEF LogoutStaff, TokenStates
  <2>3. ended' \subseteq Families'
    BY <2>1, <2>2, FamiliesStay, ShapeFacts DEF LogoutStaff
  <2> QED
    BY <2>2, <2>3, ShapeFacts DEF LogoutStaff, None, SignIn, StaffShape, StaffTypeOK,
       TokenSet
<1>2. LockoutBound'
  <2>1. LoggingIn' \subseteq LoggingIn /\ failed' \in Nat /\ failed' <= failed
    BY DEF SignIn, StaffShape, StaffTypeOK, LoggingIn, LogoutStaff, Does
  <2> QED
    BY <2>1, BoundKept
<1>3. OnlyReplacedTokensAreRevoked'
  BY DEF SignIn, LogoutStaff, OnlyReplacedTokensAreRevoked, None
<1>4. FamilyLives'
  BY DEF SignIn, LogoutStaff, FamilyLives, None, Families
<1> QED
  BY <1>1, <1>2, <1>3, <1>4 DEF SignIn

LEMMA GraceEndsStep ==
  ASSUME SignIn, NEW i \in DOMAIN tokens, GraceEnds(i)
  PROVE  SignIn'
<1>1. StaffShape'
  <2>1. /\ tokens' \in Seq(TokenSet) /\ Len(tokens') = Len(tokens) /\
             DOMAIN tokens' = DOMAIN tokens
        /\ \A k \in DOMAIN tokens : tokens'[k].family = tokens[k].family
    BY ShapeFacts, Restated DEF GraceEnds, TokenStates
  <2>2. ended' \subseteq Families'
    BY <2>1, FamiliesStay, ShapeFacts DEF GraceEnds
  <2> QED
    BY <2>1, <2>2, ShapeFacts DEF GraceEnds, SignIn, StaffShape, StaffTypeOK, TokenSet
<1>2. LockoutBound'
  <2>1. LoggingIn' \subseteq LoggingIn /\ failed' \in Nat /\ failed' <= failed
    BY DEF SignIn, StaffShape, StaffTypeOK, LoggingIn, GraceEnds, Does
  <2> QED
    BY <2>1, BoundKept
<1>3. OnlyReplacedTokensAreRevoked'
  BY DEF SignIn, GraceEnds, OnlyReplacedTokensAreRevoked
<1>4. FamilyLives'
  BY DEF SignIn, GraceEnds, FamilyLives, Families
<1> QED
  BY <1>1, <1>2, <1>3, <1>4 DEF SignIn

LEMMA LoginChecksStep ==
  ASSUME SignIn, NEW r \in Requests, LoginChecks(r)
  PROVE  SignIn'
<1>1. StaffShape'
  BY DEF SignIn, LoginChecks, StaffShape, Does, Turns, None, StaffTypeOK, TokenStates,
    Families
<1>2. LockoutBound'
  <2>1. IsFiniteSet(Requests) /\ LoggingIn' \subseteq Requests
    BY StaffAssumption DEF LoggingIn
  <2>2. Cardinality(LoggingIn') \in Nat /\
          Cardinality(LoggingIn') <= Cardinality(Requests)
    BY <2>1, SmallerCount
  <2>3. failed' = failed /\ failed < MaxFailed
    BY DEF LoginChecks
  <2> QED
    BY <2>2, <2>3, LoginsAreCounted DEF LockoutBound, LoggingIn
<1>3. OnlyReplacedTokensAreRevoked'
  BY DEF SignIn, LoginChecks, OnlyReplacedTokensAreRevoked, Does, Turns, None
<1>4. FamilyLives'
  BY DEF SignIn, LoginChecks, FamilyLives, Does, Turns, None, Families
<1> QED
  BY <1>1, <1>2, <1>3, <1>4 DEF SignIn

LEMMA LoginFailsStep ==
  ASSUME SignIn, NEW r \in Requests, LoginFails(r)
  PROVE  SignIn'
<1>1. StaffShape'
  BY DEF SignIn, LoginFails, StaffShape, Does, Turns, None, StaffTypeOK, TokenStates,
    Families
<1>2. LockoutBound'
  <2>1. r \in LoggingIn /\ LoggingIn' = LoggingIn \ {r} /\ failed' = failed + 1
    BY DEF SignIn, StaffShape, LoggingIn, LoginFails, Does, Turns
  <2>2. Cardinality(LoggingIn') = Cardinality(LoggingIn) - 1
    BY <2>1, LoginsAreCounted, OneLess
  <2> QED
    BY <2>1, <2>2, LoginsAreCounted DEF LockoutBound, LoggingIn
<1>3. OnlyReplacedTokensAreRevoked'
  BY DEF SignIn, LoginFails, OnlyReplacedTokensAreRevoked, Does, Turns, None
<1>4. FamilyLives'
  BY DEF SignIn, LoginFails, FamilyLives, Does, Turns, None, Families
<1> QED
  BY <1>1, <1>2, <1>3, <1>4 DEF SignIn

LEMMA LoginOpensStep ==
  ASSUME SignIn, NEW r \in Requests, LoginOpens(r)
  PROVE  SignIn'
<1>1. StaffShape'
  <2>1. /\ tokens' \in Seq(TokenSet) /\ Len(tokens') = Len(tokens) + 1
        /\ DOMAIN tokens' = 1..Len(tokens) + 1
        /\ \A k \in DOMAIN tokens : tokens'[k].family = tokens[k].family
    BY ShapeFacts, Grown DEF LoginOpens
  <2>2. DOMAIN tokens \subseteq DOMAIN tokens' /\ Len(tokens) + 1 \in DOMAIN tokens'
    BY <2>1, ShapeFacts
  <2>3. ended' \subseteq Families'
    BY <2>1, <2>2, FamiliesStay, ShapeFacts DEF LoginOpens
  <2>4. /\ request' \in [Requests -> [at : {"rest", "password", "read", "rotate",
             "answer"},
                               token : Nat]]
        /\ \A q \in Requests :
              /\ request'[q].at \in {"rest", "password", "read", "rotate", "answer"}
              /\ request'[q].token \in
                   IF request'[q].at \in {"rest",
                     "password"} THEN {None} ELSE DOMAIN tokens'
    BY <2>2, RequestsTurn, ShapeFacts DEF LoginOpens
  <2>5. Len(tokens') <= MaxTokens
    BY <2>1, ShapeFacts, StaffAssumption DEF LoginOpens
  <2> QED
    BY <2>1, <2>2, <2>3, <2>4, <2>5, ShapeFacts DEF LoginOpens, StaffShape, StaffTypeOK,
       TokenSet
<1>2. LockoutBound'
  <2>1. LoggingIn' \subseteq LoggingIn /\ failed' \in Nat /\ failed' <= failed
    BY DEF SignIn, StaffShape, StaffTypeOK, LoggingIn, LoginOpens, Does, Turns
  <2> QED
    BY <2>1, BoundKept
<1>3. OnlyReplacedTokensAreRevoked'
  BY DEF SignIn, LoginOpens, OnlyReplacedTokensAreRevoked, Does, Token, Turns
<1>4. FamilyLives'
  BY DEF SignIn, LoginOpens, FamilyLives, Does, Token, Turns, Families
<1> QED
  BY <1>1, <1>2, <1>3, <1>4 DEF SignIn

LEMMA RefreshSendsStep ==
  ASSUME SignIn, NEW r \in Requests, RefreshSends(r)
  PROVE  SignIn'
<1>1. StaffShape'
  BY DEF SignIn, RefreshSends, StaffShape, Does, None, Turns, StaffTypeOK, TokenStates,
    Families
<1>2. LockoutBound'
  <2>1. LoggingIn' \subseteq LoggingIn /\ failed' \in Nat /\ failed' <= failed
    BY DEF SignIn, StaffShape, StaffTypeOK, LoggingIn, RefreshSends, Does, Turns
  <2> QED
    BY <2>1, BoundKept
<1>3. OnlyReplacedTokensAreRevoked'
  BY DEF SignIn, RefreshSends, OnlyReplacedTokensAreRevoked, Does, None, Turns
<1>4. FamilyLives'
  BY DEF SignIn, RefreshSends, FamilyLives, Does, None, Turns, Families
<1> QED
  BY <1>1, <1>2, <1>3, <1>4 DEF SignIn

LEMMA RefreshReadsStep ==
  ASSUME SignIn, NEW r \in Requests, RefreshReads(r)
  PROVE  SignIn'
<1>1. StaffShape'
  BY DEF SignIn, RefreshReads, StaffShape, Does, Turns, StaffTypeOK, TokenStates, None,
    Families
<1>2. LockoutBound'
  <2>1. LoggingIn' \subseteq LoggingIn /\ failed' \in Nat /\ failed' <= failed
    BY DEF SignIn, StaffShape, StaffTypeOK, LoggingIn, RefreshReads, Does, Turns
  <2> QED
    BY <2>1, BoundKept
<1>3. OnlyReplacedTokensAreRevoked'
  BY DEF SignIn, RefreshReads, OnlyReplacedTokensAreRevoked, Does, Turns
<1>4. FamilyLives'
  BY DEF SignIn, RefreshReads, FamilyLives, Does, Turns, Families
<1> QED
  BY <1>1, <1>2, <1>3, <1>4 DEF SignIn

LEMMA RefreshEndsFamilyStep ==
  ASSUME SignIn, NEW r \in Requests, RefreshEndsFamily(r)
  PROVE  SignIn'
<1>1. StaffShape'
  <2> DEFINE f == tokens[request[r].token].family
  <2>1. f \in Families
    BY ShapeFacts DEF RefreshEndsFamily, Families
  <2>2. tokens' = Revoked(f) /\ ended' = ended \cup {f}
    BY DEF RefreshEndsFamily
  <2>3. \A k \in 1..Len(tokens) :
          /\ tokens'[k] \in TokenSet /\ tokens'[k].family = tokens[k].family
    <3> TAKE k \in 1..Len(tokens)
    <3>1. tokens[k] \in TokenSet
      BY ShapeFacts
    <3>2. [tokens[k] EXCEPT !.is = "revoked"] \in TokenSet
          /\ [tokens[k] EXCEPT !.is = "revoked"].family = tokens[k].family
      BY <3>1 DEF TokenSet, TokenStates
    <3>3. tokens'[k] = tokens[k] \/ tokens'[k] = [tokens[k] EXCEPT !.is = "revoked"]
      BY <2>2, ShapeFacts DEF Revoked
    <3> QED
      BY <3>1, <3>2, <3>3
  <2>4. DOMAIN tokens' = 1..Len(tokens)
    BY <2>2, ShapeFacts DEF Revoked
  <2>5. tokens' = [k \in 1..Len(tokens) |-> tokens'[k]]
    BY <2>2, ShapeFacts DEF Revoked
  <2>6. tokens' \in Seq(TokenSet) /\ Len(tokens') = Len(tokens)
    BY <2>3, <2>4, <2>5, ShapeFacts
  <2>7. ended' \subseteq Families'
    BY <2>1, <2>2, <2>3, <2>4, FamiliesStay, ShapeFacts
  <2>8. /\ request' \in [Requests -> [at : {"rest", "password", "read", "rotate",
             "answer"},
                               token : Nat]]
        /\ \A q \in Requests :
              /\ request'[q].at \in {"rest", "password", "read", "rotate", "answer"}
              /\ request'[q].token \in
                   IF request'[q].at \in {"rest",
                     "password"} THEN {None} ELSE DOMAIN tokens'
    BY <2>4, RequestsTurn, ShapeFacts DEF RefreshEndsFamily, None
  <2> QED
    BY <2>4, <2>6, <2>7, <2>8, ShapeFacts DEF RefreshEndsFamily, StaffShape,
       StaffTypeOK, TokenSet
<1>2. LockoutBound'
  <2>1. LoggingIn' \subseteq LoggingIn /\ failed' \in Nat /\ failed' <= failed
    BY DEF SignIn, StaffShape, StaffTypeOK, LoggingIn, RefreshEndsFamily, Does, Turns
  <2> QED
    BY <2>1, BoundKept
<1>3. OnlyReplacedTokensAreRevoked'
  BY DEF SignIn, RefreshEndsFamily, OnlyReplacedTokensAreRevoked, Does, Revoked, Turns,
    None
<1>4. FamilyLives'
  BY DEF SignIn, RefreshEndsFamily, FamilyLives, Does, Revoked, Turns, None, Families
<1> QED
  BY <1>1, <1>2, <1>3, <1>4 DEF SignIn

LEMMA RotateStep ==
  ASSUME SignIn, NEW r \in Requests, Rotate(r)
  PROVE  SignIn'
<1>1. StaffShape'
  <2> DEFINE i == request[r].token
             u == [tokens EXCEPT ![i].is = "replaced"]
  <2>1. i \in DOMAIN tokens /\ tokens[i].family \in Nat \ {0}
    BY ShapeFacts DEF Rotate
  <2>2. /\ u \in Seq(TokenSet) /\ Len(u) = Len(tokens) /\ DOMAIN u = DOMAIN tokens
        /\ \A k \in DOMAIN tokens : u[k].family = tokens[k].family
    BY <2>1, ShapeFacts, Restated DEF TokenStates
  <2>3. tokens' = Append(u, Token(tokens[i].family))
    BY DEF Rotate, Rotation
  <2>4. /\ tokens' \in Seq(TokenSet) /\ Len(tokens') = Len(tokens) + 1
        /\ DOMAIN tokens' = 1..Len(tokens) + 1
        /\ \A k \in DOMAIN tokens : tokens'[k].family = tokens[k].family
    <3> HIDE DEF u, i
    <3> QED
      BY <2>1, <2>2, <2>3, ShapeFacts, Grown
  <2>5. DOMAIN tokens \subseteq DOMAIN tokens' /\ Len(tokens) + 1 \in DOMAIN tokens'
    BY <2>4, ShapeFacts
  <2>6. ended' \subseteq Families'
    BY <2>4, <2>5, FamiliesStay, ShapeFacts DEF Rotate
  <2>7. /\ request' \in [Requests -> [at : {"rest", "password", "read", "rotate",
             "answer"},
                               token : Nat]]
        /\ \A q \in Requests :
              /\ request'[q].at \in {"rest", "password", "read", "rotate", "answer"}
              /\ request'[q].token \in
                   IF request'[q].at \in {"rest",
                     "password"} THEN {None} ELSE DOMAIN tokens'
    BY <2>5, RequestsTurn, ShapeFacts DEF Rotate
  <2>8. Len(tokens') <= MaxTokens
    BY <2>4, ShapeFacts, StaffAssumption DEF Rotate
  <2> QED
    BY <2>4, <2>5, <2>6, <2>7, <2>8, ShapeFacts DEF Rotate, StaffShape, StaffTypeOK,
       TokenSet
<1>2. LockoutBound'
  <2>1. LoggingIn' \subseteq LoggingIn /\ failed' \in Nat /\ failed' <= failed
    BY DEF SignIn, StaffShape, StaffTypeOK, LoggingIn, Rotate, Does, Turns
  <2> QED
    BY <2>1, BoundKept
<1>3. OnlyReplacedTokensAreRevoked'
  BY DEF SignIn, Rotate, OnlyReplacedTokensAreRevoked, Does, Rotation, Turns, Token
<1>4. FamilyLives'
  BY DEF SignIn, Rotate, FamilyLives, Does, Rotation, Turns, Families, Token
<1> QED
  BY <1>1, <1>2, <1>3, <1>4 DEF SignIn

LEMMA AnsweredStep ==
  ASSUME SignIn, NEW r \in Requests, Answered(r)
  PROVE  SignIn'
<1>1. StaffShape'
  BY DEF SignIn, Answered, StaffShape, Does, Turns, None, StaffTypeOK, TokenStates,
    Families
<1>2. LockoutBound'
  <2>1. LoggingIn' \subseteq LoggingIn /\ failed' \in Nat /\ failed' <= failed
    BY DEF SignIn, StaffShape, StaffTypeOK, LoggingIn, Answered, Does, Turns
  <2> QED
    BY <2>1, BoundKept
<1>3. OnlyReplacedTokensAreRevoked'
  BY DEF SignIn, Answered, OnlyReplacedTokensAreRevoked, Does, Turns, None
<1>4. FamilyLives'
  BY DEF SignIn, Answered, FamilyLives, Does, Turns, None, Families
<1> QED
  BY <1>1, <1>2, <1>3, <1>4 DEF SignIn

LEMMA RequestEndsStep ==
  ASSUME SignIn, NEW r \in Requests, RequestEnds(r)
  PROVE  SignIn'
<1>1. StaffShape'
  BY DEF SignIn, RequestEnds, StaffShape, Does, Turns, None, StaffTypeOK, TokenStates,
    Families
<1>2. LockoutBound'
  <2>1. LoggingIn' \subseteq LoggingIn /\ failed' \in Nat /\ failed' <= failed
    BY DEF SignIn, StaffShape, StaffTypeOK, LoggingIn, RequestEnds, Does, Turns
  <2> QED
    BY <2>1, BoundKept
<1>3. OnlyReplacedTokensAreRevoked'
  BY DEF SignIn, RequestEnds, OnlyReplacedTokensAreRevoked, Does, Turns, None
<1>4. FamilyLives'
  BY DEF SignIn, RequestEnds, FamilyLives, Does, Turns, None, Families
<1> QED
  BY <1>1, <1>2, <1>3, <1>4 DEF SignIn

LEMMA SignInInit == StaffInit => SignIn
<1> SUFFICES ASSUME StaffInit PROVE SignIn
  OBVIOUS
<1>1. StaffShape /\ OnlyReplacedTokensAreRevoked /\ FamilyLives
  BY StaffAssumption
  DEF StaffInit, StaffShape, StaffTypeOK, TokenStates, Token, Resting, None, Families,
      OnlyReplacedTokensAreRevoked, FamilyLives
<1>2. LockoutBound
  <2>1. LoggingIn = {}
    BY DEF StaffInit, LoggingIn, Does, Resting
  <2>2. Cardinality(LoggingIn) = 0 /\ Cardinality(Requests) \in Nat
    BY <2>1, FS_EmptySet, FS_CardinalityType, StaffAssumption
  <2> QED
    BY <2>2, StaffAssumption DEF StaffInit, LockoutBound, LoggingIn
<1> QED
  BY <1>1, <1>2 DEF SignIn

LEMMA SignInStep == SignIn /\ [StaffNext]_staffVars => SignIn'
<1> SUFFICES ASSUME SignIn, [StaffNext]_staffVars PROVE SignIn'
  OBVIOUS
<1>1. CASE UNCHANGED staffVars
  BY <1>1 DEF SignIn, StaffShape, StaffTypeOK, TokenStates, Families, LockoutBound, Does,
              OnlyReplacedTokensAreRevoked, FamilyLives, staffVars
<1>2. CASE StaffNext
  BY <1>2, FailureExpiresStep, LogoutStaffStep, GraceEndsStep, LoginChecksStep,
     LoginFailsStep, LoginOpensStep, RefreshSendsStep, RefreshReadsStep,
     RefreshEndsFamilyStep, RotateStep, AnsweredStep, RequestEndsStep
  DEF StaffNext
<1> QED
  BY <1>1, <1>2

\* The lock of an account holds to within one failure for each login under way, and a
\* session goes on until somebody ends it, for any number of requests at once.
THEOREM SignInIsSafe == StaffSpec => []SignInHolds
<1>1. SignIn => SignInHolds
  BY DEF SignIn, SignInHolds, StaffShape, SessionGoesOn
<1> QED
  BY <1>1, SignInInit, SignInStep, PTL DEF StaffSpec

-----------------------------------------------------------------------------
(* The rate limiter: what a window lets through.                             *)

\* Induction, from what the library says of finite sets.
LEMMA SetInduction ==
  ASSUME NEW T \in SUBSET Nat, 0 \in T, \A n \in T : n + 1 \in T
  PROVE  T = Nat
<1> SUFFICES ASSUME NEW x \in Nat, x \notin T PROVE FALSE
  OBVIOUS
<1> DEFINE A == (0 .. x) \cap T
           f == [i \in A |-> i + 1]
<1>1. IsFiniteSet(0 .. x)
  BY FS_Interval
<1>2. IsFiniteSet(A)
  BY <1>1, FS_Subset
<1>3. \A i \in A : i + 1 \in A
  OBVIOUS
<1>4. f \in Injection(A, A)
  BY <1>3 DEF Injection, IsInjective
<1>5. f \in Surjection(A, A)
  BY <1>2, <1>4, FS_Injection
<1>6. 0 \in A
  OBVIOUS
<1>7. PICK i \in A : f[i] = 0
  BY <1>5, <1>6 DEF Surjection
<1> QED
  BY <1>7

-----------------------------------------------------------------------------
(* The store in memory.                                                       *)

\* What is left of the buckets is a sequence of buckets that is no longer.
LEMMA UnexpiredIsShorter ==
  ASSUME NEW B, NEW b \in Seq(B), NEW w
  PROVE  Unexpired(b, w) \in Seq(B) /\ Len(Unexpired(b, w)) <= Len(b)
<1> DEFINE Entry(g, i) == IF i = 0 THEN <<>>
                          ELSE IF b[i].window >= w THEN Append(g[i - 1],
                            b[i]) ELSE g[i - 1]
           live == CHOOSE g : g = [i \in 0 .. Len(b) |-> Entry(g, i)]
<1>1. Unexpired(b, w) = live[Len(b)]
  BY DEF Unexpired
<1>2. Len(b) \in Nat /\ \A i \in 1 .. Len(b) : b[i] \in B
  OBVIOUS
<1>3. \E g : g = [i \in 0 .. Len(b) |-> Entry(g, i)]
  <2> DEFINE T == {m \in Nat : \E g : g = [i \in 0 .. m |-> Entry(g, i)]}
  <2>1. 0 \in T
    <3> DEFINE g == [i \in 0 .. 0 |-> <<>>]
    <3>1. g = [i \in 0 .. 0 |-> Entry(g, i)]
      OBVIOUS
    <3> HIDE DEF g
    <3> QED
      BY <3>1
  <2>2. ASSUME NEW m \in T PROVE m + 1 \in T
    <3>1. m \in Nat /\ \E g : g = [i \in 0 .. m |-> Entry(g, i)]
      OBVIOUS
    <3>2. PICK g : g = [i \in 0 .. m |-> Entry(g, i)]
      BY <3>1
    <3> DEFINE h == [i \in 0 .. m + 1 |-> IF i = m + 1 THEN Entry(g, m + 1) ELSE g[i]]
    <3>3. ASSUME NEW i \in 0 .. m + 1 PROVE h[i] = Entry(h, i)
      <4>1. CASE i = m + 1
        <5>1. i # 0 /\ i - 1 = m /\ m \in 0 .. m + 1 /\ m # m + 1
          BY <3>1, <4>1
        <5>2. h[m] = g[m]
          BY <5>1
        <5>3. h[i] = Entry(g, m + 1)
          BY <4>1, <3>1
        <5> QED
          BY <4>1, <5>1, <5>2, <5>3
      <4>2. CASE i = 0
        BY <3>1, <3>2, <4>2
      <4>3. CASE i # 0 /\ i # m + 1
        <5>1. i \in 0 .. m /\ i - 1 \in 0 .. m
          BY <3>1, <4>3
        <5>2. h[i] = g[i] /\ h[i - 1] = g[i - 1]
          BY <3>1, <5>1
        <5>3. g[i] = Entry(g, i)
          <6> HIDE DEF Entry
          <6> QED
            BY <3>2, <5>1
        <5> QED
          BY <5>2, <5>3
      <4> QED
        BY <4>1, <4>2, <4>3
    <3>4. h = [i \in 0 .. m + 1 |-> Entry(h, i)]
      <4> HIDE DEF Entry
      <4> QED
        BY <3>3
    <3> HIDE DEF h, Entry
    <3>5. m + 1 \in Nat /\ \E k : k = [i \in 0 .. m + 1 |-> Entry(k, i)]
      BY <3>1, <3>4
    <3> QED
      BY <3>5
  <2>3. T = Nat
    <3> HIDE DEF T
    <3>1. T \in SUBSET Nat
      BY DEF T
    <3> QED
      BY <2>1, <2>2, <3>1, SetInduction
  <2>4. Len(b) \in T
    BY <1>2, <2>3
  <2> QED
    BY <2>4
<1>4. live = [i \in 0 .. Len(b) |-> Entry(live, i)]
  <2> HIDE DEF Entry
  <2> QED
    BY <1>3
<1> HIDE DEF live
<1> DEFINE T == {m \in Nat : m <= Len(b) => live[m] \in Seq(B) /\ Len(live[m]) <= m}
<1>5. 0 \in T
  <2>1. live[0] = Entry(live, 0)
    <3> HIDE DEF Entry
    <3> QED
      BY <1>2, <1>4
  <2>2. live[0] = <<>>
    BY <2>1
  <2>3. live[0] \in Seq(B) /\ Len(live[0]) <= 0
    <3> HIDE DEF Entry
    <3> QED
      BY <2>2
  <2> QED
    BY <2>3
<1>6. ASSUME NEW m \in T PROVE m + 1 \in T
  <2> SUFFICES ASSUME m + 1 <= Len(b)
               PROVE live[m + 1] \in Seq(B) /\ Len(live[m + 1]) <= m + 1
    OBVIOUS
  <2>1. live[m] \in Seq(B) /\ Len(live[m]) <= m /\ Len(live[m]) \in Nat /\ m \in Nat
    BY <1>2
  <2>2. m + 1 \in 0 .. Len(b) /\ m + 1 # 0 /\ m + 1 - 1 = m /\ m + 1 \in 1 .. Len(b)
    BY <1>2, <2>1
  <2>3. live[m + 1] = IF b[m + 1].window >= w THEN Append(live[m], b[m + 1]) ELSE live[m]
    <3>1. live[m + 1] = Entry(live, m + 1)
      <4> HIDE DEF Entry
      <4> QED
        BY <1>4, <2>2
    <3> QED
      BY <2>2, <3>1
  <2>4. b[m + 1] \in B
    BY <1>2, <2>2
  <2> QED
    BY <2>1, <2>3, <2>4
<1>7. T = Nat
  <2> HIDE DEF T
  <2>1. T \in SUBSET Nat
    BY DEF T
  <2> QED
    BY <1>5, <1>6, <2>1, SetInduction
<1>8. Len(b) \in T
  BY <1>2, <1>7
<1> QED
  BY <1>1, <1>8

BucketRows == [caller : Callers, window : Windows]

LEMMA SweptHasRoom ==
  ASSUME NEW b \in Seq(BucketRows), NEW w
  PROVE  Swept(b, w) \in Seq(BucketRows) /\ Len(Swept(b, w)) < MaxBuckets
<1> DEFINE live == Unexpired(b, w)
<1>1. live \in Seq(BucketRows) /\ Len(live) \in Nat
  BY UnexpiredIsShorter
<1>2. ThreeQuarters \in Nat /\ ThreeQuarters < MaxBuckets
  BY RateLimitAssumption DEF ThreeQuarters
<1> HIDE DEF live
<1>3. CASE Len(live) < MaxBuckets
  BY <1>1, <1>3 DEF Swept, live
<1>4. CASE ~(Len(live) < MaxBuckets)
  <2> DEFINE m == Len(live) - ThreeQuarters + 1
             cut == SubSeq(live, m, Len(live))
  <2>1. m \in 1 .. Len(live) + 1
    BY <1>1, <1>2, <1>4, RateLimitAssumption
  <2>2. cut \in Seq(BucketRows) /\ Len(cut) = ThreeQuarters
    <3>1. Len(live) - m + 1 = ThreeQuarters /\ m \in Int
      BY <1>1, <1>2
    <3>2. cut = [i \in 1 .. ThreeQuarters |-> live[m + i - 1]]
      BY <1>1, <1>2, <2>1, <3>1
    <3>3. \A i \in 1 .. ThreeQuarters : live[m + i - 1] \in BucketRows
      BY <1>1, <1>2, <2>1, <3>1
    <3> HIDE DEF cut
    <3>4. cut \in [1 .. ThreeQuarters -> BucketRows]
      BY <3>2, <3>3
    <3> QED
      BY <1>2, <3>4
  <2> QED
    BY <1>2, <1>4, <2>2 DEF Swept, live
<1> QED
  BY <1>3, <1>4

LEMMA StoredFits ==
  ASSUME NEW b \in Seq(BucketRows), NEW x \in BucketRows
  PROVE  /\ Stored(b, x) \in Seq(BucketRows)
         /\ Len(Stored(b, x)) = Len(b) \/ Len(Stored(b, x)) = Len(b) + 1
<1>1. CASE \E i \in DOMAIN b : b[i].caller = x.caller
  <2>1. Stored(b, x) = [i \in 1 .. Len(b) |-> IF b[i].caller = x.caller THEN x ELSE b[i]]
    BY <1>1 DEF Stored
  <2>2. \A i \in 1 .. Len(b) : b[i] \in BucketRows
    OBVIOUS
  <2>3. Stored(b, x) \in [1 .. Len(b) -> BucketRows]
    BY <2>1, <2>2
  <2>4. Len(b) \in Nat
    OBVIOUS
  <2> HIDE DEF Stored
  <2> QED
    BY <2>3, <2>4
<1>2. CASE ~\E i \in DOMAIN b : b[i].caller = x.caller
  BY <1>2 DEF Stored
<1> QED
  BY <1>1, <1>2

-----------------------------------------------------------------------------
(* The counter in the database.                                               *)

\* What the late requests and the releases let through beyond the rule.
Forgiven == MaxRequests * (late + released)

\* What a window has let through: the one that the row counts no more than is counted,
\* a later one only what was forgiven, an earlier one its limit and what was forgiven.
WindowsAreLimited ==
  \A w \in Windows :
    /\ w = row.window => \/ admitted[w] <= row.count + Forgiven + unanswered
                         \/ row.count > MaxRequests
    /\ w > row.window => admitted[w] <= Forgiven + unanswered
    /\ admitted[w] <= MaxRequests + Forgiven + unanswered

CounterTyped ==
  /\ window \in Windows /\ hit \in [Hits -> Windows \cup {Idle}]
  /\ row \in [window : Windows, count : Nat] /\ admitted \in [Windows -> Nat]
  /\ late \in Nat /\ released \in Nat /\ unanswered \in Nat

BucketsTyped == buckets \in Seq(BucketRows) /\ Len(buckets) <= MaxBuckets

Limiting == CounterTyped /\ BucketsTyped /\ WindowsAreLimited

LEMMA ForgivenGrows ==
  ASSUME Limiting
  PROVE  /\ Forgiven \in Nat /\ MaxRequests \in Nat
         /\ MaxRequests * (1 + late + released) = MaxRequests + Forgiven
         /\ MaxRequests * (late + 1 + released) = MaxRequests + Forgiven
         /\ MaxRequests * (late + (released + 1)) = MaxRequests + Forgiven
BY RateLimitAssumption DEF Limiting, CounterTyped, Forgiven

LEMMA LeastOfTwo ==
  ASSUME NEW a \in Int, NEW b \in Int
  PROVE  /\ Min({a, b}) \in Int /\ Min({a, b}) = IF a <= b THEN a ELSE b
<1>1. \E x \in {a, b} : \A y \in {a, b} : x <= y
  OBVIOUS
<1>2. Min({a, b}) = CHOOSE x \in {a, b} : \A y \in {a, b} : x <= y
  BY DEF Min
<1>3. Min({a, b}) \in {a, b} /\ \A y \in {a, b} : Min({a, b}) <= y
  BY <1>1, <1>2
<1> QED
  BY <1>3

LEMMA CountedRow ==
  ASSUME Limiting, NEW w \in Windows
  PROVE  /\ Counted(w) \in [window : Windows, count : Nat] /\ Counted(w).window = w
         /\ w # row.window => Counted(w).count = 1
         /\ w = row.window => \/ Counted(w).count = row.count + 1
                              \/ Counted(w).count = MaxRequests + 1
<1>1. row \in [window : Windows, count : Nat] /\ MaxRequests \in Nat
  BY RateLimitAssumption DEF Limiting, CounterTyped
<1>2. CASE w = row.window
  <2> DEFINE n == Min({row.count + 1, MaxRequests + 1})
  <2>1. n \in Nat /\ (n = row.count + 1 \/ n = MaxRequests + 1)
    <3>1. row.count + 1 \in Nat /\ MaxRequests + 1 \in Nat
      BY <1>1
    <3> QED
      BY <3>1, LeastOfTwo
  <2>2. Counted(w) = [row EXCEPT !.count = n]
    BY <1>2 DEF Counted
  <2> HIDE DEF n
  <2> QED
    BY <1>1, <1>2, <2>1, <2>2
<1>3. CASE w # row.window
  <2>1. Counted(w) = [window |-> w, count |-> 1]
    BY <1>3 DEF Counted
  <2> QED
    BY <1>3, <2>1
<1> QED
  BY <1>2, <1>3

LEMMA AdmitsOne ==
  ASSUME Limiting, NEW w \in Windows, NEW n \in Nat, Admits(w, n)
  PROVE  /\ admitted' \in [Windows -> Nat]
         /\ admitted'[w] = IF n <= MaxRequests THEN admitted[w] + 1 ELSE admitted[w]
         /\ \A v \in Windows : v # w => admitted'[v] = admitted[v]
BY DEF Limiting, CounterTyped, Admits

-----------------------------------------------------------------------------
(* The steps.                                                                 *)

LEMMA HitIsTyped ==
  ASSUME Limiting, NEW h \in Hits, hit[h] # Idle
  PROVE  hit[h] \in Windows /\ [hit EXCEPT ![h] = Idle] \in [Hits -> Windows \cup {Idle}]
BY DEF Limiting, CounterTyped

LEMMA ClockTicksStep == Limiting /\ ClockTicks => Limiting'
BY RateLimitAssumption
DEF Limiting, ClockTicks, CounterTyped, BucketsTyped, WindowsAreLimited, Forgiven, Windows

LEMMA ResetMemoryStep == Limiting /\ ResetMemory => Limiting'
BY RateLimitAssumption
DEF Limiting, ResetMemory, CounterTyped, BucketsTyped, WindowsAreLimited, Forgiven

LEMMA ArrivesStep == ASSUME Limiting, NEW h \in Hits, Arrives(h) PROVE Limiting'
BY DEF Limiting, Arrives, CounterTyped, BucketsTyped, WindowsAreLimited, Forgiven

LEMMA ReleaseRowStep == Limiting /\ ReleaseRow => Limiting'
<1> SUFFICES ASSUME Limiting, ReleaseRow PROVE Limiting'
  OBVIOUS
<1>1. CounterTyped' /\ BucketsTyped'
  BY DEF Limiting, ReleaseRow, CounterTyped, BucketsTyped
<1>2. /\ row'.window = row.window /\ row'.count = 0
      /\ admitted' = admitted /\ unanswered' = unanswered
      /\ row.window \in Windows
  BY DEF Limiting, ReleaseRow, CounterTyped
<1>3. Forgiven' = MaxRequests + Forgiven /\ Forgiven \in Nat /\ MaxRequests \in Nat
  BY ForgivenGrows DEF ReleaseRow, Forgiven
<1>4. \A w \in Windows : admitted[w] \in Nat /\ unanswered \in Nat
                         /\ admitted[w] <= MaxRequests + Forgiven + unanswered
  BY DEF Limiting, CounterTyped, WindowsAreLimited
<1>5. WindowsAreLimited'
  BY <1>2, <1>3, <1>4 DEF WindowsAreLimited
<1> QED
  BY <1>1, <1>5 DEF Limiting

LEMMA IncrementFailsStep ==
  ASSUME Limiting, NEW h \in Hits, IncrementFails(h) PROVE Limiting'
<1>1. /\ hit[h] \in Windows /\ hit' \in [Hits -> Windows \cup {Idle}]
      /\ unanswered' = unanswered + 1
      /\ UNCHANGED <<window, row, late, released, buckets>>
  BY HitIsTyped DEF IncrementFails
<1>2. /\ admitted' \in [Windows -> Nat]
      /\ \A v \in Windows : admitted'[v] <= admitted[v] + 1
  BY <1>1, AdmitsOne DEF IncrementFails, Limiting, CounterTyped
<1>3. CounterTyped' /\ BucketsTyped'
  BY <1>1, <1>2 DEF Limiting, CounterTyped, BucketsTyped
<1>4. Forgiven' = Forgiven /\ Forgiven \in Nat /\ MaxRequests \in Nat
  BY <1>1, ForgivenGrows DEF Forgiven
<1>5. WindowsAreLimited'
  <2> SUFFICES ASSUME NEW w \in Windows
               PROVE /\ w = row.window
                          => \/ admitted'[w] <= row.count + Forgiven + (unanswered + 1)
                                          \/ row.count > MaxRequests
                     /\ w > row.window => admitted'[w] <= Forgiven + (unanswered + 1)
                     /\ admitted'[w] <= MaxRequests + Forgiven + (unanswered + 1)
    BY <1>1, <1>4 DEF WindowsAreLimited
  <2>1. /\ admitted[w] \in Nat /\ admitted'[w] \in Nat /\ unanswered \in Nat /\
             row.count \in Nat
        /\ admitted'[w] <= admitted[w] + 1
    BY <1>2 DEF Limiting, CounterTyped
  <2>2. /\ w = row.window => \/ admitted[w] <= row.count + Forgiven + unanswered
                             \/ row.count > MaxRequests
        /\ w > row.window => admitted[w] <= Forgiven + unanswered
        /\ admitted[w] <= MaxRequests + Forgiven + unanswered
    BY DEF Limiting, WindowsAreLimited
  <2> QED
    BY <1>4, <2>1, <2>2
<1> QED
  BY <1>3, <1>5 DEF Limiting

LEMMA IncrementsStep == ASSUME Limiting, NEW h \in Hits, Increments(h) PROVE Limiting'
<1> DEFINE v == hit[h]
           n == Counted(v).count
<1>1. /\ v \in Windows /\ hit' \in [Hits -> Windows \cup {Idle}]
      /\ row' = Counted(v) /\ Admits(v, n)
      /\ late' = (IF v < row.window THEN late + 1 ELSE late)
      /\ UNCHANGED <<window, released, unanswered, buckets>>
  BY HitIsTyped DEF Increments
<1>2. /\ row' \in [window : Windows,
           count : Nat] /\ row'.window = v /\ row'.count = n /\ n \in Nat
      /\ v # row.window => n = 1
      /\ v = row.window => n = row.count + 1 \/ n = MaxRequests + 1
  BY <1>1, CountedRow
<1> HIDE DEF n, v
<1>3. /\ admitted' \in [Windows -> Nat]
      /\ admitted'[v] = IF n <= MaxRequests THEN admitted[v] + 1 ELSE admitted[v]
      /\ \A w \in Windows : w # v => admitted'[w] = admitted[w]
  BY <1>1, <1>2, AdmitsOne
<1>4. CounterTyped' /\ BucketsTyped'
  BY <1>1, <1>2, <1>3 DEF Limiting, CounterTyped, BucketsTyped
<1>5. /\ Forgiven \in Nat /\ MaxRequests \in Nat
      /\ Forgiven' = IF v < row.window THEN MaxRequests + Forgiven ELSE Forgiven
  BY <1>1, ForgivenGrows DEF Forgiven
<1>6. WindowsAreLimited'
  <2> SUFFICES ASSUME NEW w \in Windows
               PROVE /\ w = v => \/ admitted'[w] <= n + Forgiven' + unanswered
                                 \/ n > MaxRequests
                     /\ w > v => admitted'[w] <= Forgiven' + unanswered
                     /\ admitted'[w] <= MaxRequests + Forgiven' + unanswered
    BY <1>1, <1>2 DEF WindowsAreLimited
  <2>1. /\ admitted[w] \in Nat /\ admitted'[w] \in Nat /\ unanswered \in Nat
        /\ row.count \in Nat /\ row.window \in Int /\ v \in Int /\ w \in Int
    BY <1>1, <1>3 DEF Limiting, CounterTyped, Windows
  <2>2. /\ w = row.window => \/ admitted[w] <= row.count + Forgiven + unanswered
                             \/ row.count > MaxRequests
        /\ w > row.window => admitted[w] <= Forgiven + unanswered
        /\ admitted[w] <= MaxRequests + Forgiven + unanswered
    BY DEF Limiting, WindowsAreLimited
  <2>3. CASE v = row.window
    BY <1>2, <1>3, <1>5, <2>1, <2>2, <2>3
  <2>4. CASE v > row.window
    BY <1>2, <1>3, <1>5, <2>1, <2>2, <2>4
  <2>5. CASE v < row.window
    BY <1>2, <1>3, <1>5, <2>1, <2>2, <2>5
  <2> QED
    BY <2>1, <2>3, <2>4, <2>5
<1> QED
  BY <1>4, <1>6 DEF Limiting

LEMMA CountsInMemoryStep ==
  ASSUME Limiting, NEW h \in Hits, NEW c \in Callers, CountsInMemory(h, c)
  PROVE  Limiting'
<1> DEFINE x == [caller |-> c, window |-> hit[h]]
           room == IF Len(buckets) >= MaxBuckets THEN Swept(buckets, hit[h]) ELSE buckets
<1>1. /\ hit[h] \in Windows /\ hit' \in [Hits -> Windows \cup {Idle}]
      /\ UNCHANGED <<window, row, admitted, late, released, unanswered>>
  BY HitIsTyped DEF CountsInMemory
<1>2. buckets' = buckets \/ buckets' = Stored(room, x)
  BY DEF CountsInMemory
<1>3. x \in BucketRows
  BY <1>1 DEF BucketRows
<1>4. room \in Seq(BucketRows) /\ Len(room) < MaxBuckets /\ Len(room) \in Nat
  BY SweptHasRoom, RateLimitAssumption DEF Limiting, BucketsTyped
<1> HIDE DEF room, x
<1>5. Stored(room, x) \in Seq(BucketRows) /\ Len(Stored(room, x)) <= MaxBuckets
  <2>1. /\ Stored(room, x) \in Seq(BucketRows)
        /\ Len(Stored(room, x)) <= Len(room) + 1
    BY <1>3, <1>4, StoredFits
  <2>2. Len(Stored(room, x)) \in Nat
    BY <2>1
  <2> QED
    BY <1>4, <2>1, <2>2, RateLimitAssumption
<1>6. BucketsTyped'
  BY <1>2, <1>5 DEF Limiting, BucketsTyped
<1> QED
  BY <1>1, <1>6 DEF Limiting, CounterTyped, WindowsAreLimited, Forgiven

-----------------------------------------------------------------------------
LEMMA LimitingInit == RateLimitInit => Limiting
<1> SUFFICES ASSUME RateLimitInit PROVE Limiting
  OBVIOUS
<1>1. CounterTyped /\ BucketsTyped
  BY RateLimitAssumption DEF RateLimitInit, CounterTyped, BucketsTyped, Windows
<1>2. WindowsAreLimited
  <2>1. Forgiven \in Nat /\ MaxRequests \in Nat
    BY RateLimitAssumption DEF RateLimitInit, Forgiven
  <2> QED
    BY <2>1 DEF RateLimitInit, WindowsAreLimited
<1> QED
  BY <1>1, <1>2 DEF Limiting

LEMMA LimitingStep == Limiting /\ [RateLimitNext]_limitVars => Limiting'
<1> SUFFICES ASSUME Limiting, [RateLimitNext]_limitVars PROVE Limiting'
  OBVIOUS
<1>1. CASE UNCHANGED limitVars
  BY <1>1 DEF Limiting, CounterTyped, BucketsTyped, WindowsAreLimited, Forgiven, limitVars
<1>2. CASE RateLimitNext
  BY <1>2, ClockTicksStep, ReleaseRowStep, ResetMemoryStep, ArrivesStep, IncrementsStep,
     IncrementFailsStep, CountsInMemoryStep
  DEF RateLimitNext
<1> QED
  BY <1>1, <1>2

LEMMA LimitingHolds == Limiting => LimitHolds
<1> SUFFICES ASSUME Limiting PROVE LimitHolds
  OBVIOUS
<1>1. /\ Len(buckets) <= MaxBuckets
      /\ \A i \in DOMAIN buckets : buckets[i] \in [caller : Callers, window : Windows]
  <2>1. \A i \in DOMAIN buckets : buckets[i] \in BucketRows
    BY DEF Limiting, BucketsTyped
  <2> QED
    BY <2>1 DEF Limiting, BucketsTyped, BucketRows
<1>2. RateLimitTypeOK
  BY <1>1 DEF Limiting, CounterTyped, RateLimitTypeOK
<1>3. \A w \in Windows : admitted[w] <= MaxRequests * (1 + late + released) + unanswered
  BY ForgivenGrows DEF Limiting, WindowsAreLimited
<1> QED
  BY <1>2, <1>3 DEF LimitHolds

\* For any limit, any number of requests and windows, no window lets more of them through
\* than the rule allows and late requests, releases and silence add.
THEOREM WindowsKeepTheirLimit == RateLimitSpec => []LimitHolds
BY LimitingInit, LimitingStep, LimitingHolds, PTL DEF RateLimitSpec

-----------------------------------------------------------------------------
(* The middleware: pages opened at once share a renewal, and end no session. *)

\* A page and its renewal belong together: who asks has a request under way for the token
\* it brought, only an answer has a pair, and the pair is of the family of the token.
PageHolds(p) ==
  /\ Is(p, "asking") <=> ~Does(p, "rest")
  /\ ~Does(p, "password")
  /\ Does(p, "read") \/ Does(p, "rotate") => request[p].token = page[p].token
  /\ Is(p, "away") <=> page[p].token = None
  /\ Is(p, "away") <=> page[p] = Away
  /\ page[p] # Away => page[p].web \in Webs
  /\ page[p].pair # None => Is(p, "answer")
  /\ Is(p, "answer") /\ page[p].pair = None => FamilyOf(page[p].token) \in lost

PanelShape ==
  /\ page = [p \in Pages |-> page[p]]
  /\ \A p \in Pages : /\ page[p].at \in {"away", "sent", "joined", "asking", "answer"}
                      /\ page[p].token \in {None} \cup DOMAIN tokens
                      /\ page[p].pair \in {None} \cup DOMAIN tokens
  /\ recent = [w \in Webs |-> recent[w]]
  /\ \A w \in Webs : \A e \in recent[w] :
       e[1] \in DOMAIN tokens /\ e[2] \in DOMAIN tokens /\ e = <<e[1], e[2]>>
  /\ stale \in BOOLEAN /\ lost \subseteq Families

PagesHold == \A p \in Pages : PageHolds(p)

\* One page of a process asks for all that bring its token.
OneAsks == \A p \in Pages, q \in Pages :
  (/\ Is(p, "asking") /\ Is(q, "asking")
   /\ page[p].web = page[q].web /\ page[p].token = page[q].token) => p = q

\* All pages under way bring one token, that of the browser while its pair is stale.
OneToken ==
  /\ \A p \in Pages, q \in Pages :
       page[p].token # None /\ page[q].token # None => page[p].token = page[q].token
  /\ stale => /\ kept # None
              /\ \A p \in Pages : page[p].token \in {None, kept}

\* A token that can be renewed, if no pair of its family was lost.
GoesOn(i) == tokens[i].is \in {"live", "replaced"} \/ FamilyOf(i) \in lost

KeptGoOn ==
  /\ kept # None => GoesOn(kept)
  /\ \A p \in Pages : page[p].token # None => GoesOn(page[p].token)

\* A new pair of token i, which nobody has used so far.
IsNew(pair, i) ==
  /\ pair \in DOMAIN tokens /\ FamilyOf(pair) = FamilyOf(i)
  /\ GoesOn(pair) /\ tokens[pair].is # "replaced"
  /\ \A q \in Pages : page[q].token # pair
  /\ stale => pair # kept

PairsAreNew ==
  /\ \A p \in Pages :
       /\ page[p].pair # None => IsNew(page[p].pair, page[p].token)
       /\ Does(p, "answer") => IsNew(request[p].token, page[p].token)
  /\ \A w \in Webs : \A e \in recent[w] : IsNew(e[2], e[1])

\* The pair that replaces the browser's is on its way to it.
OnItsWay ==
  kept # None /\ tokens[kept].is = "replaced" /\ FamilyOf(kept) \notin lost =>
    \E p \in Pages : /\ page[p].token = kept
                     /\ \/ Is(p, "asking") /\ Does(p, "answer")
                        \/ page[p].pair # None

Renewing ==
  /\ SignIn /\ PanelShape /\ PagesHold /\ OneAsks /\ OneToken /\ KeptGoOn /\ PairsAreNew
  /\ OnItsWay

\* A page that is not under way brings nothing.
LEMMA AwayIs == Away.at = "away" /\ Away.token = None /\ Away.pair = None
BY DEF Away

\* What the types say of the tokens that are under way.
LEMMA PanelFacts ==
  ASSUME SignIn, PanelShape
  PROVE  /\ Len(tokens) \in Nat /\ DOMAIN tokens = 1..Len(tokens) /\
              None \notin DOMAIN tokens
         /\ Len(tokens) + 1 \notin DOMAIN tokens /\ Len(tokens) + 1 # None
         /\ kept \in {None} \cup DOMAIN tokens
         /\ request \in [Requests -> [at : {"rest", "password", "read", "rotate",
              "answer"},
                                      token : Nat]]
         /\ \A r \in Requests : request[r].token \in {None} \cup DOMAIN tokens
         /\ \A r \in Requests : ~Does(r, "rest") /\ ~Does(r, "password")
              => request[r].token \in DOMAIN tokens
         /\ \A i \in DOMAIN tokens : FamilyOf(i) \in Families
BY ShapeFacts DEF SignIn, StaffShape, StaffTypeOK, Does, None, Families, FamilyOf

\* A new token at the end of the others.
LEMMA OneMore ==
  ASSUME SignIn, NEW f \in Nat \ {0}, tokens' = Append(tokens, Token(f))
  PROVE  /\ DOMAIN tokens' = (DOMAIN tokens) \cup {Len(tokens) + 1}
         /\ \A k \in DOMAIN tokens : tokens'[k] = tokens[k]
         /\ tokens'[Len(tokens) + 1].is = "live" /\ tokens'[Len(tokens) + 1].family = f
         /\ Families \subseteq Families'
<1>1. /\ DOMAIN tokens' = 1..Len(tokens) + 1 /\ Len(tokens) \in Nat
      /\ \A k \in 1..Len(tokens) : tokens'[k] = tokens[k]
      /\ tokens'[Len(tokens) + 1] = Token(f) /\ DOMAIN tokens = 1..Len(tokens)
  BY Grown, ShapeFacts
<1>2. DOMAIN tokens' = (DOMAIN tokens) \cup {Len(tokens) + 1}
  BY <1>1
<1> QED
  BY <1>1, <1>2 DEF Token, Families

\* A request turns to something else, and the others go on.
LEMMA RequestTurns ==
  ASSUME SignIn, NEW p \in Pages, NEW at, NEW i, Turns(p, at, i)
  PROVE  /\ request'[p].at = at /\ request'[p].token = i
         /\ \A q \in Pages : q # p => request'[q] = request[q]
<1>1. p \in DOMAIN request /\ \A q \in Pages : q \in DOMAIN request
  BY DEF SignIn, StaffShape, Pages
<1> QED
  BY <1>1 DEF Turns

\* What a renewal gives, every page of the process has that waited for it.
LEMMA PageSettles ==
  ASSUME NEW p \in Pages, NEW outcome, Settles(p, outcome), NEW q \in Pages
  PROVE  /\ page'[q].web = page[q].web /\ page'[q].token = page[q].token
         /\ \/ /\ page[q].web = page[p].web /\ page[q].token = page[p].token
               /\ Is(q, "asking") \/ Is(q, "joined")
               /\ page'[q].at = "answer" /\ page'[q].pair = outcome
            \/ /\ Is(q, "asking") \/ Is(q, "joined") =>
                     ~(page[q].web = page[p].web /\ page[q].token = page[p].token)
               /\ page'[q] = page[q]
<1>1. page'[q] = IF q \in Fellows(p) /\ page[q].at \in {"asking", "joined"}
                   THEN Moved(q, "answer", outcome) ELSE page[q]
  BY DEF Settles
<1>2. /\ Moved(q, "answer", outcome).at = "answer"
      /\ Moved(q, "answer", outcome).pair = outcome
      /\ Moved(q, "answer", outcome).web = page[q].web
      /\ Moved(q, "answer", outcome).token = page[q].token
  BY DEF Moved
<1> QED
  BY <1>1, <1>2 DEF Fellows, Is

\* After an answer, every page of the process that waited has it, and the others wait on.
LEMMA SettledPages ==
  ASSUME NEW p \in Pages, NEW outcome, Is(p, "asking"), Settles(p, outcome), OneAsks
  PROVE  /\ page' = [q \in Pages |-> page'[q]]
         /\ \A q \in Pages :
              /\ page'[q].web = page[q].web /\ page'[q].token = page[q].token
              /\ \/ /\ page[q].web = page[p].web /\ page[q].token = page[p].token
                    /\ Is(q, "asking") \/ Is(q, "joined")
                    /\ page'[q].at = "answer" /\ page'[q].pair = outcome
                 \/ /\ Is(q, "asking") \/ Is(q, "joined") =>
                          ~(page[q].web = page[p].web /\ page[q].token = page[p].token)
                    /\ page'[q] = page[q]
         /\ page'[p].at = "answer" /\ page'[p].pair = outcome
         /\ \A q \in Pages : Is(q, "asking") /\ q # p => page'[q] = page[q]
<1>1. \A q \in Pages :
        /\ page'[q].web = page[q].web /\ page'[q].token = page[q].token
        /\ \/ /\ page[q].web = page[p].web /\ page[q].token = page[p].token
              /\ Is(q, "asking") \/ Is(q, "joined")
              /\ page'[q].at = "answer" /\ page'[q].pair = outcome
           \/ /\ Is(q, "asking") \/ Is(q, "joined") =>
                    ~(page[q].web = page[p].web /\ page[q].token = page[p].token)
              /\ page'[q] = page[q]
  BY PageSettles
<1>2. page' = [q \in Pages |-> page'[q]]
  BY DEF Settles
<1>3. \A q \in Pages : Is(q, "asking") /\ q # p => page'[q] = page[q]
  BY <1>1 DEF OneAsks
<1> QED
  BY <1>1, <1>2, <1>3

\* A sign-in begins a family with one live token.
LEMMA SignsInTokens ==
  ASSUME SignIn, SignsIn
  PROVE  /\ DOMAIN tokens' = (DOMAIN tokens) \cup {Len(tokens) + 1}
         /\ \A k \in DOMAIN tokens : tokens'[k] = tokens[k]
         /\ tokens'[Len(tokens) + 1].is = "live"
         /\ tokens'[Len(tokens) + 1].family = Len(tokens) + 1
         /\ Families \subseteq Families'
<1>1. Len(tokens) + 1 \in Nat \ {0}
  BY ShapeFacts
<1> QED
  BY <1>1, OneMore DEF SignsIn

ServiceReads(p) ==
  Is(p, "asking") /\ RefreshReads(p) /\ UNCHANGED <<page, recent, stale, lost>>

ServiceRotates(p) ==
  Is(p, "asking") /\ Rotate(p) /\ UNCHANGED <<page, recent, stale, lost>>

\* A rotation replaces the token of its page by a live one of the same family.
LEMMA ServiceRotatesTokens ==
  ASSUME SignIn, NEW p \in Pages, ServiceRotates(p)
  PROVE  /\ request[p].token \in DOMAIN tokens
         /\ DOMAIN tokens' = (DOMAIN tokens) \cup {Len(tokens) + 1}
         /\ \A k \in DOMAIN tokens :
              /\ tokens'[k].family = tokens[k].family
              /\ tokens'[k].is = IF k = request[p].token THEN "replaced" ELSE tokens[k].is
         /\ tokens'[Len(tokens) + 1].is = "live"
         /\ tokens'[Len(tokens) + 1].family = tokens[request[p].token].family
         /\ Families \subseteq Families'
<1> DEFINE i == request[p].token
           u == [tokens EXCEPT ![i].is = "replaced"]
<1>1. i \in DOMAIN tokens /\ tokens[i].family \in Nat \ {0}
  BY ShapeFacts DEF Rotate, ServiceRotates, Pages
<1>2. /\ u \in Seq(TokenSet) /\ Len(u) = Len(tokens) /\ DOMAIN u = DOMAIN tokens
      /\ \A k \in DOMAIN tokens : u[k].family = tokens[k].family
  BY <1>1, ShapeFacts, Restated DEF TokenStates
<1>3. tokens' = Append(u, Token(tokens[i].family)) /\ DOMAIN tokens = 1..Len(tokens)
  BY ShapeFacts DEF ServiceRotates, Rotate, Rotation
<1>4. \A k \in DOMAIN tokens : u[k].is = IF k = i THEN "replaced" ELSE tokens[k].is
  <2> TAKE k \in DOMAIN tokens
  <2>0. tokens[k] \in TokenSet
    BY ShapeFacts
  <2>1. tokens[k] \in TokenSet /\ "is" \in DOMAIN tokens[k]
    BY <2>0 DEF TokenSet
  <2>2. u[k] = IF k = i THEN [tokens[k] EXCEPT !.is = "replaced"] ELSE tokens[k]
    BY ShapeFacts
  <2> QED
    BY <2>1, <2>2
<1> HIDE DEF u, i
<1>5. /\ DOMAIN tokens' = 1..Len(tokens) + 1 /\ Len(tokens) \in Nat
      /\ \A k \in DOMAIN tokens : tokens'[k] = u[k]
      /\ tokens'[Len(tokens) + 1] = Token(tokens[i].family)
  BY <1>1, <1>2, <1>3, Grown, ShapeFacts
<1>6. DOMAIN tokens' = (DOMAIN tokens) \cup {Len(tokens) + 1}
  BY <1>3, <1>5
<1>7. \A k \in DOMAIN tokens :
        /\ tokens'[k].family = tokens[k].family
        /\ tokens'[k].is = IF k = i THEN "replaced" ELSE tokens[k].is
  BY <1>2, <1>4, <1>5
<1>8. /\ tokens'[Len(tokens) + 1].is = "live"
      /\ tokens'[Len(tokens) + 1].family = tokens[i].family
  BY <1>5 DEF Token
<1>9. Families \subseteq Families'
  BY <1>6, <1>7, FamiliesStay
<1> QED
  BY <1>1, <1>6, <1>7, <1>8, <1>9 DEF i

\* A refusal was of a late or revoked token, and revokes the live one of its family.
LEMMA RenewalRejectedTokens ==
  ASSUME SignIn, NEW p \in Pages, RenewalRejected(p)
  PROVE  /\ DOMAIN tokens' = DOMAIN tokens
         /\ \A k \in DOMAIN tokens :
              /\ tokens'[k].family = tokens[k].family
              /\ \/ tokens'[k].is = tokens[k].is
                 \/ /\ tokens[k].family = tokens[request[p].token].family
                    /\ tokens[k].is = "live" /\ tokens'[k].is = "revoked"
         /\ request[p].token \in DOMAIN tokens
         /\ tokens[request[p].token].is \in {"late", "revoked"}
         /\ Families \subseteq Families'
<1> DEFINE f == tokens[request[p].token].family
<1>1. /\ tokens' = Revoked(f) /\ request[p].token \in DOMAIN tokens
      /\ tokens[request[p].token].is \in {"late", "revoked"}
  BY ShapeFacts DEF RenewalRejected, RefreshEndsFamily, Pages
<1>2. DOMAIN tokens' = DOMAIN tokens
  BY <1>1 DEF Revoked
<1>3. ASSUME NEW k \in DOMAIN tokens
      PROVE  /\ tokens'[k].family = tokens[k].family
             /\ \/ tokens'[k].is = tokens[k].is
                \/ tokens[k].family = f /\ tokens[k].is = "live" /\
                     tokens'[k].is = "revoked"
  <2>1. tokens[k] \in TokenSet
    BY ShapeFacts
  <2>2. /\ [tokens[k] EXCEPT !.is = "revoked"].family = tokens[k].family
        /\ [tokens[k] EXCEPT !.is = "revoked"].is = "revoked"
    BY <2>1 DEF TokenSet
  <2>3. tokens'[k] = IF tokens[k].family = f /\ tokens[k].is = "live"
                       THEN [tokens[k] EXCEPT !.is = "revoked"] ELSE tokens[k]
    BY <1>1 DEF Revoked
  <2> QED
    BY <2>2, <2>3
<1>4. Families \subseteq Families'
  BY <1>2, <1>3, FamiliesStay
<1> QED
  BY <1>1, <1>2, <1>3, <1>4

\* The end of the grace makes a replaced token late, and touches no other.
LEMMA GraceOfPagesEndsTokens ==
  ASSUME SignIn, NEW i \in DOMAIN tokens, GraceOfPagesEnds(i)
  PROVE  /\ DOMAIN tokens' = DOMAIN tokens
         /\ \A k \in DOMAIN tokens :
              /\ tokens'[k].family = tokens[k].family
              /\ tokens'[k].is = IF k = i THEN "late" ELSE tokens[k].is
         /\ tokens[i].is = "replaced"
         /\ Families \subseteq Families'
<1>1. tokens' = [tokens EXCEPT ![i].is = "late"] /\ tokens[i].is = "replaced"
  BY DEF GraceOfPagesEnds, GraceEnds
<1>2. ASSUME NEW k \in DOMAIN tokens
      PROVE  /\ tokens'[k].family = tokens[k].family
             /\ tokens'[k].is = IF k = i THEN "late" ELSE tokens[k].is
  <2>0. tokens[k] \in TokenSet
    BY ShapeFacts
  <2>1. tokens[k] \in TokenSet /\ "is" \in DOMAIN tokens[k]
    BY <2>0 DEF TokenSet
  <2>2. tokens'[k] = IF k = i THEN [tokens[k] EXCEPT !.is = "late"] ELSE tokens[k]
    BY <1>1, ShapeFacts
  <2>3. [tokens[k] EXCEPT !.is = "late"].family = tokens[k].family
    BY <2>1 DEF TokenSet
  <2> QED
    BY <2>1, <2>2, <2>3
<1>3. DOMAIN tokens' = DOMAIN tokens
  BY <1>1
<1>4. Families \subseteq Families'
  BY <1>2, <1>3, FamiliesStay
<1> QED
  BY <1>1, <1>2, <1>3, <1>4

\* The pages and what processes remember stay well-formed while no page moves.
LEMMA ShapeStays ==
  ASSUME PanelShape, DOMAIN tokens \subseteq DOMAIN tokens', lost' \subseteq Families',
         stale' \in BOOLEAN, page' = page,
         \/ recent' = recent
         \/ \E w \in Webs : \E e : recent' = [recent EXCEPT ![w] = @ \ {e}]
  PROVE  PanelShape'
<1>1. /\ page' = [p \in Pages |-> page'[p]]
      /\ \A p \in Pages :
           /\ page'[p].at \in {"away", "sent", "joined", "asking", "answer"}
           /\ page'[p].token \in {None} \cup DOMAIN tokens'
           /\ page'[p].pair \in {None} \cup DOMAIN tokens'
  BY DEF PanelShape
<1>2. /\ recent' = [w \in Webs |-> recent'[w]]
      /\ \A w \in Webs : recent'[w] \subseteq recent[w]
  BY DEF PanelShape
<1>3. \A w \in Webs : \A e \in recent'[w] :
        e[1] \in DOMAIN tokens' /\ e[2] \in DOMAIN tokens' /\ e = <<e[1], e[2]>>
  BY <1>2 DEF PanelShape
<1> QED
  BY <1>1, <1>2, <1>3 DEF PanelShape

\* So they do when somebody signs in, ...
LEMMA SignsInPanelShape ==
  ASSUME Renewing, SignsIn
  PROVE  PanelShape'
<1>1. page' = page /\ recent' = recent /\ lost' = lost /\ stale' \in BOOLEAN
  BY DEF SignsIn
<1>2. DOMAIN tokens \subseteq DOMAIN tokens' /\ Families \subseteq Families'
  BY SignsInTokens DEF Renewing
<1> QED
  BY <1>1, <1>2, ShapeStays DEF Renewing, PanelShape

\* ... when he signs out, ...
LEMMA SignsOutPanelShape ==
  ASSUME Renewing, SignsOut
  PROVE  PanelShape'
<1>1. page' = page /\ recent' = recent /\ lost' = lost /\ tokens' = tokens /\
        stale' \in BOOLEAN
  BY DEF SignsOut
<1>2. Families' = Families
  BY <1>1 DEF Families
<1> QED
  BY <1>1, <1>2, ShapeStays DEF Renewing, PanelShape

\* ... when a process forgets a pair, ...
LEMMA ForgetsPanelShape ==
  ASSUME Renewing, NEW w \in Webs, NEW e \in recent[w], Forgets(w, e)
  PROVE  PanelShape'
<1>1. page' = page /\ lost' = lost /\ tokens' = tokens /\ stale' = stale
  BY DEF Forgets, staffVars
<1>2. Families' = Families
  BY <1>1 DEF Families
<1>3. recent' = [recent EXCEPT ![w] = @ \ {e}]
  BY DEF Forgets
<1> QED
  BY <1>1, <1>2, <1>3, ShapeStays DEF Renewing, PanelShape

\* ... and when a new pair arrives.
LEMMA RenewalArrivesPanelShape ==
  ASSUME Renewing, NEW p \in Pages, RenewalArrives(p)
  PROVE  PanelShape'
<1>1. /\ request[p].token \in DOMAIN tokens /\ page[p].token \in DOMAIN tokens
      /\ UNCHANGED <<tokens, lost, stale>>
      /\ recent' = [recent EXCEPT ![page[p].web] = @ \cup {<<page[p].token,
           request[p].token>>}]
      /\ Settles(p, request[p].token) /\ Is(p, "asking")
  BY PanelFacts, AwayIs DEF Renewing, RenewalArrives, Does, Pages, PagesHold, PageHolds,
     Is, PanelShape
<1>2. \A q \in Pages : /\ page'[q].at \in {"away", "sent", "joined", "asking", "answer"}
                       /\ page'[q].token \in {None} \cup DOMAIN tokens
                       /\ page'[q].pair \in {None} \cup DOMAIN tokens
  BY <1>1, SettledPages DEF Renewing, PanelShape
<1>3. /\ recent' = [w \in Webs |-> recent'[w]]
      /\ \A w \in Webs : recent'[w] \subseteq recent[w] \cup {<<page[p].token,
           request[p].token>>}
  BY <1>1 DEF Renewing, PanelShape
<1>4. \A w \in Webs : \A e \in recent'[w] :
        e[1] \in DOMAIN tokens /\ e[2] \in DOMAIN tokens /\ e = <<e[1], e[2]>>
  BY <1>1, <1>3 DEF Renewing, PanelShape
<1>5. Families' = Families
  BY <1>1 DEF Families
<1>6. page' = [q \in Pages |-> page'[q]]
  BY <1>1, SettledPages DEF Renewing
<1> QED
  BY <1>1, <1>2, <1>3, <1>4, <1>5, <1>6 DEF Renewing, PanelShape

\* Who has an answer asks no more.
LEMMA RenewalArrivesOneAsks ==
  ASSUME Renewing, NEW p \in Pages, RenewalArrives(p)
  PROVE  OneAsks'
<1>1. Settles(p, request[p].token) /\ Is(p, "asking")
  BY DEF RenewalArrives
<1>2. \A q \in Pages : /\ page'[q].web = page[q].web /\ page'[q].token = page[q].token
                       /\ Is(q, "asking")' => Is(q, "asking")
  BY <1>1, SettledPages DEF Is, Renewing
<1> QED
  BY <1>2 DEF Renewing, OneAsks

\* A page has the pair of its own token.
LEMMA RenewalArrivesPagesHold ==
  ASSUME Renewing, NEW p \in Pages, RenewalArrives(p)
  PROVE  PagesHold'
<1>1. /\ Settles(p, request[p].token) /\ Is(p, "asking") /\ Does(p, "answer")
      /\ Turns(p, "rest", None) /\ UNCHANGED <<tokens, lost>>
      /\ request[p].token # None /\ page[p] # Away /\ page[p].token # None
  BY PanelFacts, AwayIs DEF Renewing, RenewalArrives, PagesHold, PageHolds, Is, Does,
     Pages, None
<1>2. /\ Does(p, "rest")' /\ \A q \in Pages : q # p => request'[q] = request[q]
  BY <1>1, RequestTurns DEF Renewing, Does
<1> SUFFICES ASSUME NEW q \in Pages PROVE PageHolds(q)'
  BY DEF PagesHold
<1>3. PageHolds(q)
  BY DEF Renewing, PagesHold
<1>4. CASE page'[q] = page[q]
  <2>1. q # p
    BY <1>1, <1>4, SettledPages DEF Is, Renewing
  <2> QED
    BY <1>1, <1>2, <1>3, <1>4, <2>1 DEF PageHolds, Is, Does, FamilyOf
<1>5. CASE page'[q] # page[q]
  <2>1. /\ page'[q].web = page[q].web /\ page'[q].token = page[q].token
        /\ page'[q].at = "answer" /\ page'[q].pair = request[p].token
        /\ Is(q, "asking") \/ Is(q, "joined")
        /\ Is(q, "asking") => q = p
    BY <1>1, <1>5, SettledPages DEF Renewing
  <2>2. Does(q, "rest")' /\ page[q] # Away /\ page'[q] # Away /\ page[q].web \in Webs
        /\ page[q].token # None
    BY <1>1, <1>2, <1>3, <2>1, AwayIs DEF PageHolds, Is, Does
  <2> QED
    BY <1>1, <2>1, <2>2 DEF PageHolds, Is, Does
<1> QED
  BY <1>4, <1>5

\* The pair that arrives was used by nobody.
LEMMA RenewalArrivesPairsAreNew ==
  ASSUME Renewing, NEW p \in Pages, RenewalArrives(p)
  PROVE  PairsAreNew'
<1>1. /\ Settles(p, request[p].token) /\ Is(p, "asking") /\ Does(p, "answer")
      /\ Turns(p, "rest", None) /\ UNCHANGED <<tokens, lost, kept, stale>>
      /\ recent' = [recent EXCEPT ![page[p].web] = @ \cup {<<page[p].token,
           request[p].token>>}]
  BY DEF RenewalArrives
<1>2. /\ Does(p, "rest")' /\ \A q \in Pages : q # p => request'[q] = request[q]
  BY <1>1, RequestTurns DEF Renewing, Does
<1>3. \A q \in Pages : page'[q].token = page[q].token
  BY <1>1, SettledPages DEF Renewing
<1>4. \A n, i : IsNew(n, i) => IsNew(n, i)'
  BY <1>1, <1>3 DEF IsNew, GoesOn, FamilyOf
<1>5. PICK n : n = request[p].token
  OBVIOUS
<1>6. PICK i : i = page[p].token
  OBVIOUS
<1>7. IsNew(n, i)'
  BY <1>1, <1>4, <1>5, <1>6 DEF Renewing, PairsAreNew
<1>8. ASSUME NEW q \in Pages, page'[q].pair # None
      PROVE  IsNew(page[q].pair, page[q].token)'
  <2>1. CASE page'[q] = page[q]
    <3>1. IsNew(page[q].pair, page[q].token)
      BY <1>8, <2>1 DEF Renewing, PairsAreNew
    <3> QED
      BY <1>1, <1>3, <2>1, <3>1 DEF IsNew, GoesOn, FamilyOf
  <2>2. CASE page'[q] # page[q]
    <3>1. page'[q].pair = n /\ page'[q].token = i
      BY <1>1, <1>3, <1>5, <1>6, <2>2, SettledPages DEF Renewing
    <3> QED
      BY <1>7, <3>1 DEF IsNew, GoesOn, FamilyOf
  <2> QED
    BY <2>1, <2>2
<1>9. ASSUME NEW q \in Pages, Does(q, "answer")'
      PROVE  IsNew(request[q].token, page[q].token)'
  <2>1. q # p /\ request'[q] = request[q] /\ Does(q, "answer")
    BY <1>2, <1>9 DEF Does
  <2>2. IsNew(request[q].token, page[q].token)
    BY <2>1 DEF Renewing, PairsAreNew
  <2> QED
    BY <1>1, <1>3, <2>1, <2>2 DEF IsNew, GoesOn, FamilyOf
<1>10. ASSUME NEW w \in Webs, NEW e \in recent'[w] PROVE IsNew(e[2], e[1])'
  <2>1. e \in recent[w] \/ e = <<i, n>>
    BY <1>1, <1>5, <1>6, <1>10 DEF Renewing, PanelShape
  <2>2. CASE e \in recent[w]
    BY <1>4, <2>2 DEF Renewing, PairsAreNew
  <2>3. CASE e = <<i, n>>
    <3>1. e[2] = n /\ e[1] = i
      BY <2>3
    <3> QED
      BY <1>7, <3>1
  <2> QED
    BY <2>1, <2>2, <2>3
<1> QED
  BY <1>8, <1>9, <1>10 DEF PairsAreNew

\* What replaces the token of the browser goes from the answer to a page.
LEMMA RenewalArrivesOnItsWay ==
  ASSUME Renewing, NEW p \in Pages, RenewalArrives(p)
  PROVE  OnItsWay'
<1>1. /\ Settles(p, request[p].token) /\ Is(p, "asking") /\ Does(p, "answer")
      /\ Turns(p, "rest", None) /\ UNCHANGED <<tokens, lost,
           kept>> /\ request[p].token # None
  BY PanelFacts DEF Renewing, RenewalArrives, Pages, Does
<1>2. SUFFICES ASSUME kept # None, tokens[kept].is = "replaced",
                        FamilyOf(kept) \notin lost
               PROVE  \E q \in Pages : /\ page'[q].token = kept
                                       /\ \/ Is(q, "asking")' /\ Does(q, "answer")'
                                          \/ page'[q].pair # None
  BY <1>1 DEF OnItsWay, FamilyOf
<1>3. PICK q \in Pages : /\ page[q].token = kept
                         /\ \/ Is(q, "asking") /\ Does(q, "answer")
                            \/ page[q].pair # None
  BY <1>2 DEF Renewing, OnItsWay
<1>4. CASE q = p
  BY <1>1, <1>3, <1>4, SettledPages DEF Renewing
<1>5. CASE q # p
  <2>1. request'[q] = request[q]
    BY <1>1, <1>5, RequestTurns DEF Renewing
  <2>2. page'[q].token = kept
    BY <1>1, <1>3, SettledPages DEF Renewing
  <2>3. Is(q, "asking") => page'[q] = page[q]
    BY <1>1, <1>5, SettledPages DEF Renewing
  <2>4. page[q].pair # None => page'[q].pair # None
    BY <1>1, SettledPages DEF Renewing
  <2> QED
    BY <1>3, <2>1, <2>2, <2>3, <2>4 DEF Is, Does
<1> QED
  BY <1>4, <1>5

\* Whatever pair is about, the token it renews is known.
LEMMA PairsHaveTokens ==
  ASSUME PanelShape, PagesHold, NEW q \in Pages, page[q].pair # None \/ Does(q, "answer")
  PROVE  page[q].token \in DOMAIN tokens
BY AwayIs DEF PanelShape, PagesHold, PageHolds, Is, Does

\* Pairs that were new stay so when no new one comes up.
LEMMA NewStays ==
  ASSUME Renewing, \A n, i : i \in DOMAIN tokens /\ IsNew(n, i) => IsNew(n, i)',
         \A q \in Pages : page'[q].pair # None
           => page'[q].pair = page[q].pair /\ page'[q].token = page[q].token,
         \A q \in Pages : Does(q, "answer")' =>
           Does(q, "answer") /\ request'[q] = request[q] /\
             page'[q].token = page[q].token,
         recent' = recent
  PROVE  PairsAreNew'
<1>1. ASSUME NEW q \in Pages, page'[q].pair # None
      PROVE  IsNew(page[q].pair, page[q].token)'
  <2>1. PICK n : n = page[q].pair
    OBVIOUS
  <2>2. PICK i : i = page[q].token
    OBVIOUS
  <2>3. page'[q].pair = n /\ page'[q].token = i
    BY <1>1, <2>1, <2>2
  <2>4. IsNew(n, i) /\ i \in DOMAIN tokens
    BY <1>1, <2>1, <2>2, PairsHaveTokens DEF Renewing, PairsAreNew
  <2>5. IsNew(n, i)'
    BY <2>4
  <2> QED
    BY <2>3, <2>5
<1>2. ASSUME NEW q \in Pages, Does(q, "answer")'
      PROVE  IsNew(request[q].token, page[q].token)'
  <2>1. PICK n : n = request[q].token
    OBVIOUS
  <2>2. PICK i : i = page[q].token
    OBVIOUS
  <2>3. request'[q].token = n /\ page'[q].token = i
    BY <1>2, <2>1, <2>2
  <2>4. IsNew(n, i) /\ i \in DOMAIN tokens
    BY <1>2, <2>1, <2>2, PairsHaveTokens DEF Renewing, PairsAreNew
  <2>5. IsNew(n, i)'
    BY <2>4
  <2> QED
    BY <2>3, <2>5
<1>3. ASSUME NEW w \in Webs, NEW e \in recent[w] PROVE IsNew(e[2], e[1])'
  BY DEF Renewing, PairsAreNew, PanelShape
<1> QED
  BY <1>1, <1>2, <1>3 DEF PairsAreNew

\* A pair that reaches the browser is its token, and no pair under way is.
LEMMA PageArrivesPairsAreNew ==
  ASSUME Renewing, NEW p \in Pages, PageArrives(p)
  PROVE  PairsAreNew'
<1>1. /\ page' = [page EXCEPT ![p] = Away] /\ UNCHANGED <<tokens, request, recent, lost>>
  BY DEF PageArrives
<1>2. stale' => stale /\ kept' = kept
  BY DEF PageArrives
<1>3. \A q \in Pages : page'[q] = page[q] \/ (q = p /\ page'[q] = Away)
  BY <1>1 DEF Renewing, PanelShape
<1>4. \A n, i : IsNew(n, i) => IsNew(n, i)'
  BY <1>1, <1>2, <1>3, AwayIs, PanelFacts DEF Renewing, IsNew, GoesOn, FamilyOf
<1>5. ~Does(p, "answer")
  BY DEF Renewing, PagesHold, PageHolds, PageArrives, Is, Does
<1> QED
  BY <1>1, <1>3, <1>4, <1>5, AwayIs, NewStays DEF Does

\* A page that arrives leaves the others with the token they brought.
LEMMA PageArrivesOneToken ==
  ASSUME Renewing, NEW p \in Pages, PageArrives(p)
  PROVE  OneToken'
<1>1. /\ page' = [page EXCEPT ![p] = Away]
  BY DEF PageArrives
<1>2. stale' => stale /\ kept' = kept
  BY DEF PageArrives
<1>3. \A q \in Pages : page'[q] = page[q] \/ page'[q] = Away
  BY <1>1 DEF Renewing, PanelShape
<1> QED
  BY <1>2, <1>3, AwayIs DEF Renewing, OneToken

\* The pairs of other pages stay new when one is lost.
LEMMA PageLostPairsAreNew ==
  ASSUME Renewing, NEW p \in Pages, PageLost(p)
  PROVE  PairsAreNew'
<1>1. /\ page' = [page EXCEPT ![p] = Away] /\ UNCHANGED <<tokens, request, recent, kept,
           stale>>
      /\ lost \subseteq lost'
  BY DEF PageLost, staffVars
<1>3. \A q \in Pages : page'[q] = page[q] \/ (q = p /\ page'[q] = Away)
  BY <1>1 DEF Renewing, PanelShape
<1>4. \A n, i : IsNew(n, i) => IsNew(n, i)'
  BY <1>1, <1>3, AwayIs, PanelFacts DEF Renewing, IsNew, GoesOn, FamilyOf
<1>5. ~Does(p, "answer")
  BY DEF Renewing, PagesHold, PageHolds, PageLost, Is, Does
<1> QED
  BY <1>1, <1>3, <1>4, <1>5, AwayIs, NewStays DEF Does

\* A pair that is lost is the loss of its family.
LEMMA PageLostOnItsWay ==
  ASSUME Renewing, NEW p \in Pages, PageLost(p)
  PROVE  OnItsWay'
<1>1. /\ page' = [page EXCEPT ![p] = Away] /\ UNCHANGED <<tokens, request, kept>>
      /\ lost \subseteq lost' /\ Is(p, "answer")
      /\ page[p].pair # None => FamilyOf(page[p].pair) \in lost'
  BY DEF PageLost, staffVars
<1>2. SUFFICES ASSUME kept # None, tokens[kept].is = "replaced",
                        FamilyOf(kept) \notin lost'
               PROVE  \E q \in Pages : /\ page'[q].token = kept
                                       /\ \/ Is(q, "asking")' /\ Does(q, "answer")'
                                          \/ page'[q].pair # None
  BY <1>1 DEF OnItsWay, FamilyOf
<1>3. PICK q \in Pages : /\ page[q].token = kept
                         /\ \/ Is(q, "asking") /\ Does(q, "answer")
                            \/ page[q].pair # None
  BY <1>1, <1>2 DEF Renewing, OnItsWay
<1>4. q # p
  BY <1>1, <1>2, <1>3 DEF Renewing, PairsAreNew, IsNew, Is
<1>5. page'[q] = page[q]
  BY <1>1, <1>4 DEF Renewing, PanelShape
<1> QED
  BY <1>1, <1>3, <1>5 DEF Is, Does

\* A renewal that is lost ends the pages that waited for it.
LEMMA RenewalLostPages ==
  ASSUME Renewing, NEW p \in Pages, RenewalLost(p)
  PROVE  /\ \A q \in Pages : page'[q] = page[q] \/ page'[q] = Away
         /\ \A q \in Pages : Is(q, "answer") \/ (Is(q,
              "asking") /\ q # p) => page'[q] = page[q]
         /\ Does(p, "rest")' /\ \A q \in Pages : q # p => request'[q] = request[q]
         /\ UNCHANGED <<tokens, recent, kept, stale>> /\ lost \subseteq lost'
         /\ Does(p, "answer") => FamilyOf(page[p].token) \in lost'
<1>1. \A q \in Pages : page'[q] = IF q \in Fellows(p) /\ ~Is(q, "sent") /\ ~Is(q,
        "answer")
                                    THEN Away ELSE page[q]
  BY DEF RenewalLost
<1>2. Is(p, "asking") /\ Turns(p, "rest", None) /\ UNCHANGED <<tokens, recent, kept,
        stale>>
  BY DEF RenewalLost, RequestEnds
<1>3. lost \subseteq lost' /\ (Does(p, "answer") => FamilyOf(page[p].token) \in lost')
  BY DEF RenewalLost
<1>4. \A q \in Pages : q \in Fellows(p) /\ Is(q, "asking") => q = p
  BY <1>2 DEF Renewing, OneAsks, Fellows
<1>5. Does(p, "rest")' /\ \A q \in Pages : q # p => request'[q] = request[q]
  BY <1>2, RequestTurns DEF Renewing, Does
<1>6. \A q \in Pages : page'[q] = page[q] \/ page'[q] = Away
  BY <1>1
<1>7. \A q \in Pages : Is(q, "answer") \/ (Is(q, "asking") /\ q # p) => page'[q] = page[q]
  BY <1>1, <1>4
<1> QED
  BY <1>2, <1>3, <1>5, <1>6, <1>7

\* It touches no pair of another page.
LEMMA RenewalLostPairsAreNew ==
  ASSUME Renewing, NEW p \in Pages, RenewalLost(p)
  PROVE  PairsAreNew'
<1>1. \A n, i : IsNew(n, i) => IsNew(n, i)'
  BY RenewalLostPages, AwayIs, PanelFacts DEF Renewing, IsNew, GoesOn, FamilyOf
<1>2. \A q \in Pages : Does(q, "answer") => Is(q, "asking")
  BY DEF Renewing, PagesHold, PageHolds, Does
<1>3. \A q \in Pages : Does(q, "answer")' =>
           Does(q, "answer") /\ request'[q] = request[q] /\ page'[q].token = page[q].token
  BY <1>2, RenewalLostPages DEF Does
<1> QED
  BY <1>1, <1>3, RenewalLostPages, AwayIs, NewStays

\* An answer that is lost is the loss of its family.
LEMMA RenewalLostOnItsWay ==
  ASSUME Renewing, NEW p \in Pages, RenewalLost(p)
  PROVE  OnItsWay'
<1>1. UNCHANGED <<tokens, kept>>
  BY RenewalLostPages
<1>2. SUFFICES ASSUME kept # None, tokens[kept].is = "replaced",
                        FamilyOf(kept) \notin lost'
               PROVE  \E q \in Pages : /\ page'[q].token = kept
                                       /\ \/ Is(q, "asking")' /\ Does(q, "answer")'
                                          \/ page'[q].pair # None
  BY <1>1 DEF OnItsWay, FamilyOf
<1>3. PICK q \in Pages : /\ page[q].token = kept
                         /\ \/ Is(q, "asking") /\ Does(q, "answer")
                            \/ page[q].pair # None
  BY <1>2, RenewalLostPages DEF Renewing, OnItsWay
<1>4. page[q].pair # None => Is(q, "answer")
  BY DEF Renewing, PagesHold, PageHolds
<1>5. Is(p, "asking")
  BY DEF RenewalLost
<1>6. q # p
  BY <1>2, <1>3, <1>4, <1>5, RenewalLostPages DEF Is
<1>7. page'[q] = page[q] /\ request'[q] = request[q]
  BY <1>3, <1>4, <1>6, RenewalLostPages
<1> QED
  BY <1>3, <1>7 DEF Is, Does

\* Who asks has no pair yet, and takes none from another.
LEMMA AsksForRenewalOnItsWay ==
  ASSUME Renewing, NEW p \in Pages, AsksForRenewal(p)
  PROVE  OnItsWay'
<1>1. /\ Is(p, "sent") /\ page' = [page EXCEPT ![p] = Moved(p, "asking", None)]
      /\ Turns(p, "read", page[p].token) /\ UNCHANGED <<tokens, kept, lost>>
  BY DEF AsksForRenewal
<1>2. /\ \A q \in Pages : q # p => page'[q] = page[q] /\ request'[q] = request[q]
      /\ page[p].pair = None
  BY <1>1, RequestTurns DEF Renewing, PanelShape, PagesHold, PageHolds, Is
<1> QED
  BY <1>1, <1>2 DEF Renewing, OnItsWay, Is, Does, FamilyOf

\* A refusal is of a family whose pair was lost: no pair under way is of it.
LEMMA RenewalRejectedPairsAreNew ==
  ASSUME Renewing, NEW p \in Pages, RenewalRejected(p)
  PROVE  PairsAreNew'
<1>1. /\ Is(p, "asking") /\ Does(p, "read") /\ Settles(p, None) /\ Turns(p, "rest", None)
      /\ UNCHANGED <<kept, recent, stale, lost>>
  BY DEF RenewalRejected, RefreshEndsFamily
<1>2. /\ Does(p, "rest")' /\ \A q \in Pages : q # p => request'[q] = request[q]
  BY <1>1, RequestTurns DEF Renewing, Does
<1>3. \A q \in Pages : /\ page'[q].token = page[q].token
                       /\ page'[q].pair # None => page'[q].pair = page[q].pair
  BY <1>1, SettledPages DEF Renewing
<1>4. request[p].token = page[p].token /\ page[p].token # None
  BY <1>1, AwayIs DEF Renewing, PagesHold, PageHolds, Is
<1>5. FamilyOf(request[p].token) \in lost
  BY <1>4, RenewalRejectedTokens DEF Renewing, KeptGoOn, GoesOn
<1>6. \A n, i : i \in DOMAIN tokens /\ IsNew(n, i) => IsNew(n, i)'
  BY <1>1, <1>3, <1>5, RenewalRejectedTokens DEF Renewing, IsNew, GoesOn, FamilyOf
<1>7. \A q \in Pages : Does(q, "answer")' =>
           Does(q, "answer") /\ request'[q] = request[q] /\ page'[q].token = page[q].token
  BY <1>2, <1>3 DEF Does
<1> QED
  BY <1>1, <1>3, <1>6, <1>7, NewStays

\* The token a rotation makes is used by nobody.
LEMMA ServiceRotatesPairsAreNew ==
  ASSUME Renewing, NEW p \in Pages, ServiceRotates(p)
  PROVE  PairsAreNew'
<1>1. /\ Is(p, "asking") /\ Does(p, "rotate") /\ Turns(p, "answer", Len(tokens) + 1)
      /\ UNCHANGED <<page, kept, recent, stale, lost>>
  BY DEF ServiceRotates, Rotate
<1>2. /\ request'[p].token = Len(tokens) + 1
      /\ \A q \in Pages : q # p => request'[q] = request[q]
  BY <1>1, RequestTurns DEF Renewing
<1>3. request[p].token = page[p].token
  BY <1>1 DEF Renewing, PagesHold, PageHolds
<1>4. \A n, i : i \in DOMAIN tokens /\ IsNew(n, i) => IsNew(n, i)'
  BY <1>1, <1>3, ServiceRotatesTokens DEF Renewing, IsNew, GoesOn, FamilyOf
<1>5. PICK n : n = Len(tokens) + 1
  OBVIOUS
<1>6. PICK i : i = page[p].token
  OBVIOUS
<1>7. IsNew(n, i)'
  <2>1. n \notin DOMAIN tokens /\ n # None /\ kept # n /\
          \A q \in Pages : page[q].token # n
    BY <1>5, PanelFacts DEF Renewing, PanelShape
  <2>2. /\ n \in DOMAIN tokens' /\ tokens'[n].is = "live" /\ i \in DOMAIN tokens
        /\ tokens'[n].family = tokens'[i].family
    BY <1>3, <1>5, <1>6, ServiceRotatesTokens DEF Renewing
  <2> QED
    BY <1>1, <2>1, <2>2 DEF IsNew, GoesOn, FamilyOf
<1>8. ASSUME NEW q \in Pages, page[q].pair # None
      PROVE  IsNew(page[q].pair, page[q].token)'
  <2>1. IsNew(page[q].pair, page[q].token) /\ page[q].token \in DOMAIN tokens
    BY <1>8, PairsHaveTokens DEF Renewing, PairsAreNew
  <2> QED
    BY <1>1, <1>3, <2>1, ServiceRotatesTokens DEF Renewing, IsNew, GoesOn, FamilyOf
<1>9. ASSUME NEW q \in Pages, Does(q, "answer")'
      PROVE  IsNew(request[q].token, page[q].token)'
  <2>1. CASE q = p
    <3>1. request'[q].token = n /\ page'[q].token = i
      BY <1>1, <1>2, <1>5, <1>6, <2>1
    <3> QED
      BY <1>7, <3>1
  <2>2. CASE q # p
    <3>1. request'[q] = request[q] /\ Does(q, "answer")
      BY <1>2, <1>9, <2>2 DEF Does
    <3>2. IsNew(request[q].token, page[q].token) /\ page[q].token \in DOMAIN tokens
      BY <3>1, PairsHaveTokens DEF Renewing, PairsAreNew
    <3> QED
      BY <1>1, <1>3, <3>1, <3>2, ServiceRotatesTokens DEF Renewing, IsNew, GoesOn,
         FamilyOf
  <2> QED
    BY <2>1, <2>2
<1>10. ASSUME NEW w \in Webs, NEW e \in recent[w] PROVE IsNew(e[2], e[1])'
  BY <1>4 DEF Renewing, PairsAreNew, PanelShape
<1> QED
  BY <1>1, <1>8, <1>9, <1>10 DEF PairsAreNew

\* A browser that keeps another token, and a request that turns, end no session.
LEMMA BrowserKeepsSignIn ==
  ASSUME SignIn, UNCHANGED <<tokens, failed, ended>>, kept' \in {None} \cup DOMAIN tokens,
         \/ request' = request
         \/ \E p \in Pages, at \in {"rest", "read"}, i \in Nat :
              /\ Turns(p, at, i)
              /\ i \in IF at = "rest" THEN {None} ELSE DOMAIN tokens
  PROVE  SignIn'
<1>1. /\ request' \in [Requests -> [at : {"rest", "password", "read", "rotate", "answer"},
                                    token : Nat]]
      /\ \A q \in Requests :
           /\ request'[q].at \in {"rest", "password", "read", "rotate", "answer"}
           /\ request'[q].token \in
                IF request'[q].at \in {"rest", "password"} THEN {None} ELSE DOMAIN tokens'
  <2>1. CASE request' = request
    BY <2>1 DEF SignIn, StaffShape, StaffTypeOK
  <2>2. ASSUME NEW p \in Pages, NEW at \in {"rest", "read"}, NEW i \in Nat, Turns(p, at,
                 i),
               i \in IF at = "rest" THEN {None} ELSE DOMAIN tokens
        PROVE  /\ request' \in [Requests -> [at : {"rest", "password", "read", "rotate",
                    "answer"},
                                             token : Nat]]
               /\ \A q \in Requests :
                    /\ request'[q].at \in {"rest", "password", "read", "rotate", "answer"}
                    /\ request'[q].token \in
                         IF request'[q].at \in {"rest",
                           "password"} THEN {None} ELSE DOMAIN tokens'
    BY <2>2, RequestsTurn DEF Pages
  <2> QED
    BY <2>1, <2>2
<1>2. StaffShape'
  <2>1. tokens' \in Seq([family : Nat \ {0},
          is : TokenStates]) /\ Len(tokens') <= MaxTokens
    BY DEF SignIn, StaffShape, StaffTypeOK
  <2>2. kept' \in {None} \cup DOMAIN tokens' /\ failed' \in Nat /\
          ended' \subseteq Families'
    BY DEF SignIn, StaffShape, StaffTypeOK, Families
  <2> QED
    BY <1>1, <2>1, <2>2 DEF StaffShape, StaffTypeOK
<1>3. LockoutBound'
  <2>1. LoggingIn' \subseteq LoggingIn
    BY DEF LoggingIn, Does, Turns, SignIn, StaffShape, Pages
  <2>2. failed' \in Nat /\ failed' <= failed
    BY DEF SignIn, StaffShape, StaffTypeOK
  <2> QED
    BY <2>1, <2>2, BoundKept
<1>4. OnlyReplacedTokensAreRevoked' /\ FamilyLives'
  BY DEF SignIn, OnlyReplacedTokensAreRevoked, FamilyLives, Families
<1> QED
  BY <1>2, <1>3, <1>4 DEF SignIn

\* The sign-in is in order after a password, with pages or without.
LEMMA SignsInSignIn ==
  ASSUME Renewing, SignsIn
  PROVE  SignIn'
<1>1. /\ tokens' = Append(tokens, Token(Len(tokens) + 1)) /\ kept' = Len(tokens) + 1
      /\ Len(tokens) < MaxTokens /\ UNCHANGED <<request, failed, ended>>
  BY DEF SignsIn
<1>2. /\ tokens' \in Seq(TokenSet) /\ Len(tokens') = Len(tokens) + 1
      /\ Len(tokens) + 1 \in Nat \ {0}
  BY <1>1, ShapeFacts, Grown DEF Renewing
<1>3. StaffShape'
  <2>1. tokens' \in Seq([family : Nat \ {0}, is : TokenStates])
    BY <1>2 DEF TokenSet
  <2>2. Len(tokens') <= MaxTokens
    BY <1>1, <1>2, StaffAssumption
  <2>3. DOMAIN tokens \subseteq DOMAIN tokens' /\ kept' \in DOMAIN tokens' /\
          ended' \subseteq Families'
    BY <1>1, SignsInTokens, ShapeFacts DEF Renewing
  <2> QED
    BY <1>1, <2>1, <2>2, <2>3 DEF Renewing, SignIn, StaffShape, StaffTypeOK
<1>4. LockoutBound'
  <2>1. LoggingIn' \subseteq LoggingIn
    BY <1>1 DEF LoggingIn, Does
  <2>2. failed' \in Nat /\ failed' <= failed
    BY <1>1, ShapeFacts DEF Renewing
  <2> QED
    BY <2>1, <2>2, BoundKept DEF Renewing
<1>5. OnlyReplacedTokensAreRevoked' /\ FamilyLives'
  BY <1>1, SignsInTokens DEF Renewing, SignIn, OnlyReplacedTokensAreRevoked,
     FamilyLives, Families
<1> QED
  BY <1>3, <1>4, <1>5 DEF SignIn

\* Every step of the panel is a step of the sign-in, or leaves it alone.
LEMMA RenewingSignIn ==
  ASSUME Renewing, [PanelNext]_panelVars
  PROVE  SignIn'
<1>1. CASE UNCHANGED staffVars
  BY <1>1, SignInStep DEF Renewing
<1>2. CASE SignsIn
  BY <1>2, SignsInSignIn
<1>3. CASE SignsOut
  <2>1. UNCHANGED <<tokens, failed, ended, request>> /\ kept' = None
    BY <1>3 DEF SignsOut
  <2> QED
    BY <2>1, BrowserKeepsSignIn DEF Renewing
<1>4. ASSUME NEW i \in DOMAIN tokens, GraceOfPagesEnds(i) PROVE SignIn'
  BY <1>4, GraceEndsStep DEF Renewing, GraceOfPagesEnds
<1>5. ASSUME NEW p \in Pages, AsksForRenewal(p) PROVE SignIn'
  <2>1. /\ UNCHANGED <<tokens, failed, ended, kept>> /\ Turns(p, "read", page[p].token)
        /\ Is(p, "sent")
    BY <1>5 DEF AsksForRenewal
  <2>2. page[p].token \in DOMAIN tokens /\ page[p].token \in Nat
    BY <2>1, PanelFacts, AwayIs DEF Renewing, PanelShape, PagesHold, PageHolds, Is
  <2>3. kept' \in {None} \cup DOMAIN tokens
    BY <2>1, PanelFacts DEF Renewing
  <2> QED
    BY <2>1, <2>2, <2>3, BrowserKeepsSignIn DEF Renewing
<1>6. ASSUME NEW p \in Pages, ServiceRenews(p) PROVE SignIn'
  BY <1>6, RefreshReadsStep, RotateStep DEF Renewing, ServiceRenews, Pages
<1>7. ASSUME NEW p \in Pages, RenewalArrives(p) PROVE SignIn'
  <2>1. UNCHANGED <<tokens, failed, ended, kept>> /\ Turns(p, "rest", None)
    BY <1>7 DEF RenewalArrives
  <2>2. kept' \in {None} \cup DOMAIN tokens /\ None \in Nat
    BY <2>1, PanelFacts DEF Renewing, None
  <2> QED
    BY <2>1, <2>2, BrowserKeepsSignIn DEF Renewing
<1>8. ASSUME NEW p \in Pages, RenewalRejected(p) PROVE SignIn'
  BY <1>8, RefreshEndsFamilyStep DEF Renewing, RenewalRejected, Pages
<1>9. ASSUME NEW p \in Pages, RenewalLost(p) PROVE SignIn'
  BY <1>9, RequestEndsStep DEF Renewing, RenewalLost, Pages
<1>10. ASSUME NEW p \in Pages, PageArrives(p) PROVE SignIn'
  <2>1. /\ UNCHANGED <<tokens, failed, ended, request>>
        /\ kept' \in {None, kept, page[p].pair}
    BY <1>10 DEF PageArrives
  <2>2. kept' \in {None} \cup DOMAIN tokens
    BY <2>1, PanelFacts DEF Renewing, PanelShape
  <2> QED
    BY <2>1, <2>2, BrowserKeepsSignIn DEF Renewing
<1>11. CASE PairAges \/ \E w \in Webs : \E e \in recent[w] : Forgets(w, e)
  BY <1>1, <1>11 DEF PairAges, Forgets
<1>12. ASSUME NEW p \in Pages,
              \/ \E w \in Webs, data \in BOOLEAN : Opens(p, w, data)
              \/ RemembersPair(p) \/ JoinsRenewal(p) \/ PageLost(p)
       PROVE  SignIn'
  BY <1>1, <1>12 DEF Opens, RemembersPair, JoinsRenewal, PageLost
<1>13. CASE UNCHANGED panelVars
  BY <1>1, <1>13 DEF panelVars
<1> QED
  BY <1>2, <1>3, <1>4, <1>5, <1>6, <1>7, <1>8, <1>9, <1>10, <1>11, <1>12,
     <1>13 DEF PanelNext

\* The token of the browser can go on after a refusal, or its family had a loss.
LEMMA RenewalRejectedKeptGoOn ==
  ASSUME Renewing, NEW p \in Pages, RenewalRejected(p)
  PROVE  KeptGoOn'
<1>1. Is(p, "asking") /\ Does(p, "read") /\ Settles(p, None) /\ UNCHANGED <<kept, lost>>
  BY DEF RenewalRejected, RefreshEndsFamily
<1>2. \A q \in Pages : page'[q].token = page[q].token
  BY <1>1, SettledPages DEF Renewing
<1>3. request[p].token = page[p].token /\ page[p].token # None
  BY <1>1, AwayIs DEF Renewing, PagesHold, PageHolds, Is
<1>4. FamilyOf(request[p].token) \in lost
  BY <1>3, RenewalRejectedTokens DEF Renewing, KeptGoOn, GoesOn
<1>5. \A i \in DOMAIN tokens : GoesOn(i) => GoesOn(i)'
  BY <1>1, <1>4, RenewalRejectedTokens DEF Renewing, GoesOn, FamilyOf
<1>6. kept # None => kept \in DOMAIN tokens
  BY PanelFacts DEF Renewing
<1>7. \A q \in Pages : page[q].token # None => page[q].token \in DOMAIN tokens
  BY DEF Renewing, PanelShape
<1> QED
  BY <1>1, <1>2, <1>5, <1>6, <1>7, RenewalRejectedTokens DEF Renewing, KeptGoOn, GoesOn,
     FamilyOf

\* A sign-in keeps the panel in order.
LEMMA SignsInStep ==
  ASSUME Renewing, SignsIn
  PROVE  SignIn' => Renewing'
<1>1. PanelShape'
  BY SignsInPanelShape
<1>2. PagesHold'
  BY DEF Renewing, SignsIn, PagesHold, PanelShape, Pages, PageHolds, None, Families, Is,
     Does, FamilyOf
<1>3. OneAsks'
  BY PanelFacts, AwayIs, SignsInTokens DEF Renewing, SignsIn, OneAsks, Pages, Is
<1>4. OneToken'
  BY PanelFacts, AwayIs, SignsInTokens DEF Renewing, SignsIn, OneToken, Pages, None
<1>5. KeptGoOn'
  BY PanelFacts, AwayIs, SignsInTokens DEF Renewing, SignsIn, KeptGoOn, PanelShape,
    PagesHold, OneAsks, OneToken, PairsAreNew, OnItsWay, None, GoesOn, Pages, Families,
    PageHolds, Is, IsNew, Does, FamilyOf
<1>6. PairsAreNew'
  BY PanelFacts, AwayIs, SignsInTokens DEF Renewing, SignsIn, PairsAreNew, PanelShape,
    PagesHold, Pages, None, IsNew, Does, Families, PageHolds, FamilyOf, GoesOn, Is
<1>7. OnItsWay'
  BY PanelFacts, AwayIs, SignsInTokens DEF Renewing, SignsIn, OnItsWay, PanelShape,
     PagesHold, OneAsks, OneToken
<1> QED
  BY <1>1, <1>2, <1>3, <1>4, <1>5, <1>6, <1>7 DEF Renewing

\* A sign-out keeps the panel in order.
LEMMA SignsOutStep ==
  ASSUME Renewing, SignsOut
  PROVE  SignIn' => Renewing'
<1>1. PanelShape'
  BY SignsOutPanelShape
<1>2. PagesHold'
  BY DEF Renewing, SignsOut, PagesHold, None, Pages, PageHolds, Is, Does, FamilyOf
<1>3. OneAsks'
  BY PanelFacts, AwayIs DEF Renewing, SignsOut, OneAsks, None, Pages, Is
<1>4. OneToken'
  BY PanelFacts, AwayIs DEF Renewing, SignsOut, OneToken, None, Pages
<1>5. KeptGoOn'
  BY PanelFacts, AwayIs DEF Renewing, SignsOut, KeptGoOn, None, GoesOn, Pages, FamilyOf
<1>6. PairsAreNew'
  BY DEF Renewing, SignsOut, PairsAreNew, None, Pages, IsNew, Does, FamilyOf, GoesOn
<1>7. OnItsWay'
  BY DEF Renewing, SignsOut, OnItsWay
<1> QED
  BY <1>1, <1>2, <1>3, <1>4, <1>5, <1>6, <1>7 DEF Renewing

\* A pair may age while no page is under way with another.
LEMMA PairAgesStep ==
  ASSUME Renewing, PairAges
  PROVE  SignIn' => Renewing'
<1>1. PanelShape'
  BY DEF Renewing, PairAges, PanelShape, None, Pages, Is, staffVars, Families
<1>2. PagesHold'
  BY PanelFacts, AwayIs DEF Renewing, PairAges, PagesHold, None, Pages, Is, staffVars,
    PageHolds, Does, FamilyOf
<1>3. OneAsks'
  BY PanelFacts, AwayIs DEF Renewing, PairAges, OneAsks, None, Pages, Is, staffVars
<1>4. OneToken'
  BY PanelFacts, AwayIs DEF Renewing, PairAges, OneToken, PanelShape, PagesHold, None,
     Pages, Is, staffVars, Families, PageHolds, Does
<1>5. KeptGoOn'
  BY DEF Renewing, PairAges, KeptGoOn, None, Pages, Is, staffVars, GoesOn, FamilyOf
<1>6. PairsAreNew'
  BY PanelFacts, AwayIs DEF Renewing, PairAges, PairsAreNew, PanelShape, PagesHold,
     None, Pages, Is, staffVars, IsNew, Does, Families, PageHolds, FamilyOf
<1>7. OnItsWay'
  BY DEF Renewing, PairAges, OnItsWay, None, Pages, Is, staffVars, FamilyOf
<1> QED
  BY <1>1, <1>2, <1>3, <1>4, <1>5, <1>6, <1>7 DEF Renewing

\* The grace ends for no token that a page still brings.
LEMMA GraceOfPagesEndsStep ==
  ASSUME Renewing, NEW i \in DOMAIN tokens, GraceOfPagesEnds(i)
  PROVE  SignIn' => Renewing'
<1>1. PanelShape'
  BY GraceOfPagesEndsTokens DEF Renewing, GraceOfPagesEnds, PanelShape, GraceEnds,
     Pages, None, Families
<1>2. PagesHold'
  BY DEF Renewing, GraceOfPagesEnds, PagesHold, GraceEnds, Pages, PageHolds, Is, Does,
     None, FamilyOf
<1>3. OneAsks'
  BY PanelFacts, AwayIs, GraceOfPagesEndsTokens DEF Renewing, GraceOfPagesEnds, OneAsks,
    GraceEnds, Pages, Is
<1>4. OneToken'
  BY PanelFacts, AwayIs, GraceOfPagesEndsTokens DEF Renewing, GraceOfPagesEnds,
    OneToken, GraceEnds, Pages, None
<1>5. KeptGoOn'
  BY PanelFacts, AwayIs, GraceOfPagesEndsTokens DEF Renewing, GraceOfPagesEnds,
    KeptGoOn, PanelShape, PagesHold, OnItsWay, GraceEnds, Pages, None, GoesOn, Families,
    PageHolds, FamilyOf, Is, Does
<1>6. PairsAreNew'
  BY DEF Renewing, GraceOfPagesEnds, PairsAreNew, GraceEnds, Pages, None, IsNew, Does,
     FamilyOf, GoesOn
<1>7. OnItsWay'
  BY DEF Renewing, GraceOfPagesEnds, OnItsWay, GraceEnds, Pages, None, FamilyOf, Is,
     Does
<1> QED
  BY <1>1, <1>2, <1>3, <1>4, <1>5, <1>6, <1>7 DEF Renewing

\* A process forgets a pair that no page needs of it.
LEMMA ForgetsStep ==
  ASSUME Renewing, NEW w \in Webs, NEW e \in recent[w], Forgets(w, e)
  PROVE  SignIn' => Renewing'
<1>1. PanelShape'
  BY ForgetsPanelShape
<1>2. PagesHold'
  BY PanelFacts, AwayIs DEF Renewing, Forgets, PagesHold, staffVars, Pages, PageHolds,
    Is, Does, None, FamilyOf
<1>3. OneAsks'
  BY PanelFacts, AwayIs DEF Renewing, Forgets, OneAsks, staffVars, Pages, Is
<1>4. OneToken'
  BY PanelFacts, AwayIs DEF Renewing, Forgets, OneToken, staffVars, Pages, None
<1>5. KeptGoOn'
  BY DEF Renewing, Forgets, KeptGoOn, staffVars, None, GoesOn, Pages, FamilyOf
<1>6. PairsAreNew'
  BY PanelFacts, AwayIs DEF Renewing, Forgets, PairsAreNew, staffVars, Pages, None,
    IsNew, Does, FamilyOf, GoesOn
<1>7. OnItsWay'
  BY DEF Renewing, Forgets, OnItsWay, staffVars, None, FamilyOf, Pages, Is, Does
<1> QED
  BY <1>1, <1>2, <1>3, <1>4, <1>5, <1>6, <1>7 DEF Renewing

\* A page that is opened brings the token of the browser.
LEMMA OpensStep ==
  ASSUME Renewing, NEW p \in Pages, NEW w \in Webs, NEW data \in BOOLEAN, Opens(p, w,
         data)
  PROVE  SignIn' => Renewing'
<1>1. PanelShape'
  <2>1. UNCHANGED <<tokens, recent, stale, lost>> /\ kept \in DOMAIN tokens
    BY PanelFacts DEF Renewing, Opens, staffVars
  <2>2. page' = [page EXCEPT ![p] = [at |-> "sent", web |-> w, token |-> kept,
                                     pair |-> None, data |-> data]]
    BY DEF Opens
  <2>3. /\ page' = [q \in Pages |-> page'[q]]
        /\ page'[p].at = "sent" /\ page'[p].token = kept /\ page'[p].pair = None
        /\ \A q \in Pages : q # p => page'[q] = page[q]
    BY <2>2 DEF Renewing, PanelShape
  <2>4. Families' = Families
    BY <2>1 DEF Families
  <2> QED
    BY <2>1, <2>3, <2>4 DEF Renewing, PanelShape
<1>2. PagesHold'
  BY PanelFacts, AwayIs DEF Renewing, Opens, PagesHold, Is, None, staffVars, Pages,
    PageHolds, Does, FamilyOf
<1>3. OneAsks'
  BY PanelFacts, AwayIs DEF Renewing, Opens, OneAsks, Is, None, staffVars, Pages
<1>4. OneToken'
  BY PanelFacts, AwayIs DEF Renewing, Opens, OneToken, Is, None, staffVars, Pages
<1>5. KeptGoOn'
  BY DEF Renewing, Opens, KeptGoOn, Is, None, staffVars, GoesOn, Pages, FamilyOf
<1>6. PairsAreNew'
  BY PanelFacts, AwayIs DEF Renewing, Opens, PairsAreNew, PanelShape, PagesHold, Is,
    None, staffVars, Pages, IsNew, Does, Families, PageHolds, FamilyOf, GoesOn
<1>7. OnItsWay'
  BY PanelFacts, AwayIs DEF Renewing, Opens, OnItsWay, PanelShape, PagesHold, Is, None,
    staffVars, FamilyOf, Pages, Does, Families, PageHolds
<1> QED
  BY <1>1, <1>2, <1>3, <1>4, <1>5, <1>6, <1>7 DEF Renewing

\* A process answers from what it remembers.
LEMMA RemembersPairStep ==
  ASSUME Renewing, NEW p \in Pages, RemembersPair(p)
  PROVE  SignIn' => Renewing'
<1>1. PanelShape'
  BY PanelFacts, AwayIs DEF Renewing, RemembersPair, PanelShape, PagesHold, OneAsks, Is,
    Remembered, Moved, staffVars, Pages, None, Families, PageHolds, Does, FamilyOf
<1>2. PagesHold'
  BY PanelFacts, AwayIs DEF Renewing, RemembersPair, PagesHold, PanelShape, Is,
    Remembered, Moved, staffVars, Pages, PageHolds, None, Families, Does, FamilyOf
<1>3. OneAsks'
  BY DEF Renewing, RemembersPair, OneAsks, Is, Remembered, Moved, staffVars, Pages
<1>4. OneToken'
  BY DEF Renewing, RemembersPair, OneToken, Is, Remembered, Moved, staffVars, Pages
<1>5. KeptGoOn'
  BY PanelFacts, AwayIs DEF Renewing, RemembersPair, KeptGoOn, Is, Remembered, Moved,
    staffVars, None, GoesOn, Pages, FamilyOf
<1>6. PairsAreNew'
  <2>1. PICK e \in recent[page[p].web] :
          e[1] = page[p].token /\ page' = [page EXCEPT ![p] = Moved(p, "answer", e[2])]
    BY DEF RemembersPair, Remembered
  <2>2. UNCHANGED <<tokens, kept, request, recent, stale, lost>>
    BY DEF RemembersPair, staffVars
  <2>3. /\ page'[p].token = page[p].token /\ page'[p].pair = e[2]
        /\ \A q \in Pages : q # p => page'[q] = page[q]
    BY <2>1 DEF Renewing, PanelShape, Moved
  <2>4. page[p].web \in Webs
    BY AwayIs DEF Renewing, RemembersPair, PagesHold, PageHolds, Is
  <2>5. \A i, j : IsNew(i, j) => IsNew(i, j)'
    BY <2>2, <2>3 DEF IsNew, GoesOn, FamilyOf
  <2>6. IsNew(e[2], e[1])
    BY <2>1, <2>4 DEF Renewing, PairsAreNew
  <2> QED
    BY <2>1, <2>2, <2>3, <2>5, <2>6 DEF Renewing, PairsAreNew, Does
<1>7. OnItsWay'
  BY PanelFacts, AwayIs DEF Renewing, RemembersPair, OnItsWay, PanelShape, PagesHold,
    OneToken, Is, Remembered, Moved, staffVars, None, FamilyOf, Pages, Does, Families,
    PageHolds
<1> QED
  BY <1>1, <1>2, <1>3, <1>4, <1>5, <1>6, <1>7 DEF Renewing

\* A page waits for the renewal of another.
LEMMA JoinsRenewalStep ==
  ASSUME Renewing, NEW p \in Pages, JoinsRenewal(p)
  PROVE  SignIn' => Renewing'
<1>1. PanelShape'
  BY PanelFacts, AwayIs DEF Renewing, JoinsRenewal, PanelShape, PagesHold, OneAsks, Is,
    Remembered, Fellows, Moved, None, staffVars, Pages, Families, PageHolds, Does,
    FamilyOf
<1>2. PagesHold'
  BY PanelFacts, AwayIs DEF Renewing, JoinsRenewal, PagesHold, Is, Remembered, Fellows,
    Moved, None, staffVars, Pages, PageHolds, Does, FamilyOf
<1>3. OneAsks'
  BY PanelFacts, AwayIs DEF Renewing, JoinsRenewal, OneAsks, Is, Remembered, Fellows,
    Moved, None, staffVars, Pages
<1>4. OneToken'
  BY PanelFacts, AwayIs DEF Renewing, JoinsRenewal, OneToken, Is, Remembered, Fellows,
    Moved, None, staffVars, Pages
<1>5. KeptGoOn'
  BY PanelFacts, AwayIs DEF Renewing, JoinsRenewal, KeptGoOn, Is, Remembered, Fellows,
    Moved, None, staffVars, GoesOn, Pages, FamilyOf
<1>6. PairsAreNew'
  BY PanelFacts, AwayIs DEF Renewing, JoinsRenewal, PairsAreNew, Is, Remembered,
    Fellows, Moved, None, staffVars, Pages, IsNew, Does, FamilyOf, GoesOn
<1>7. OnItsWay'
  BY PanelFacts, AwayIs DEF Renewing, JoinsRenewal, OnItsWay, PanelShape, PagesHold,
     PairsAreNew, Is, Remembered, Fellows, Moved, None, staffVars, FamilyOf, Pages,
     Does, Families, PageHolds, IsNew
<1> QED
  BY <1>1, <1>2, <1>3, <1>4, <1>5, <1>6, <1>7 DEF Renewing

\* One page asks for all that bring its token.
LEMMA AsksForRenewalStep ==
  ASSUME Renewing, NEW p \in Pages, AsksForRenewal(p)
  PROVE  SignIn' => Renewing'
<1>1. PanelShape'
  <2>1. UNCHANGED <<tokens, recent, stale, lost>>
    BY DEF AsksForRenewal
  <2>2. page' = [page EXCEPT ![p] = Moved(p, "asking", None)]
    BY DEF AsksForRenewal
  <2>3. /\ page' = [q \in Pages |-> page'[q]]
        /\ page'[p].at = "asking" /\ page'[p].token = page[p].token
        /\ page'[p].pair = None
        /\ \A q \in Pages : q # p => page'[q] = page[q]
    BY <2>2 DEF Renewing, PanelShape, Moved
  <2>4. Families' = Families
    BY <2>1 DEF Families
  <2> QED
    BY <2>1, <2>3, <2>4 DEF Renewing, PanelShape
<1>2. PagesHold'
  BY PanelFacts, AwayIs, RequestTurns DEF Renewing, AsksForRenewal, PagesHold,
    PanelShape, Is, Remembered, Fellows, Moved, None, Pages, PageHolds, Families, Does,
    FamilyOf
<1>3. OneAsks'
  BY DEF Renewing, AsksForRenewal, OneAsks, Is, Remembered, Fellows, Moved, None, Pages
<1>4. OneToken'
  BY DEF Renewing, AsksForRenewal, OneToken, Moved, None, Pages
<1>5. KeptGoOn'
  BY DEF Renewing, AsksForRenewal, KeptGoOn, Moved, None, GoesOn, Pages, FamilyOf
<1>6. PairsAreNew'
  BY PanelFacts, AwayIs, RequestTurns DEF Renewing, AsksForRenewal, PairsAreNew, Is,
    Remembered, Fellows, Moved, None, Pages, IsNew, Does, FamilyOf, GoesOn
<1>7. OnItsWay'
  BY AsksForRenewalOnItsWay
<1> QED
  BY <1>1, <1>2, <1>3, <1>4, <1>5, <1>6, <1>7 DEF Renewing

\* The service reads the token that it was asked about.
LEMMA ServiceReadsStep ==
  ASSUME Renewing, NEW p \in Pages, ServiceReads(p)
  PROVE  SignIn' => Renewing'
<1>1. PanelShape'
  BY DEF Renewing, ServiceReads, PanelShape, Is, RefreshReads, Pages, None, Families,
     Does
<1>2. PagesHold'
  BY PanelFacts, AwayIs, RequestTurns DEF Renewing, ServiceReads, PagesHold, Is,
    RefreshReads, Pages, PageHolds, Does, None, FamilyOf
<1>3. OneAsks'
  BY RequestTurns DEF Renewing, ServiceReads, OneAsks, Is, RefreshReads, Pages, Does
<1>4. OneToken'
  BY RequestTurns DEF Renewing, ServiceReads, OneToken, Is, RefreshReads, Pages, None
<1>5. KeptGoOn'
  BY DEF Renewing, ServiceReads, KeptGoOn, Is, RefreshReads, None, GoesOn, Pages, Does,
     FamilyOf
<1>6. PairsAreNew'
  BY PanelFacts, AwayIs, RequestTurns DEF Renewing, ServiceReads, PairsAreNew, Is,
    RefreshReads, Pages, None, IsNew, Does, FamilyOf, GoesOn
<1>7. OnItsWay'
  BY PanelFacts, AwayIs, RequestTurns DEF Renewing, ServiceReads, OnItsWay, Is,
    RefreshReads, None, FamilyOf, Pages, Does
<1> QED
  BY <1>1, <1>2, <1>3, <1>4, <1>5, <1>6, <1>7 DEF Renewing

\* The service replaces it.
LEMMA ServiceRotatesStep ==
  ASSUME Renewing, NEW p \in Pages, ServiceRotates(p)
  PROVE  SignIn' => Renewing'
<1>1. PanelShape'
  BY ServiceRotatesTokens, RequestTurns DEF Renewing, ServiceRotates, PanelShape,
     PagesHold
<1>2. PagesHold'
  BY PanelFacts, AwayIs, ServiceRotatesTokens, RequestTurns DEF Renewing,
    ServiceRotates, PagesHold, PanelShape, Is, Rotate, Pages, PageHolds, None, Families,
    Does, FamilyOf
<1>3. OneAsks'
  BY DEF Renewing, ServiceRotates, OneAsks, Is, Rotate, Pages
<1>4. OneToken'
  BY RequestTurns DEF Renewing, ServiceRotates, OneToken, Is, Rotate, Pages, None, Does
<1>5. KeptGoOn'
  BY PanelFacts, AwayIs, ServiceRotatesTokens, RequestTurns DEF Renewing,
    ServiceRotates, KeptGoOn, PanelShape, PagesHold, Is, Rotate, None, GoesOn, Pages,
    Families, PageHolds, Does, FamilyOf
<1>6. PairsAreNew'
  BY ServiceRotatesPairsAreNew
<1>7. OnItsWay'
  BY PanelFacts, AwayIs, ServiceRotatesTokens, RequestTurns DEF Renewing,
    ServiceRotates, OnItsWay, PanelShape, PagesHold, OneToken, Is, Rotate, None,
    FamilyOf, Pages, Does, Families, PageHolds
<1> QED
  BY <1>1, <1>2, <1>3, <1>4, <1>5, <1>6, <1>7 DEF Renewing

\* The new pair arrives at the process that asked.
LEMMA RenewalArrivesStep ==
  ASSUME Renewing, NEW p \in Pages, RenewalArrives(p)
  PROVE  SignIn' => Renewing'
<1>1. PanelShape'
  BY RenewalArrivesPanelShape
<1>2. PagesHold'
  BY RenewalArrivesPagesHold
<1>3. OneAsks'
  BY RenewalArrivesOneAsks
<1>4. OneToken'
  BY RequestTurns, SettledPages DEF Renewing, RenewalArrives, OneToken, PanelShape
<1>5. KeptGoOn'
  BY SettledPages DEF Renewing, RenewalArrives, KeptGoOn, Is, Does, None, GoesOn, Pages,
     FamilyOf
<1>6. PairsAreNew'
  BY RenewalArrivesPairsAreNew
<1>7. OnItsWay'
  BY RenewalArrivesOnItsWay
<1> QED
  BY <1>1, <1>2, <1>3, <1>4, <1>5, <1>6, <1>7 DEF Renewing

\* The service refuses.
LEMMA RenewalRejectedStep ==
  ASSUME Renewing, NEW p \in Pages, RenewalRejected(p)
  PROVE  SignIn' => Renewing'
<1>1. PanelShape'
  BY PanelFacts, AwayIs, RenewalRejectedTokens, RequestTurns, SettledPages DEF Renewing,
     RenewalRejected, PanelShape
<1>2. PagesHold'
  <2>1. /\ Is(p, "asking") /\ Does(p, "read") /\ Settles(p, None) /\ lost' = lost
        /\ request[p].token = page[p].token /\ page[p].token # None
        /\ Turns(p, "rest", None)
    BY DEF Renewing, RenewalRejected, RefreshEndsFamily, PagesHold, PageHolds, Is, Does
  <2>2. /\ page[p].token \in DOMAIN tokens /\ FamilyOf(page[p].token) \in lost
        /\ \A k \in DOMAIN tokens : FamilyOf(k)' = FamilyOf(k)
    BY <2>1, RenewalRejectedTokens DEF Renewing, KeptGoOn, GoesOn, FamilyOf
  <2>3. /\ request'[p].at = "rest"
        /\ \A q \in Pages : q # p => request'[q] = request[q]
    BY <2>1, RequestTurns DEF Renewing
  <2>4. ASSUME NEW q \in Pages PROVE PageHolds(q)'
    <3>1. PageHolds(q) /\ page[q].token \in {None} \cup DOMAIN tokens
      BY DEF Renewing, PagesHold, PanelShape
    <3>2. CASE page'[q] = page[q]
      <4>1. q # p
        BY <2>1, <3>2, SettledPages DEF Renewing, Is
      <4> QED
        BY <2>1, <2>2, <2>3, <3>1, <3>2, <4>1, AwayIs DEF PageHolds, Is, Does
    <3>3. CASE /\ page[q].web = page[p].web /\ page[q].token = page[p].token
               /\ Is(q, "asking") \/ Is(q, "joined")
               /\ page'[q].web = page[q].web /\ page'[q].token = page[q].token
               /\ page'[q].at = "answer" /\ page'[q].pair = None
      <4>1. Does(q, "rest")'
        BY <2>1, <2>3, <3>1, <3>3 DEF PageHolds, Is, Does, Renewing, OneAsks
      <4>2. page'[q] # Away /\ page'[q].token # None /\ page'[q].web \in Webs
        BY <2>1, <3>1, <3>3, AwayIs DEF PageHolds, Is
      <4>3. tokens'[page'[q].token].family \in lost'
        BY <2>1, <2>2, <3>3 DEF FamilyOf
      <4> QED
        BY <3>3, <4>1, <4>2, <4>3 DEF PageHolds, Is, Does, FamilyOf
    <3> QED
      BY <2>1, <3>2, <3>3, SettledPages DEF Renewing
  <2> QED
    BY <2>4 DEF PagesHold
<1>3. OneAsks'
  BY RequestTurns, SettledPages DEF Renewing, RenewalRejected, OneAsks, Is,
     RefreshEndsFamily, None, Pages
<1>4. OneToken'
  BY RequestTurns, SettledPages DEF Renewing, RenewalRejected, OneToken, Is,
     RefreshEndsFamily, None, Pages, Does
<1>5. KeptGoOn'
  BY RenewalRejectedKeptGoOn
<1>6. PairsAreNew'
  BY RenewalRejectedPairsAreNew
<1>7. OnItsWay'
  <2>1. /\ Is(p, "asking") /\ Does(p, "read") /\ Settles(p, None) /\ lost' = lost
        /\ kept' = kept /\ request[p].token = page[p].token /\ page[p].token # None
        /\ Turns(p, "rest", None)
    BY DEF Renewing, RenewalRejected, RefreshEndsFamily, PagesHold, PageHolds, Is, Does
  <2>2. /\ tokens[page[p].token].is \in {"late", "revoked"}
        /\ kept \in {None} \cup DOMAIN tokens
        /\ \A k \in DOMAIN tokens :
             /\ FamilyOf(k)' = FamilyOf(k)
             /\ tokens'[k].is = "replaced" => tokens[k].is = "replaced"
    BY <2>1, RenewalRejectedTokens, PanelFacts DEF Renewing, FamilyOf
  <2>3. \A q \in Pages : q # p => request'[q] = request[q]
    BY <2>1, RequestTurns DEF Renewing
  <2>4. ASSUME kept # None, tokens'[kept].is = "replaced", FamilyOf(kept)' \notin lost
        PROVE  \E q \in Pages : /\ page'[q].token = kept
                               /\ \/ Is(q, "asking")' /\ Does(q, "answer")'
                                  \/ page'[q].pair # None
    <3>1. PICK q \in Pages : /\ page[q].token = kept
                             /\ \/ Is(q, "asking") /\ Does(q, "answer")
                                \/ page[q].pair # None
      <4>1. tokens[kept].is = "replaced" /\ FamilyOf(kept) \notin lost
        BY <2>1, <2>2, <2>4 DEF FamilyOf
      <4>2. OnItsWay
        BY DEF Renewing
      <4> QED
        BY <2>4, <4>1, <4>2 DEF OnItsWay
    <3>2. q # p /\ page[q].token # page[p].token
      BY <2>2, <2>4, <3>1
    <3>3. page'[q] = page[q]
      BY <2>1, <3>2, SettledPages DEF Renewing
    <3> QED
      BY <2>3, <3>1, <3>2, <3>3 DEF Is, Does
  <2> QED
    BY <2>1, <2>4 DEF OnItsWay
<1> QED
  BY <1>1, <1>2, <1>3, <1>4, <1>5, <1>6, <1>7 DEF Renewing

\* The answer of the service is lost.
LEMMA RenewalLostStep ==
  ASSUME Renewing, NEW p \in Pages, RenewalLost(p)
  PROVE  SignIn' => Renewing'
<1>1. PanelShape'
  BY PanelFacts, AwayIs, RequestTurns DEF Renewing, RenewalLost, PanelShape, PagesHold,
    Is, RequestEnds, Pages, Fellows, Does, FamilyOf, None, Families, PageHolds
<1>2. PagesHold'
  BY PanelFacts, AwayIs, RequestTurns DEF Renewing, RenewalLost, PagesHold, PanelShape,
     OneAsks, Is, RequestEnds, Pages, Fellows, Does, FamilyOf, PageHolds, None
<1>3. OneAsks'
  BY PanelFacts, AwayIs, RequestTurns DEF Renewing, RenewalLost, OneAsks, Is,
     RequestEnds, Pages, Fellows, Does, FamilyOf
<1>4. OneToken'
  BY PanelFacts, AwayIs, RequestTurns DEF Renewing, RenewalLost, OneToken, Is,
     RequestEnds, Pages, Fellows, Does, FamilyOf
<1>5. KeptGoOn'
  BY PanelFacts, AwayIs, RequestTurns DEF Renewing, RenewalLost, KeptGoOn, Is,
    RequestEnds, Pages, Fellows, Does, FamilyOf, None, GoesOn
<1>6. PairsAreNew'
  BY RenewalLostPairsAreNew
<1>7. OnItsWay'
  BY RenewalLostOnItsWay
<1> QED
  BY <1>1, <1>2, <1>3, <1>4, <1>5, <1>6, <1>7 DEF Renewing

\* The page reaches the browser, and with it the pair.
LEMMA PageArrivesStep ==
  ASSUME Renewing, NEW p \in Pages, PageArrives(p)
  PROVE  SignIn' => Renewing'
<1>1. PanelShape'
  <2>1. /\ page' = [page EXCEPT ![p] = Away] /\ stale' = (stale /\ kept' = kept)
        /\ UNCHANGED <<tokens, recent, lost>>
    BY DEF PageArrives
  <2>2. PanelShape
    BY DEF Renewing
  <2>3. stale' \in BOOLEAN
    BY <2>1
  <2>4. /\ page' = [q \in Pages |-> page'[q]]
        /\ page'[p].at = "away" /\ page'[p].token = None /\ page'[p].pair = None
        /\ \A q \in Pages : q # p => page'[q] = page[q]
    BY <2>1, <2>2, AwayIs DEF PanelShape
  <2>5. Families' = Families
    BY <2>1 DEF Families
  <2> QED
    BY <2>1, <2>2, <2>3, <2>4, <2>5 DEF PanelShape
<1>2. PagesHold'
  BY PanelFacts, AwayIs DEF Renewing, PageArrives, PagesHold, Is, None, Pages,
    PageHolds, Does, FamilyOf
<1>3. OneAsks'
  BY PanelFacts, AwayIs DEF Renewing, PageArrives, OneAsks, Is, None, Pages
<1>4. OneToken'
  BY PageArrivesOneToken
<1>5. KeptGoOn'
  BY PanelFacts, AwayIs DEF Renewing, PageArrives, KeptGoOn, PanelShape, PagesHold,
    PairsAreNew, Is, None, GoesOn, Pages, Families, PageHolds, IsNew, Does, FamilyOf
<1>6. PairsAreNew'
  BY PageArrivesPairsAreNew
<1>7. OnItsWay'
  BY PanelFacts, AwayIs DEF Renewing, PageArrives, OnItsWay, PairsAreNew, Is, None,
     FamilyOf, Pages, Does, Families, PageHolds, GoesOn, IsNew
<1> QED
  BY <1>1, <1>2, <1>3, <1>4, <1>5, <1>6, <1>7 DEF Renewing

\* The page does not reach the browser.
LEMMA PageLostStep ==
  ASSUME Renewing, NEW p \in Pages, PageLost(p)
  PROVE  SignIn' => Renewing'
<1>1. PanelShape'
  BY PanelFacts, AwayIs DEF Renewing, PageLost, PanelShape, PagesHold, Is, None,
    FamilyOf, staffVars, Pages, Families, PageHolds, Does
<1>2. PagesHold'
  BY PanelFacts, AwayIs DEF Renewing, PageLost, PagesHold, Is, None, FamilyOf,
    staffVars, Pages, PageHolds, Does
<1>3. OneAsks'
  BY PanelFacts, AwayIs DEF Renewing, PageLost, OneAsks, Is, None, FamilyOf, staffVars,
    Pages
<1>4. OneToken'
  BY PanelFacts, AwayIs DEF Renewing, PageLost, OneToken, Is, None, FamilyOf, staffVars,
    Pages
<1>5. KeptGoOn'
  BY PanelFacts, AwayIs DEF Renewing, PageLost, KeptGoOn, Is, None, FamilyOf, staffVars,
     GoesOn
<1>6. PairsAreNew'
  BY PageLostPairsAreNew
<1>7. OnItsWay'
  BY PageLostOnItsWay
<1> QED
  BY <1>1, <1>2, <1>3, <1>4, <1>5, <1>6, <1>7 DEF Renewing

\* The panel begins in order.
LEMMA RenewingInit == PanelInit => Renewing
<1> SUFFICES ASSUME PanelInit PROVE Renewing
  OBVIOUS
<1>1. /\ SignIn /\ tokens = <<Token(1)>> /\ kept = 1 /\
           request = [r \in Requests |-> Resting]
      /\ page = [p \in Pages |-> Away] /\ recent = [w \in Webs |-> {}]
      /\ stale = FALSE /\ lost = {}
  BY SignInInit DEF PanelInit, StaffInit
<1>2. /\ DOMAIN tokens = {1} /\ tokens[1].is = "live"
  BY <1>1 DEF Token
<1>3. \A p \in Pages : page[p] = Away /\ Does(p, "rest") /\ ~Does(p, "answer")
                       /\ ~Does(p, "read") /\ ~Does(p, "rotate") /\ ~Does(p, "password")
  BY <1>1 DEF Does, Resting, Pages
<1>4. PanelShape
  BY <1>1, <1>2, <1>3, AwayIs DEF PanelShape
<1>5. PagesHold
  BY <1>3, AwayIs DEF PagesHold, PageHolds, Is
<1>6. OneAsks /\ OneToken
  BY <1>1, <1>3, AwayIs DEF OneAsks, OneToken, Is
<1>7. KeptGoOn /\ OnItsWay
  BY <1>1, <1>2, <1>3, AwayIs DEF KeptGoOn, OnItsWay, GoesOn
<1>8. PairsAreNew
  BY <1>1, <1>3, AwayIs DEF PairsAreNew
<1> QED
  BY <1>1, <1>4, <1>5, <1>6, <1>7, <1>8 DEF Renewing

\* No step of the pages, the processes and the service disturbs its order.
LEMMA RenewingNext == Renewing /\ [PanelNext]_panelVars => Renewing'
<1> SUFFICES ASSUME Renewing, [PanelNext]_panelVars PROVE Renewing'
  OBVIOUS
<1>1. SignIn'
  BY RenewingSignIn
<1>2. ASSUME NEW p \in Pages, ServiceRenews(p) PROVE Renewing'
  <2>1. ServiceReads(p) \/ ServiceRotates(p)
    BY <1>2 DEF ServiceRenews, ServiceReads, ServiceRotates
  <2> QED
    BY <1>1, <2>1, ServiceReadsStep, ServiceRotatesStep
<1>3. ASSUME NEW p \in Pages,
             \/ \E w \in Webs, data \in BOOLEAN : Opens(p, w, data)
             \/ RemembersPair(p) \/ JoinsRenewal(p) \/ AsksForRenewal(p)
      PROVE  Renewing'
  BY <1>1, <1>3, OpensStep, RemembersPairStep, JoinsRenewalStep, AsksForRenewalStep
<1>4. ASSUME NEW p \in Pages,
             \/ RenewalArrives(p) \/ RenewalRejected(p) \/ RenewalLost(p)
             \/ PageArrives(p) \/ PageLost(p)
      PROVE  Renewing'
  BY <1>1, <1>4, RenewalArrivesStep, RenewalRejectedStep, RenewalLostStep,
     PageArrivesStep,
     PageLostStep
<1>5. CASE \/ SignsIn \/ SignsOut \/ PairAges \/
                \E i \in DOMAIN tokens : GraceOfPagesEnds(i)
           \/ \E w \in Webs : \E e \in recent[w] : Forgets(w, e)
  BY <1>1, <1>5, SignsInStep, SignsOutStep, PairAgesStep, GraceOfPagesEndsStep,
     ForgetsStep
<1>6. CASE UNCHANGED panelVars
  <2>1. UNCHANGED <<tokens, kept, request, page, recent, stale, lost>>
    BY <1>6 DEF panelVars, staffVars
  <2>2. PanelShape'
    BY <2>1 DEF Renewing, PanelShape, Families
  <2>3. PagesHold' /\ OneAsks' /\ OneToken'
    BY <2>1 DEF Renewing, PagesHold, PageHolds, OneAsks, OneToken, Is, Does, FamilyOf
  <2>4. KeptGoOn' /\ PairsAreNew' /\ OnItsWay'
    BY <2>1 DEF Renewing, KeptGoOn, PairsAreNew, IsNew, OnItsWay, GoesOn, Is, Does,
       FamilyOf
  <2> QED
    BY <1>1, <2>2, <2>3, <2>4 DEF Renewing
<1> QED
  BY <1>2, <1>3, <1>4, <1>5, <1>6 DEF PanelNext

\* What a page shows is a file of data or not, whatever becomes of it.
DataTyped == \A p \in Pages : page[p].data \in BOOLEAN

\* No page is under way at first.
LEMMA DataInit == PanelInit => DataTyped
<1>1. Away.data \in BOOLEAN
  BY DEF Away
<1> QED
  BY <1>1 DEF PanelInit, DataTyped

\* What a page shows does not change.
LEMMA DataStays ==
  ASSUME Renewing, DataTyped, [PanelNext]_panelVars
  PROVE  DataTyped'
<1>0. Away.data \in BOOLEAN /\ page = [p \in Pages |-> page[p]]
  BY DEF Away, Renewing, PanelShape
<1>1. ASSUME NEW p \in Pages, NEW r, page' = [page EXCEPT ![p] = r], r.data \in BOOLEAN
      PROVE  DataTyped'
  BY <1>0, <1>1 DEF DataTyped
<1>2. \A p \in Pages : \A at, pair : Moved(p, at, pair).data \in BOOLEAN
  BY DEF Moved, DataTyped
<1>3. ASSUME NEW p \in Pages, NEW w \in Webs, NEW data \in BOOLEAN, Opens(p, w, data)
      PROVE  DataTyped'
  <2> DEFINE r == [at |-> "sent", web |-> w, token |-> kept, pair |-> None, data |-> data]
  <2>1. page' = [page EXCEPT ![p] = r] /\ r.data \in BOOLEAN
    BY <1>3 DEF Opens
  <2> QED
    BY <1>1, <2>1
<1>4. ASSUME NEW p \in Pages, RemembersPair(p) \/ JoinsRenewal(p) \/ AsksForRenewal(p)
      PROVE  DataTyped'
  <2>1. \E at, pair : page' = [page EXCEPT ![p] = Moved(p, at, pair)]
    BY <1>4 DEF RemembersPair, JoinsRenewal, AsksForRenewal
  <2> QED
    BY <1>1, <1>2, <2>1
<1>5. ASSUME NEW p \in Pages, PageArrives(p) \/ PageLost(p) PROVE DataTyped'
  BY <1>0, <1>1, <1>5 DEF PageArrives, PageLost
<1>6. ASSUME NEW p \in Pages, NEW outcome, Settles(p, outcome) PROVE DataTyped'
  <2>1. \A q \in Pages : page'[q] = Moved(q, "answer", outcome) \/ page'[q] = page[q]
    BY <1>6 DEF Settles
  <2> QED
    BY <1>2, <2>1 DEF DataTyped
<1>7. ASSUME NEW p \in Pages, RenewalLost(p) PROVE DataTyped'
  <2>1. \A q \in Pages : page'[q] = Away \/ page'[q] = page[q]
    BY <1>7 DEF RenewalLost
  <2> QED
    BY <1>0, <2>1 DEF DataTyped
<1>8. ASSUME page' = page PROVE DataTyped'
  BY <1>8 DEF DataTyped
<1>9. ASSUME NEW p \in Pages, ServiceRenews(p) \/ RenewalArrives(p) \/ RenewalRejected(p)
      PROVE  DataTyped'
  BY <1>6, <1>8, <1>9 DEF ServiceRenews, RenewalArrives, RenewalRejected
<1>10. CASE \/ SignsIn \/ SignsOut \/ PairAges \/
                 \E i \in DOMAIN tokens : GraceOfPagesEnds(i)
            \/ \E w \in Webs : \E e \in recent[w] : Forgets(w, e)
  BY <1>8, <1>10 DEF SignsIn, SignsOut, PairAges, GraceOfPagesEnds, Forgets
<1>11. CASE UNCHANGED panelVars
  BY <1>8, <1>11 DEF panelVars
<1> QED
  BY <1>3, <1>4, <1>5, <1>7, <1>9, <1>10, <1>11 DEF PanelNext

\* A panel in order throws nobody out.
LEMMA RenewingHolds == Renewing /\ DataTyped
  => PanelTypeOK /\ NobodyIsThrownOut /\ SignInHolds
<1> SUFFICES ASSUME Renewing,
                      DataTyped PROVE PanelTypeOK /\ NobodyIsThrownOut /\ SignInHolds
  OBVIOUS
<1>1. \A p \in Pages :
        /\ page[p].at \in {"away", "sent", "joined", "asking", "answer"}
        /\ page[p].token \in {None} \cup DOMAIN tokens
        /\ page[p].pair \in {None} \cup DOMAIN tokens
        /\ page[p] # Away => page[p].web \in Webs
  BY DEF Renewing, PanelShape, PagesHold, PageHolds
<1>2. \A p \in Pages : page[p].data \in BOOLEAN
  BY DEF DataTyped
<1>3. ASSUME NEW w \in Webs PROVE recent[w] \subseteq (DOMAIN tokens) \X (DOMAIN tokens)
  <2> SUFFICES ASSUME NEW e \in recent[w] PROVE e \in (DOMAIN tokens) \X (DOMAIN tokens)
    OBVIOUS
  <2>1. e[1] \in DOMAIN tokens /\ e[2] \in DOMAIN tokens /\ e = <<e[1], e[2]>>
    BY DEF Renewing, PanelShape
  <2> QED
    BY <2>1
<1>4. stale \in BOOLEAN /\ lost \subseteq Families
  BY DEF Renewing, PanelShape
<1>5. PanelTypeOK
  BY <1>1, <1>2, <1>3, <1>4 DEF PanelTypeOK
<1>6. NobodyIsThrownOut
  BY DEF Renewing, PagesHold, PageHolds, KeptGoOn, GoesOn, NobodyIsThrownOut
<1>7. SignInHolds
  BY DEF Renewing, SignIn, SignInHolds, StaffShape, SessionGoesOn
<1> QED
  BY <1>5, <1>6, <1>7

\* With any number of processes of the web front between the browser and the service, and
\* any number of pages at once: no page is sent to the login for its token, and the
\* browser's token can be renewed, unless a new pair was lost on its way; and sessions go
\* on as they do without the middleware (refreshOnce of apps/web/src/middleware.ts).
THEOREM NobodyIsThrownOutByPages ==
  PanelSpec => [](PanelTypeOK /\ NobodyIsThrownOut /\ SignInHolds)
<1>1. PanelInit => DataTyped
  BY DataInit
<1>2. Renewing /\ DataTyped /\ [PanelNext]_panelVars => Renewing' /\ DataTyped'
  BY RenewingNext, DataStays
<1> QED
  BY <1>1, <1>2, RenewingInit, RenewingHolds, PTL DEF PanelSpec

\* Without pages the middleware does nothing.
PanelRests ==
  page = [p \in Pages |-> Away] /\ recent = [w \in Webs |-> {}] /\ stale = FALSE /\
    lost = {}

FrontInOrder ==
  IF part = "panel" THEN Renewing /\ DataTyped ELSE PanelRests

\* Nothing of the middleware is of its types.
LEMMA RestIsTyped == PanelRests => PanelTypeOK
<1> SUFFICES ASSUME PanelRests PROVE PanelTypeOK
  OBVIOUS
<1>1. Away.data \in BOOLEAN
  BY DEF Away
<1>2. stale \in BOOLEAN
  BY DEF PanelRests
<1>3. \A p \in Pages : page[p] = Away
  BY DEF PanelRests
<1>4. \A w \in Webs : recent[w] = {}
  BY DEF PanelRests
<1> QED
  BY <1>1, <1>2, <1>3, <1>4, AwayIs DEF PanelRests, PanelTypeOK

\* The middleware stays in order where it works, and at rest where it does not.
LEMMA FrontStays == FrontInOrder /\ [FrontNext]_frontVars => FrontInOrder'
<1> SUFFICES ASSUME FrontInOrder, [FrontNext]_frontVars PROVE FrontInOrder'
  OBVIOUS
<1>1. part' = part
  BY DEF FrontNext, frontVars
<1>2. CASE part = "panel"
  <2>1. [PanelNext]_panelVars
    BY <1>2 DEF FrontNext, frontVars
  <2>2. Renewing' /\ DataTyped'
    BY <1>2, <2>1, RenewingNext, DataStays DEF FrontInOrder
  <2> QED
    BY <1>1, <1>2, <2>2 DEF FrontInOrder
<1>3. CASE part # "panel"
  <2>1. UNCHANGED <<page, recent, stale, lost>>
    BY <1>3 DEF FrontNext, frontVars, panelVars
  <2> QED
    BY <1>1, <1>3, <2>1 DEF FrontInOrder, PanelRests
<1> QED
  BY <1>2, <1>3

\* The same among the other parts of the front, as PanelHolds states it.
THEOREM PanelIsSafe == FrontSpec => []PanelHolds
<1>1. FrontInit => FrontInOrder
  <2> SUFFICES ASSUME FrontInit PROVE FrontInOrder
    OBVIOUS
  <2>1. PanelInit
    BY DEF FrontInit
  <2>2. Renewing /\ DataTyped
    BY <2>1, RenewingInit, DataInit
  <2>3. PanelRests
    BY <2>1 DEF PanelInit, PanelRests
  <2> QED
    BY <2>2, <2>3 DEF FrontInOrder
<1>2. FrontInOrder => PanelHolds
  BY RenewingHolds, RestIsTyped DEF FrontInOrder, PanelHolds
<1> QED
  BY <1>1, <1>2, FrontStays, PTL DEF FrontSpec

=============================================================================
